-------------------------- MODULE PipelineProofs --------------------------
(***************************************************************************)
(* Three threads and two channels of any capacity lose, repeat and reorder *)
(* nothing, and what rust-shark --json writes is complete, for a source of *)
(* any length and every command line.                                      *)
(*                                                                         *)
(* The inductive invariant numbers the places a packet can be at: output,  *)
(* second channel, decode thread, first channel and capture thread hold    *)
(* consecutive packets, in that order.                                     *)
(***************************************************************************)
EXTENDS Pipeline, SequenceTheorems, TLAPS

\* How many packets were taken from the first channel.
Taken == Len(out) + Len(decoded) + (IF decPc = "send" THEN 1 ELSE 0)

\* The decode thread is there, and so is the one it works for.
Flowing == Consuming /\ decPc # "end"

WrittenFirst == \A i \in 1..Len(out) : out[i] = i
DecodedNext == \A i \in 1..Len(decoded) : decoded[i] = Len(out) + i
RawNext ==
    /\ Flowing =>
         /\ decPc = "send" => held = Taken
         /\ \A i \in 1..Len(raw) : raw[i] = Taken + i
         /\ next = Taken + Len(raw) + (IF capPc = "send" THEN 1 ELSE 0)
    /\ capPc = "send" => next \in 1..Supply

Consecutive == WrittenFirst /\ DecodedNext /\ RawNext

\* No device, no limit: rust-shark read --json.
WholeFile == opts.json /\ ~opts.live /\ opts.count = 0 /\ ~opts.timed

\* Nobody leaves before the end of the file has reached him.
EndTravels ==
    WholeFile /\ ~failed /\ ~broken =>
        /\ mainPc \in {"check", "recv"} => ~stopFlag
        /\ mainPc \notin {"check", "recv"} => decPc = "end" /\ Len(out) = Supply
        /\ decPc = "end" => Len(out) + Len(decoded) = Supply
        /\ capPc = "end" /\ decPc # "end" => next = Supply

Sampling == opts.json /\ opts.count # 0
Endless == Sampling /\ opts.live /\ ~opts.timed

\* Nobody leaves before the sample is full.
SampleFills ==
    /\ Sampling => /\ Len(out) <= opts.count
                   /\ mainPc \in {"check", "recv"} => Len(out) < opts.count
    /\ Endless /\ ~failed /\ ~broken =>
         IF mainPc \in {"check", "recv"}
         THEN ~stopFlag /\ capPc # "end" /\ decPc # "end"
         ELSE Len(out) = opts.count

PIInv == PipelineTypeOK /\ Consecutive /\ EndTravels /\ SampleFills

-----------------------------------------------------------------------------
\* What a channel holds behind a send.
LEMMA Sent ==
    ASSUME NEW S, NEW s \in Seq(S), NEW x \in S
    PROVE  /\ Append(s, x) \in Seq(S)
           /\ Len(Append(s, x)) = Len(s) + 1 /\ Len(s) \in Nat
           /\ \A i \in 1..Len(s) : Append(s, x)[i] = s[i]
           /\ Append(s, x)[Len(s) + 1] = x
  OBVIOUS

\* What a channel holds behind a receive, and what was received.
LEMMA Received ==
    ASSUME NEW S, NEW s \in Seq(S), s # <<>>
    PROVE  /\ Tail(s) \in Seq(S) /\ Head(s) \in S
           /\ Len(s) \in Nat \ {0} /\ Len(Tail(s)) = Len(s) - 1
           /\ \A i \in 1..Len(Tail(s)) : Tail(s)[i] = s[i + 1]
           /\ Head(s) = s[1]
  OBVIOUS

\* What the assumption on the constants gives.
LEMMA Bounds == Supply \in Nat /\ Cap \in Nat \ {0} /\ \A o \in Options : o.count \in Nat
  BY PipelineAssumption

\* How long the channels and the output are.
LEMMA Counts ==
    ASSUME PIInv
    PROVE  /\ Supply \in Nat /\ Cap \in Nat \ {0} /\ opts.count \in Nat
           /\ Len(out) \in Nat /\ Len(decoded) \in Nat /\ Len(raw) \in Nat
           /\ Taken \in Nat
  BY Bounds DEF PIInv, PipelineTypeOK, Taken

\* Nothing was read yet.
LEMMA InitPipeline == PipelineInit => PIInv
  <1> SUFFICES ASSUME PipelineInit PROVE PIInv
    OBVIOUS
  <1> USE DEF PipelineInit
  <1>1. Len(<<>>) = 0 /\ <<>> \in Seq(1..Supply)
    OBVIOUS
  <1>2. PipelineTypeOK
    <2>1. Supply \in Nat /\ Cap \in Nat
      BY Bounds
    <2>2. raw = <<>> /\ decoded = <<>> /\ out = <<>>
      OBVIOUS
    <2>3. /\ raw \in Seq(1..Supply) /\ Len(raw) <= Cap
          /\ decoded \in Seq(1..Supply) /\ Len(decoded) <= Cap
          /\ out \in Seq(1..Supply)
      BY <1>1, <2>1, <2>2
    <2>4. next \in 0..Supply /\ held \in 0..Supply
      BY <2>1
    <2> QED BY <2>3, <2>4 DEF PipelineTypeOK
  <1>3. Consecutive
    BY <1>1, Counts DEF Consecutive, WrittenFirst, DecodedNext, RawNext, Flowing, Taken
  <1>4. EndTravels
    BY <1>1, Counts DEF EndTravels
  <1>5. SampleFills
    BY <1>1, Bounds DEF SampleFills, Sampling, Endless
  <1> QED BY <1>2, <1>3, <1>4, <1>5 DEF PIInv

\* What the capture thread does: it numbers packets as it reads them, and only the end
\* of a file, the flag, a fault or the end of the decode thread ends it.
LEMMA CaptureStep == ASSUME PIInv, Capture PROVE PIInv'
  <1> USE DEF PIInv, Flowing, Consuming, sourceVars, decodeVars, mainVars
  <1>1. CASE CaptureCheck
    <2>1. PipelineTypeOK'
      BY <1>1, Counts DEF CaptureCheck, PipelineTypeOK
    <2>2. Consecutive'
      BY <1>1, Counts DEF CaptureCheck, PipelineTypeOK, Consecutive, WrittenFirst, DecodedNext, RawNext, Taken
    <2>3. EndTravels'
      BY <1>1, Counts DEF CaptureCheck, PipelineTypeOK, Consecutive, RawNext, EndTravels, WholeFile, Taken
    <2>4. SampleFills'
      BY <1>1, Counts DEF CaptureCheck, PipelineTypeOK, Consecutive, SampleFills, Sampling, Endless
    <2> QED BY <2>1, <2>2, <2>3, <2>4
  <1>2. CASE CaptureRead
    <2>1. PipelineTypeOK'
      BY <1>2, Counts DEF CaptureRead, PipelineTypeOK
    <2>2. Consecutive'
      <3>1. WrittenFirst'
        BY <1>2, Counts DEF CaptureRead, Consecutive, WrittenFirst, DecodedNext
      <3>2. DecodedNext'
        BY <1>2, Counts DEF CaptureRead, Consecutive, DecodedNext, RawNext, Taken
      <3>3. RawNext'
        BY <1>2, Counts DEF CaptureRead, PipelineTypeOK, Consecutive, RawNext, Taken
      <3> QED BY <3>1, <3>2, <3>3 DEF Consecutive
    <2>3. EndTravels'
      BY <1>2, Counts DEF CaptureRead, PipelineTypeOK, Consecutive, RawNext, EndTravels, WholeFile, Taken
    <2>4. SampleFills'
      BY <1>2, Counts DEF CaptureRead, PipelineTypeOK, SampleFills, Sampling, Endless
    <2> QED BY <2>1, <2>2, <2>3, <2>4
  <1>3. CASE CaptureIdle
    <2>1. PipelineTypeOK'
      BY <1>3, Counts DEF CaptureIdle, PipelineTypeOK
    <2>2. Consecutive'
      BY <1>3, Counts DEF CaptureIdle, PipelineTypeOK, Consecutive, WrittenFirst, DecodedNext, RawNext, Taken
    <2>3. EndTravels'
      BY <1>3, Counts DEF CaptureIdle, PipelineTypeOK, Consecutive, RawNext, EndTravels, WholeFile, Taken
    <2>4. SampleFills'
      BY <1>3, Counts DEF CaptureIdle, PipelineTypeOK, Consecutive, SampleFills, Sampling, Endless
    <2> QED BY <2>1, <2>2, <2>3, <2>4
  <1>4. CASE CaptureEof
    <2>1. PipelineTypeOK'
      BY <1>4, Counts DEF CaptureEof, PipelineTypeOK
    <2>2. Consecutive'
      BY <1>4, Counts DEF CaptureEof, PipelineTypeOK, Consecutive, WrittenFirst, DecodedNext, RawNext, Taken
    <2>3. EndTravels'
      BY <1>4, Counts DEF CaptureEof, PipelineTypeOK, Consecutive, RawNext, EndTravels, WholeFile, Taken
    <2>4. SampleFills'
      BY <1>4, Counts DEF CaptureEof, PipelineTypeOK, Consecutive, SampleFills, Sampling, Endless
    <2> QED BY <2>1, <2>2, <2>3, <2>4
  <1>5. CASE CaptureBreaks
    <2>1. PipelineTypeOK'
      BY <1>5, Counts DEF CaptureBreaks, PipelineTypeOK
    <2>2. Consecutive'
      BY <1>5, Counts DEF CaptureBreaks, PipelineTypeOK, Consecutive, WrittenFirst, DecodedNext, RawNext, Taken
    <2>3. EndTravels'
      BY <1>5, Counts DEF CaptureBreaks, PipelineTypeOK, Consecutive, RawNext, EndTravels, WholeFile, Taken
    <2>4. SampleFills'
      BY <1>5, Counts DEF CaptureBreaks, PipelineTypeOK, Consecutive, SampleFills, Sampling, Endless
    <2> QED BY <2>1, <2>2, <2>3, <2>4
  <1>6. CASE CaptureSend
    <2>1. CASE decPc = "end"
      <3> USE <1>6, <2>1 DEF CaptureSend
      <3>1. PipelineTypeOK'
        BY Bounds, Counts DEF PipelineTypeOK
      <3>2. WrittenFirst'
        BY Bounds, Counts DEF Consecutive, WrittenFirst, DecodedNext
      <3>3. DecodedNext'
        BY Bounds, Counts DEF Consecutive, DecodedNext, RawNext, Taken
      <3>4. RawNext'
        BY Bounds, Counts DEF PipelineTypeOK, Consecutive, RawNext, Taken
      <3>5. EndTravels'
        BY Bounds, Counts DEF PipelineTypeOK, Consecutive, RawNext, EndTravels, WholeFile, Taken
      <3>6. SampleFills'
        BY Bounds, Counts DEF PipelineTypeOK, SampleFills, Sampling, Endless
      <3> QED BY <3>1, <3>2, <3>3, <3>4, <3>5, <3>6 DEF Consecutive
    <2>2. CASE decPc # "end"
      <3>8. raw \in Seq(1..Supply) /\ next \in 1..Supply
        BY <1>6 DEF CaptureSend, PipelineTypeOK, Consecutive, RawNext
      <3>9. /\ raw' = Append(raw, next) /\ Len(raw) < Cap
            /\ capPc = "send" /\ capPc' = "check"
            /\ UNCHANGED <<opts, stopFlag, next, broken, decodeVars, decoded, mainVars>>
        BY <1>6, <2>2 DEF CaptureSend
      <3>7. /\ raw' \in Seq(1..Supply) /\ Len(raw') = Len(raw) + 1
            /\ \A i \in 1..Len(raw) : raw'[i] = raw[i]
            /\ raw'[Len(raw) + 1] = next
        BY <3>8, <3>9, Sent
      <3>0. /\ raw' \in Seq(1..Supply) /\ Len(raw') = Len(raw) + 1 /\ Len(raw) < Cap
            /\ \A i \in 1..Len(raw) : raw'[i] = raw[i]
            /\ raw'[Len(raw) + 1] = next
            /\ capPc = "send" /\ capPc' = "check"
            /\ UNCHANGED <<opts, stopFlag, next, broken, decodeVars, decoded, mainVars>>
        BY <3>7, <3>9
      <3>1. PipelineTypeOK'
        BY <3>0, Counts DEF PipelineTypeOK
      <3>2. WrittenFirst'
        BY <3>0, Counts DEF Consecutive, WrittenFirst, DecodedNext
      <3>3. DecodedNext'
        BY <3>0, Counts DEF Consecutive, DecodedNext, RawNext, Taken
      <3>4. RawNext'
        <4> SUFFICES ASSUME Flowing
                     PROVE  /\ \A i \in 1..Len(raw') : raw'[i] = Taken + i
                            /\ next = Taken + Len(raw) + 1
          BY <3>0, Counts DEF Consecutive, RawNext, Taken
        <4>1. next = Taken + Len(raw) + 1
          BY <3>0 DEF Consecutive, RawNext
        <4>2. ASSUME NEW i \in 1..Len(raw') PROVE raw'[i] = Taken + i
          <5>1. CASE i \in 1..Len(raw)
            BY <5>1, <3>0 DEF Consecutive, RawNext
          <5>2. CASE i = Len(raw) + 1
            BY <5>2, <4>1, <3>0, Counts
          <5> QED BY <5>1, <5>2, <3>0, Counts
        <4> QED BY <4>1, <4>2
      <3>5. EndTravels'
        BY <3>0, Counts DEF PipelineTypeOK, Consecutive, RawNext, EndTravels, WholeFile, Taken
      <3>6. SampleFills'
        BY <3>0, Counts DEF PipelineTypeOK, SampleFills, Sampling, Endless
      <3> QED BY <3>1, <3>2, <3>3, <3>4, <3>5, <3>6 DEF Consecutive
    <2> QED BY <2>1, <2>2
  <1> QED BY <1>1, <1>2, <1>3, <1>4, <1>5, <1>6 DEF Capture

\* What the decode thread does: it hands on what it took, and it ends behind the last
\* packet, or because somebody left before it.
LEMMA DecodeStep == ASSUME PIInv, Decode PROVE PIInv'
  <1> USE DEF PIInv, Flowing, Consuming, sourceVars, decodeVars, mainVars
  <1>1. CASE DecodeCheck
    <2>1. PipelineTypeOK'
      BY <1>1, Counts DEF DecodeCheck, PipelineTypeOK
    <2>2. Consecutive'
      BY <1>1, Counts DEF DecodeCheck, PipelineTypeOK, Consecutive, WrittenFirst, DecodedNext, RawNext, Taken
    <2>3. EndTravels'
      BY <1>1, Counts DEF DecodeCheck, PipelineTypeOK, Consecutive, RawNext, EndTravels, WholeFile, Taken
    <2>4. SampleFills'
      BY <1>1, Counts DEF DecodeCheck, PipelineTypeOK, Consecutive, SampleFills, Sampling, Endless
    <2> QED BY <2>1, <2>2, <2>3, <2>4
  <1>2. CASE DecodeReceive
    <2>0. /\ raw' \in Seq(1..Supply) /\ Len(raw) > 0 /\ Len(raw') = Len(raw) - 1
          /\ \A i \in 1..Len(raw') : raw'[i] = raw[i + 1]
          /\ held' = raw[1] /\ held' \in 1..Supply
          /\ decPc = "recv" /\ decPc' = "send"
          /\ UNCHANGED <<opts, stopFlag, sourceVars, decoded, mainVars>>
      <3>1. raw \in Seq(1..Supply) /\ raw # <<>>
        BY <1>2 DEF DecodeReceive, PipelineTypeOK
      <3>2. /\ raw' = Tail(raw) /\ held' = Head(raw)
            /\ decPc = "recv" /\ decPc' = "send"
            /\ UNCHANGED <<opts, stopFlag, sourceVars, decoded, mainVars>>
        BY <1>2 DEF DecodeReceive
      <3>3. /\ raw' \in Seq(1..Supply) /\ Len(raw) > 0 /\ Len(raw') = Len(raw) - 1
            /\ \A i \in 1..Len(raw') : raw'[i] = raw[i + 1]
            /\ held' = raw[1] /\ held' \in 1..Supply
        BY <3>1, <3>2, Received, Counts
      <3> QED BY <3>2, <3>3
    <2>1. PipelineTypeOK'
      BY <2>0, Counts DEF PipelineTypeOK
    <2>2. WrittenFirst'
      BY <2>0, Counts DEF Consecutive, WrittenFirst, DecodedNext
    <2>3. DecodedNext'
      BY <2>0, Counts DEF Consecutive, DecodedNext, RawNext, Taken
    <2>4. RawNext'
      <3>1. Taken' = Taken + 1
        BY <2>0, Counts DEF Taken
      <3>2. SUFFICES ASSUME Flowing
                     PROVE  /\ held' = Taken + 1
                            /\ \A i \in 1..Len(raw') : raw'[i] = Taken + 1 + i
                            /\ next = Taken + 1 + Len(raw') + (IF capPc = "send" THEN 1 ELSE 0)
        BY <2>0, <3>1 DEF Consecutive, RawNext
      <3>3. \A i \in 1..Len(raw) : raw[i] = Taken + i
        BY <3>2, <2>0 DEF Consecutive, RawNext
      <3>4. held' = Taken + 1
        BY <3>3, <2>0, Counts
      <3>5. \A i \in 1..Len(raw') : raw'[i] = Taken + 1 + i
        BY <3>3, <2>0, Counts
      <3>6. next = Taken + 1 + Len(raw') + (IF capPc = "send" THEN 1 ELSE 0)
        BY <3>2, <2>0, Counts DEF Consecutive, RawNext
      <3> QED BY <3>4, <3>5, <3>6
    <2>5. EndTravels'
      BY <2>0, Counts DEF PipelineTypeOK, Consecutive, RawNext, EndTravels, WholeFile, Taken
    <2>6. SampleFills'
      BY <2>0, Counts DEF PipelineTypeOK, SampleFills, Sampling, Endless
    <2> QED BY <2>1, <2>2, <2>3, <2>4, <2>5, <2>6 DEF Consecutive
  <1>3. CASE DecodeTimeout
    <2>1. PipelineTypeOK'
      BY <1>3, Counts DEF DecodeTimeout, PipelineTypeOK
    <2>2. Consecutive'
      BY <1>3, Counts DEF DecodeTimeout, PipelineTypeOK, Consecutive, WrittenFirst, DecodedNext, RawNext, Taken
    <2>3. EndTravels'
      BY <1>3, Counts DEF DecodeTimeout, PipelineTypeOK, Consecutive, RawNext, EndTravels, WholeFile, Taken
    <2>4. SampleFills'
      BY <1>3, Counts DEF DecodeTimeout, PipelineTypeOK, Consecutive, SampleFills, Sampling, Endless
    <2> QED BY <2>1, <2>2, <2>3, <2>4
  <1>4. CASE DecodeDisconnected
    <2>1. PipelineTypeOK'
      BY <1>4, Counts DEF DecodeDisconnected, PipelineTypeOK
    <2>2. Consecutive'
      BY <1>4, Counts DEF DecodeDisconnected, PipelineTypeOK, Consecutive, WrittenFirst, DecodedNext, RawNext, Taken
    <2>3. EndTravels'
      BY <1>4, Counts DEF DecodeDisconnected, PipelineTypeOK, Consecutive, RawNext, EndTravels, WholeFile, Taken
    <2>4. SampleFills'
      BY <1>4, Counts DEF DecodeDisconnected, PipelineTypeOK, Consecutive, SampleFills, Sampling, Endless
    <2> QED BY <2>1, <2>2, <2>3, <2>4
  <1>5. CASE DecodeSend
    <2>1. CASE ~Consuming
      <3> USE <1>5, <2>1 DEF DecodeSend
      <3>1. PipelineTypeOK'
        BY Bounds, Counts DEF PipelineTypeOK
      <3>2. WrittenFirst'
        BY Bounds, Counts DEF Consecutive, WrittenFirst, DecodedNext
      <3>3. DecodedNext'
        BY Bounds, Counts DEF Consecutive, DecodedNext, RawNext, Taken
      <3>4. RawNext'
        BY Bounds, Counts DEF PipelineTypeOK, Consecutive, RawNext, Taken
      <3>5. EndTravels'
        BY Bounds, Counts DEF PipelineTypeOK, Consecutive, RawNext, EndTravels, WholeFile, Taken
      <3>6. SampleFills'
        BY Bounds, Counts DEF PipelineTypeOK, SampleFills, Sampling, Endless
      <3> QED BY <3>1, <3>2, <3>3, <3>4, <3>5, <3>6 DEF Consecutive
    <2>2. CASE Consuming
      <3>8. held \in 1..Supply /\ held = Len(out) + Len(decoded) + 1
        BY <1>5, <2>2, Counts DEF DecodeSend, PipelineTypeOK, Consecutive, RawNext, Taken
      <3>9. /\ decoded' = Append(decoded, held) /\ Len(decoded) < Cap
            /\ decPc = "send" /\ decPc' = "check" /\ held' = 0
            /\ UNCHANGED <<opts, stopFlag, sourceVars, raw, mainVars>>
        BY <1>5, <2>2 DEF DecodeSend
      <3>7. /\ decoded' \in Seq(1..Supply) /\ Len(decoded') = Len(decoded) + 1
            /\ \A i \in 1..Len(decoded) : decoded'[i] = decoded[i]
            /\ decoded'[Len(decoded) + 1] = held
        BY <3>8, <3>9, Sent DEF PipelineTypeOK
      <3>0. /\ decoded' \in Seq(1..Supply) /\ Len(decoded') = Len(decoded) + 1
            /\ Len(decoded) < Cap
            /\ \A i \in 1..Len(decoded) : decoded'[i] = decoded[i]
            /\ decoded'[Len(decoded) + 1] = held
            /\ decPc = "send" /\ decPc' = "check" /\ held' = 0
            /\ UNCHANGED <<opts, stopFlag, sourceVars, raw, mainVars>>
        BY <3>7, <3>9
      <3>1. PipelineTypeOK'
        BY <3>0, <3>8, Counts DEF PipelineTypeOK
      <3>2. WrittenFirst'
        BY <3>0, <3>8, Counts DEF Consecutive, WrittenFirst, DecodedNext
      <3>3. DecodedNext'
        <4> SUFFICES ASSUME NEW i \in 1..Len(decoded') PROVE decoded'[i] = Len(out) + i
          BY <3>0 DEF DecodedNext
        <4>1. CASE i \in 1..Len(decoded)
          BY <4>1, <3>0 DEF Consecutive, DecodedNext
        <4>2. CASE i = Len(decoded) + 1
          BY <4>2, <3>0, <3>8, Counts
        <4> QED BY <4>1, <4>2, <3>0, Counts
      <3>4. RawNext'
        BY <3>0, <3>8, Counts DEF PipelineTypeOK, Consecutive, RawNext, Taken
      <3>5. EndTravels'
        BY <3>0, <3>8, Counts DEF PipelineTypeOK, Consecutive, RawNext, EndTravels, WholeFile, Taken
      <3>6. SampleFills'
        BY <3>0, <3>8, Counts DEF PipelineTypeOK, SampleFills, Sampling, Endless
      <3> QED BY <3>1, <3>2, <3>3, <3>4, <3>5, <3>6 DEF Consecutive
    <2> QED BY <2>1, <2>2
  <1> QED BY <1>1, <1>2, <1>3, <1>4, <1>5 DEF Decode

\* What the main thread does: it writes the next packet, and leaves with the sample
\* full, at the end of the file, or for a reason that is known.
LEMMA MainStep == ASSUME PIInv, Main PROVE PIInv'
  <1> USE DEF PIInv, Flowing, Consuming, sourceVars, decodeVars, mainVars
  <1>1. CASE JsonCheck
    <2>1. PipelineTypeOK'
      BY <1>1, Counts DEF JsonCheck, PipelineTypeOK
    <2>2. Consecutive'
      BY <1>1, Counts DEF JsonCheck, PipelineTypeOK, Consecutive, WrittenFirst, DecodedNext, RawNext, Taken
    <2>3. EndTravels'
      BY <1>1, Counts DEF JsonCheck, PipelineTypeOK, Consecutive, RawNext, EndTravels, WholeFile, Taken
    <2>4. SampleFills'
      BY <1>1, Counts DEF JsonCheck, PipelineTypeOK, Consecutive, SampleFills, Sampling, Endless
    <2> QED BY <2>1, <2>2, <2>3, <2>4
  <1>2. CASE JsonReceive
    <2>7. /\ out' \in Seq(1..Supply) /\ Len(out') = Len(out) + 1
          /\ \A i \in 1..Len(out) : out'[i] = out[i]
          /\ out'[Len(out) + 1] = decoded[1]
      <3>1. decoded \in Seq(1..Supply) /\ decoded # <<>> /\ out \in Seq(1..Supply)
        BY <1>2 DEF JsonReceive, PipelineTypeOK
      <3>2. out' = Append(out, Head(decoded))
        BY <1>2 DEF JsonReceive
      <3>3. Head(decoded) \in 1..Supply /\ Head(decoded) = decoded[1]
        BY <3>1, Received
      <3> QED BY <3>1, <3>2, <3>3, Sent
    <2>8. /\ decoded' \in Seq(1..Supply) /\ Len(decoded) > 0 /\ Len(decoded') = Len(decoded) - 1
          /\ \A i \in 1..Len(decoded') : decoded'[i] = decoded[i + 1]
      BY <1>2, Received DEF JsonReceive, PipelineTypeOK
    <2>9. /\ mainPc = "recv" /\ opts.json
          /\ mainPc' = (IF opts.count # 0 /\ Len(out') >= opts.count THEN "leaving" ELSE "check")
          /\ stopFlag' = (stopFlag \/ mainPc' = "leaving")
          /\ UNCHANGED <<opts, sourceVars, raw, decodeVars, failed>>
      BY <1>2 DEF JsonReceive, SampleFull
    <2>1. PipelineTypeOK'
      BY <2>7, <2>8, <2>9, Counts DEF PipelineTypeOK
    <2>2. WrittenFirst'
      <3> SUFFICES ASSUME NEW i \in 1..Len(out') PROVE out'[i] = i
        BY DEF WrittenFirst
      <3>1. CASE i \in 1..Len(out)
        BY <3>1, <2>7 DEF Consecutive, WrittenFirst
      <3>2. CASE i = Len(out) + 1
        BY <3>2, <2>7, <2>8, Counts DEF Consecutive, DecodedNext
      <3> QED BY <3>1, <3>2, <2>7, Counts
    <2>3. DecodedNext'
      BY <2>7, <2>8, <2>9, Counts DEF Consecutive, DecodedNext, RawNext, Taken
    <2>4. RawNext'
      <3>1. Taken' = Taken
        BY <2>7, <2>8, <2>9, Counts DEF Taken
      <3>2. Flowing' => Flowing
        BY <2>9
      <3> QED BY <3>1, <3>2, <2>9 DEF Consecutive, RawNext
    <2>5. EndTravels'
      BY <2>7, <2>8, <2>9, Counts DEF PipelineTypeOK, Consecutive, RawNext, EndTravels, WholeFile, Taken
    <2>6. SampleFills'
      BY <2>7, <2>8, <2>9, Counts, SMTT(30) DEF PipelineTypeOK, SampleFills, Sampling, Endless
    <2> QED BY <2>1, <2>2, <2>3, <2>4, <2>5, <2>6 DEF Consecutive
  <1>3. CASE JsonTimeout
    <2>1. PipelineTypeOK'
      BY <1>3, Counts DEF JsonTimeout, PipelineTypeOK
    <2>2. Consecutive'
      BY <1>3, Counts DEF JsonTimeout, PipelineTypeOK, Consecutive, WrittenFirst, DecodedNext, RawNext, Taken
    <2>3. EndTravels'
      BY <1>3, Counts DEF JsonTimeout, PipelineTypeOK, Consecutive, RawNext, EndTravels, WholeFile, Taken
    <2>4. SampleFills'
      BY <1>3, Counts DEF JsonTimeout, PipelineTypeOK, Consecutive, SampleFills, Sampling, Endless
    <2> QED BY <2>1, <2>2, <2>3, <2>4
  <1>4. CASE JsonDisconnected
    <2>1. PipelineTypeOK'
      BY <1>4, Counts DEF JsonDisconnected, PipelineTypeOK
    <2>2. Consecutive'
      BY <1>4, Counts DEF JsonDisconnected, PipelineTypeOK, Consecutive, WrittenFirst, DecodedNext, RawNext, Taken
    <2>3. EndTravels'
      BY <1>4, Counts DEF JsonDisconnected, PipelineTypeOK, Consecutive, RawNext, EndTravels, WholeFile, Taken
    <2>4. SampleFills'
      BY <1>4, Counts DEF JsonDisconnected, PipelineTypeOK, Consecutive, SampleFills, Sampling, Endless
    <2> QED BY <2>1, <2>2, <2>3, <2>4
  <1>5. CASE UiTakes
    <2>7. /\ out' \in Seq(1..Supply) /\ Len(out') = Len(out) + 1
          /\ \A i \in 1..Len(out) : out'[i] = out[i]
          /\ out'[Len(out) + 1] = decoded[1]
      <3>1. decoded \in Seq(1..Supply) /\ decoded # <<>> /\ out \in Seq(1..Supply)
        BY <1>5 DEF UiTakes, PipelineTypeOK
      <3>2. out' = Append(out, Head(decoded))
        BY <1>5 DEF UiTakes
      <3>3. Head(decoded) \in 1..Supply /\ Head(decoded) = decoded[1]
        BY <3>1, Received
      <3> QED BY <3>1, <3>2, <3>3, Sent
    <2>8. /\ decoded' \in Seq(1..Supply) /\ Len(decoded) > 0 /\ Len(decoded') = Len(decoded) - 1
          /\ \A i \in 1..Len(decoded') : decoded'[i] = decoded[i + 1]
      BY <1>5, Received DEF UiTakes, PipelineTypeOK
    <2>9. /\ mainPc = "check" /\ ~opts.json
          /\ UNCHANGED <<opts, stopFlag, sourceVars, raw, decodeVars, mainPc, failed>>
      BY <1>5 DEF UiTakes
    <2>1. PipelineTypeOK'
      BY <2>7, <2>8, <2>9, Counts DEF PipelineTypeOK
    <2>2. WrittenFirst'
      <3> SUFFICES ASSUME NEW i \in 1..Len(out') PROVE out'[i] = i
        BY DEF WrittenFirst
      <3>1. CASE i \in 1..Len(out)
        BY <3>1, <2>7 DEF Consecutive, WrittenFirst
      <3>2. CASE i = Len(out) + 1
        BY <3>2, <2>7, <2>8, Counts DEF Consecutive, DecodedNext
      <3> QED BY <3>1, <3>2, <2>7, Counts
    <2>3. DecodedNext'
      BY <2>7, <2>8, <2>9, Counts DEF Consecutive, DecodedNext, RawNext, Taken
    <2>4. RawNext'
      <3>1. Taken' = Taken
        BY <2>7, <2>8, <2>9, Counts DEF Taken
      <3>2. Flowing' => Flowing
        BY <2>9
      <3> QED BY <3>1, <3>2, <2>9 DEF Consecutive, RawNext
    <2>5. EndTravels'
      BY <2>7, <2>8, <2>9, Counts DEF PipelineTypeOK, Consecutive, RawNext, EndTravels, WholeFile, Taken
    <2>6. SampleFills'
      BY <2>7, <2>8, <2>9, Counts DEF PipelineTypeOK, SampleFills, Sampling, Endless
    <2> QED BY <2>1, <2>2, <2>3, <2>4, <2>5, <2>6 DEF Consecutive
  <1>6. CASE UiQuits
    <2>1. PipelineTypeOK'
      BY <1>6, Counts DEF UiQuits, PipelineTypeOK
    <2>2. Consecutive'
      BY <1>6, Counts DEF UiQuits, PipelineTypeOK, Consecutive, WrittenFirst, DecodedNext, RawNext, Taken
    <2>3. EndTravels'
      BY <1>6, Counts DEF UiQuits, PipelineTypeOK, Consecutive, RawNext, EndTravels, WholeFile, Taken
    <2>4. SampleFills'
      BY <1>6, Counts DEF UiQuits, PipelineTypeOK, Consecutive, SampleFills, Sampling, Endless
    <2> QED BY <2>1, <2>2, <2>3, <2>4
  <1>7. CASE OutputFails
    <2>1. PipelineTypeOK'
      BY <1>7, Counts DEF OutputFails, PipelineTypeOK
    <2>2. Consecutive'
      BY <1>7, Counts DEF OutputFails, PipelineTypeOK, Consecutive, WrittenFirst, DecodedNext, RawNext, Taken
    <2>3. EndTravels'
      BY <1>7, Counts DEF OutputFails, PipelineTypeOK, Consecutive, RawNext, EndTravels, WholeFile, Taken
    <2>4. SampleFills'
      BY <1>7, Counts DEF OutputFails, PipelineTypeOK, Consecutive, SampleFills, Sampling, Endless
    <2> QED BY <2>1, <2>2, <2>3, <2>4
  <1>8. CASE Return
    <2>1. PipelineTypeOK'
      BY <1>8, Counts DEF Return, PipelineTypeOK
    <2>2. Consecutive'
      BY <1>8, Counts DEF Return, PipelineTypeOK, Consecutive, WrittenFirst, DecodedNext, RawNext, Taken
    <2>3. EndTravels'
      BY <1>8, Counts DEF Return, PipelineTypeOK, Consecutive, RawNext, EndTravels, WholeFile, Taken
    <2>4. SampleFills'
      BY <1>8, Counts DEF Return, PipelineTypeOK, Consecutive, SampleFills, Sampling, Endless
    <2> QED BY <2>1, <2>2, <2>3, <2>4
  <1>9. CASE SetStop
    <2>1. PipelineTypeOK'
      BY <1>9, Counts DEF SetStop, PipelineTypeOK
    <2>2. Consecutive'
      BY <1>9, Counts DEF SetStop, PipelineTypeOK, Consecutive, WrittenFirst, DecodedNext, RawNext, Taken
    <2>3. EndTravels'
      BY <1>9, Counts DEF SetStop, PipelineTypeOK, Consecutive, RawNext, EndTravels, WholeFile, Taken
    <2>4. SampleFills'
      BY <1>9, Counts DEF SetStop, PipelineTypeOK, Consecutive, SampleFills, Sampling, Endless
    <2> QED BY <2>1, <2>2, <2>3, <2>4
  <1>10. CASE Join
    <2>1. PipelineTypeOK'
      BY <1>10, Counts DEF Join, PipelineTypeOK
    <2>2. Consecutive'
      BY <1>10, Counts DEF Join, PipelineTypeOK, Consecutive, WrittenFirst, DecodedNext, RawNext, Taken
    <2>3. EndTravels'
      BY <1>10, Counts DEF Join, PipelineTypeOK, Consecutive, RawNext, EndTravels, WholeFile, Taken
    <2>4. SampleFills'
      BY <1>10, Counts DEF Join, PipelineTypeOK, Consecutive, SampleFills, Sampling, Endless
    <2> QED BY <2>1, <2>2, <2>3, <2>4
  <1> QED BY <1>1, <1>2, <1>3, <1>4, <1>5, <1>6, <1>7, <1>8, <1>9, <1>10 DEF Main, Json

\* The invariant is kept by every step.
LEMMA PipelineSteps == PIInv /\ [PipelineNext]_pipelineVars => PIInv'
  <1> SUFFICES ASSUME PIInv, [PipelineNext]_pipelineVars PROVE PIInv'
    OBVIOUS
  <1>1. CASE PipelineNext
    BY <1>1, CaptureStep, DecodeStep, MainStep DEF PipelineNext
  <1>2. CASE UNCHANGED pipelineVars
    BY <1>2
    DEF pipelineVars, sourceVars, decodeVars, mainVars, PIInv, PipelineTypeOK, Consecutive,
        WrittenFirst, DecodedNext, RawNext, EndTravels, SampleFills, Flowing, Consuming, Taken, WholeFile, Sampling, Endless
  <1> QED BY <1>1, <1>2

\* So it always holds.
LEMMA PipelineAlways == PipelineSpec => []PIInv
  BY InitPipeline, PipelineSteps, PTL DEF PipelineSpec

-----------------------------------------------------------------------------
\* The next packets behind the first ones are the first packets again.
LEMMA Joined ==
    ASSUME NEW p \in Seq(Nat), p = Upto(Len(p)),
           NEW s \in Seq(Nat), \A i \in 1..Len(s) : s[i] = Len(p) + i
    PROVE  p \o s = Upto(Len(p) + Len(s))
  <1>1. Len(p) \in Nat /\ Len(s) \in Nat
    OBVIOUS
  <1>2. \A i \in 1..Len(p) : p[i] = i
    BY DEF Upto
  <1>3. /\ p \o s \in Seq(Nat) /\ Len(p \o s) = Len(p) + Len(s)
        /\ \A i \in 1..(Len(p) + Len(s)) :
              (p \o s)[i] = IF i <= Len(p) THEN p[i] ELSE s[i - Len(p)]
    BY ConcatProperties
  <1>4. ASSUME NEW i \in 1..(Len(p) + Len(s)) PROVE (p \o s)[i] = i
    <2>1. CASE i <= Len(p)
      BY <2>1, <1>1, <1>2, <1>3
    <2>2. CASE i > Len(p)
      <3>1. i - Len(p) \in 1..Len(s)
        BY <2>2, <1>1
      <3>2. s[i - Len(p)] = Len(p) + (i - Len(p))
        BY <3>1
      <3> QED BY <2>2, <3>2, <1>1, <1>3
    <2> QED BY <2>1, <2>2, <1>1
  <1>5. /\ Upto(Len(p) + Len(s)) \in Seq(Nat)
        /\ Len(Upto(Len(p) + Len(s))) = Len(p) + Len(s)
        /\ \A i \in 1..(Len(p) + Len(s)) : Upto(Len(p) + Len(s))[i] = i
    BY <1>1 DEF Upto
  <1> DEFINE q == Upto(Len(p) + Len(s))
             r == p \o s
  <1>6. /\ r \in Seq(Nat) /\ q \in Seq(Nat) /\ Len(r) = Len(q)
        /\ \A i \in 1..Len(r) : r[i] = q[i]
    BY <1>3, <1>4, <1>5, SMTT(30)
  <1> HIDE DEF q, r
  <1>7. r = q
    BY <1>6, SeqEqual
  <1> QED BY <1>7 DEF q, r

\* The first packets, as a sequence.
LEMMA First ==
    ASSUME NEW m \in Nat
    PROVE  Upto(m) \in Seq(Nat) /\ Len(Upto(m)) = m
  BY DEF Upto

\* The first k numbers, with the numbers that follow them behind them.
LEMMA JoinedBehind ==
    ASSUME NEW m \in Nat, NEW s \in Seq(Nat), \A i \in 1..Len(s) : s[i] = m + i
    PROVE  Upto(m) \o s = Upto(m + Len(s))
  <1> DEFINE p == Upto(m)
  <1>1. p \in Seq(Nat) /\ Len(p) = m
    BY First
  <1>2. p = Upto(Len(p)) /\ \A i \in 1..Len(s) : s[i] = Len(p) + i
    BY <1>1
  <1> HIDE DEF p
  <1>3. p \o s = Upto(Len(p) + Len(s))
    BY <1>1, <1>2, Joined
  <1> QED BY <1>1, <1>3 DEF p

\* A channel of one place.
LEMMA Single ==
    ASSUME NEW n \in Nat
    PROVE  <<n>> \in Seq(Nat) /\ Len(<<n>>) = 1 /\ \A i \in 1..1 : <<n>>[i] = n
  OBVIOUS

\* Both channels stay within their capacity; what was read is output, in one of
\* the channels or in a thread's hand, once and in order; and the output is the
\* first packets of the source whoever has left.
THEOREM PipelineIsSound == PipelineSpec => []PipelineInv
  <1>1. PIInv => PipelineInv
    <2> SUFFICES ASSUME PIInv PROVE PipelineInv
      OBVIOUS
    <2>1. PipelineTypeOK
      BY DEF PIInv
    <2>2. out = Upto(Len(out)) /\ out \in Seq(Nat)
      BY <2>1 DEF PIInv, PipelineTypeOK, Consecutive, WrittenFirst, Upto
    <2>3. ASSUME Flowing
          PROVE  out \o decoded \o Held \o raw \o Unsent = Upto(next)
      <3>1. decoded \in Seq(Nat) /\ Held \in Seq(Nat) /\ raw \in Seq(Nat)
            /\ Unsent \in Seq(Nat)
        <4>1. held \in Nat /\ next \in Nat
          BY <2>1, Bounds DEF PipelineTypeOK
        <4> QED BY <2>1, <4>1, Single, Bounds, EmptySeq DEF PipelineTypeOK, Held, Unsent
      <3>2. out \o decoded = Upto(Len(out) + Len(decoded))
        BY <2>2, <3>1, Counts, Joined, First DEF PIInv, Consecutive, DecodedNext
      <3>3. Upto(Len(out) + Len(decoded)) \o Held = Upto(Taken)
        <4>1. CASE decPc = "send"
          <5>1. Held = <<held>> /\ held = Taken /\ Taken = Len(out) + Len(decoded) + 1
            BY <4>1, <2>3 DEF Held, Taken, PIInv, Consecutive, RawNext
          <5>2. Len(Held) = 1 /\ Held[1] = Taken
            BY <5>1, Counts, Single
          <5>3. \A i \in 1..1 : Held[i] = Len(out) + Len(decoded) + i
            BY <5>1, <5>2, Counts
          <5> DEFINE k == Len(out) + Len(decoded)
          <5>4. Upto(k) \o Held = Upto(k + Len(Held))
            <6>1. k \in Nat /\ \A i \in 1..Len(Held) : Held[i] = k + i
              BY <5>2, <5>3, Counts
            <6> QED BY <6>1, <3>1, JoinedBehind
          <5> QED BY <5>1, <5>2, <5>4
        <4>2. CASE decPc # "send"
          BY <4>2, <3>1, Counts, Joined, First DEF Held, Taken
        <4> QED BY <4>1, <4>2
      <3>4. Upto(Taken) \o raw = Upto(Taken + Len(raw))
        <4>1. Taken \in Nat /\ \A i \in 1..Len(raw) : raw[i] = Taken + i
          BY <2>3, Counts DEF PIInv, Consecutive, RawNext
        <4> QED BY <4>1, <3>1, JoinedBehind
      <3>5. Upto(Taken + Len(raw)) \o Unsent = Upto(next)
        <4>1. CASE capPc = "send"
          <5>1. Unsent = <<next>> /\ next = Taken + Len(raw) + 1
            BY <4>1, <2>3 DEF Unsent, PIInv, Consecutive, RawNext
          <5>2. Len(Unsent) = 1 /\ Unsent[1] = Taken + Len(raw) + 1
            BY <5>1, Counts, Single
          <5>3. \A i \in 1..1 : Unsent[i] = Taken + Len(raw) + i
            BY <5>1, <5>2, Counts
          <5> DEFINE k == Taken + Len(raw)
          <5>4. Upto(k) \o Unsent = Upto(k + Len(Unsent))
            <6>1. k \in Nat /\ \A i \in 1..Len(Unsent) : Unsent[i] = k + i
              BY <5>2, <5>3, Counts
            <6> QED BY <6>1, <3>1, JoinedBehind
          <5> QED BY <5>1, <5>2, <5>4
        <4>2. CASE capPc # "send"
          BY <4>2, <2>3, <3>1, Counts, Joined, First DEF Unsent, PIInv, Consecutive, RawNext
        <4> QED BY <4>1, <4>2
      <3> QED BY <3>2, <3>3, <3>4, <3>5
    <2> QED BY <2>1, <2>2, <2>3 DEF PipelineInv, NothingLost, OutputInOrder, Flowing
  <1> QED BY <1>1, PipelineAlways, PTL

\* rust-shark read --json writes the whole file, and --json --count its number.
THEOREM OutputIsComplete == PipelineSpec => []OutputComplete
  <1>1. PIInv => OutputComplete
    <2> SUFFICES ASSUME PIInv PROVE OutputComplete
      OBVIOUS
    <2>1. out = Upto(Len(out))
      BY DEF PIInv, PipelineTypeOK, Consecutive, WrittenFirst, Upto
    <2>2. ReadComplete
      BY <2>1 DEF PIInv, EndTravels, WholeFile, ReadComplete
    <2>3. SampleExact
      BY DEF PIInv, SampleFills, Sampling, Endless, SampleExact
    <2> QED BY <2>2, <2>3 DEF OutputComplete
  <1> QED BY <1>1, PipelineAlways, PTL
=============================================================================
