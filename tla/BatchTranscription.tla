--------------------------- MODULE BatchTranscription ---------------------------
(***************************************************************************)
(* One channel transcribed as a whole (transcription/src/batch.rs,          *)
(* observations.rs) and the windows it is decoded in (stitch.rs).  A time   *)
(* is a sample of the channel.  A transcriber is a record with its setup,   *)
(* what it has timed and observed, the scores it holds and `allowed`: its   *)
(* control is cancelled once so many windows are decoded.  Every operation  *)
(* returns it with a result.                                                *)
(***************************************************************************)
EXTENDS Stitch, Outcome, SequencesExt

CONSTANTS Rate,         \* samples in a second
          VadHop,       \* samples of one voice probability
          Heard(_, _, _)  \* the words a decoder hears of a line in samples from..to

Voice == INSTANCE Vad WITH Hop <- VadHop, Context <- 0

----------------------------------------------------------------------------
(* The windows a waveform is decoded in and how their words are joined.     *)

\* Window::new.
Window(start, end) ==
    IF start < 0 \/ end < start THEN Refused ELSE Ok([start |-> start, end |-> end])

ValidGeometry(total, window, overlap, bucket) ==
    total >= 0 /\ window > 0 /\ overlap >= 0 /\ overlap < window /\ bucket > 0

\* windows_bucketed: windows one stride apart, the last of which, the first that
\* reaches the end, is widened backward to a multiple of the bucket.
WindowsBucketed(total, window, overlap, bucket) ==
    LET stride  == window - overlap
        last    == IF total <= window THEN 0 ELSE CeilDiv(total - window, stride)
        length  == Max({total - last * stride, 0})
        desired == Min({CeilDiv(length, bucket) * bucket, window})
    IN  IF ~ValidGeometry(total, window, overlap, bucket) THEN Refused
        ELSE Collected([k \in 1..(last + 1) |->
               IF k <= last THEN Window((k - 1) * stride, (k - 1) * stride + window)
               ELSE Window(Max({total - desired, 0}), total)])

\* windows.
PlannedWindows(total, window, overlap) == WindowsBucketed(total, window, overlap, window)

\* window_shapes: the lengths to warm up, the bucket's multiples and the window.
WindowShapes(window, bucket) ==
    LET count == (2 * window + bucket) \div (2 * bucket)
    IN  IF window <= 0 \/ bucket <= 0 THEN Refused
        ELSE Ok([i \in 1..count |-> i * bucket]
                \o IF count > 0 /\ count * bucket = window THEN <<>> ELSE <<window>>)

\* stitch_aligned: the words that are still open are those of the window before.
StitchAligned(windows) ==
    LET Joined(state, current) ==
          LET cut == Seam(state.previous, state.end, current.words, current.start)
          IN  [done |-> state.done \o SubSeq(state.previous, 1, cut.count), end |-> current.end,
               previous |-> SubSeq(current.words, cut.skip + 1, Len(current.words))]
        last == FoldLeft(Joined, [done |-> <<>>, previous |-> windows[1].words,
                                  end |-> windows[1].end], Tail(windows))
    IN  IF windows = <<>> THEN <<>> ELSE last.done \o last.previous

----------------------------------------------------------------------------
(* The transcriber.                                                         *)

Returned(t, r) == [transcriber |-> t, result |-> r]
Cancelled(t)   == t.decodes >= t.allowed
Add(t, stage)  == [t EXCEPT !.timings[stage] = @ + 1]
NoTimings      == [stage \in {"vad", "frontend", "decode"} |-> 0]

\* BatchTranscriber::new.
Transcriber(setup, allowed) ==
    IF setup.rate # setup.frontendRate THEN Refused
    ELSE Ok([setup |-> setup, timings |-> NoTimings, scored |-> <<>>, decodes |-> 0,
             allowed |-> allowed, evidence |-> <<>>, timed |-> <<>>])

\* warmup_lengths: what the warmup costs is not counted.
WarmupLengths(t, lengths) ==
    LET run  == Min({Len(lengths), t.allowed})
        done == [t EXCEPT !.decodes = run]
    IN  IF Cancelled(done) \/ run < Len(lengths) THEN Returned(done, Refused)
        ELSE Returned([done EXCEPT !.timings = NoTimings], Ok(<<>>))
WarmupShapes(t, shapes) ==
    IF \E i \in DOMAIN shapes : shapes[i] <= 0 THEN Returned(t, Refused)
    ELSE WarmupLengths(t, shapes)

\* subsampling_factor: feature frames per output frame, whole to a thousandth.
SubsamplingFactor(rate, hop, frameRate) ==
    LET whole == (2 * rate + hop * frameRate) \div (2 * hop * frameRate)
        away  == rate - whole * hop * frameRate
    IN  IF \/ hop = 0 \/ rate < hop * frameRate
           \/ 1000 * (IF away < 0 THEN -away ELSE away) > hop * frameRate
          THEN Refused ELSE Ok(whole)

\* recognition_groups: segments share a group as long as it fits one window.
RecognitionGroups(segments, window) ==
    LET Grouped(groups, s) ==
          IF groups # <<>> /\ s.end - Last(groups).start <= window
            THEN Append(Front(groups), [Last(groups) EXCEPT !.end = s.end])
            ELSE Append(groups, [start |-> s.start, end |-> s.end])
    IN  FoldLeft(Grouped, <<>>, segments)

\* WindowEvidence::new.
WindowEvidence(input) ==
    IF \/ input.start < 0 \/ input.end < input.start \/ input.keepUntil < 0
       \/ input.firstSample < input.origin
       \/ Len(input.labels) # input.outputFrames
       \/ \E i \in DOMAIN input.tokens : input.tokens[i] >= input.outputFrames
       \/ \E i \in DOMAIN input.spans : \/ input.spans[i][1] > input.spans[i][2]
                                       \/ input.spans[i][2] > Len(input.tokens)
      THEN Refused ELSE Ok(input)

\* The evidence of a decoded window, in the channel's time; each word is a token.
EvidenceOf(t, g, words) ==
    LET factor == g.factor[1]
        output == CeilDiv(g.lastFrame - g.firstFrame, factor)
    IN  WindowEvidence(
          [channel |-> g.channel, index |-> g.index, kind |-> g.kind,
           start |-> g.origin + g.start, end |-> g.origin + g.end, origin |-> g.origin,
           firstSample |-> g.origin + g.firstSample, keepUntil |-> g.origin + g.keepUntil,
           residue |-> g.firstFrame % factor, outputFrames |-> output,
           labels |-> [f \in 1..output |-> 0],
           tokens |-> [i \in DOMAIN words |->
                        Min({words[i].start \div (t.setup.hop * factor), output - 1})],
           spans |-> [i \in DOMAIN words |-> <<i, i>>]])

\* What scores say of the samples of a window that are real.
WindowProvenance(t, g) ==
    LET first == g.origin + g.firstSample
        end   == Min({g.realEnd, t.scored[1].length})
        least == first \div VadHop
        most  == (end - 1) \div VadHop
    IN  IF first >= end \/ most >= Len(t.scored[1].probabilities) THEN Refused
        ELSE Ok([origin |-> first, end |-> end,
                 silent |-> 100 - Max({t.scored[1].probabilities[f + 1] : f \in least..most})])

Shift(w, offset) == [w EXCEPT !.start = @ + offset, !.end = @ + offset]

\* decode_frames.
DecodeFrames(t, line, g) ==
    LET from    == g.firstFrame * t.setup.hop
        to      == (g.lastFrame - 1) * t.setup.hop + t.setup.fft
        words   == Heard(line, from, to)
        decoded == [t EXCEPT !.decodes = @ + 1]
        evidence == EvidenceOf(t, g, words)
        seen == IF g.factor = <<>> THEN decoded
                ELSE [decoded EXCEPT !.evidence = Append(@, evidence.value)]
        timed == [Add(seen, "decode") EXCEPT
                    !.timed = Append(@, [offset |-> g.origin + g.offset,
                                         frames |-> g.lastFrame - g.firstFrame])]
    IN  IF Cancelled(t) THEN Returned(t, Refused)
        ELSE IF Cancelled(decoded) \/ (g.factor # <<>> /\ ~evidence.ok)
          THEN Returned(decoded, Refused)
        ELSE IF t.scored # <<>> /\ ~WindowProvenance(t, g).ok THEN Returned(seen, Refused)
        ELSE Returned(timed, Ok(SelectSeq(
               [i \in DOMAIN words |-> Shift(words[i], g.offset)],
               LAMBDA w : w.start < g.keepUntil)))

\* Mutated form of Offset: words count from the window's first sample.
OffsetOfSample(window, firstFrame, hop) == window.start

\* Words count from the window's first frame, on the grid of the whole span.
Offset(window, firstFrame, hop) == firstFrame * hop

\* The geometry of the k-th window of a span of length samples, real of them not noise.
Geometry(t, origin, window, k, windows, real, length, frames) ==
    LET firstFrame == CeilDiv(window.start, t.setup.hop)
        span       == Min({window.end, length}) - window.start
        count      == IF span > t.setup.fft THEN 1 + (span - t.setup.fft) \div t.setup.hop ELSE 0
        factor     == SubsamplingFactor(t.setup.rate, t.setup.hop, t.setup.frameRate)
    IN  [channel |-> origin.channel, origin |-> origin.sample, index |-> origin.window + k - 1,
         kind |-> IF k = Len(windows) THEN "Tail" ELSE "Body",
         start |-> window.start, end |-> window.end, firstSample |-> window.start,
         firstFrame |-> firstFrame, lastFrame |-> Min({firstFrame + count, frames}),
         offset |-> Offset(window, firstFrame, t.setup.hop),
         keepUntil |-> Min({window.end, real + Rate \div 2}),
         factor |-> IF t.setup.evidence THEN <<factor.value>> ELSE <<>>,
         realEnd |-> origin.sample + Min({window.end, length, real})]

\* One more window of transcribe_span; what its words are joined from.
WindowDone(state, window, call) ==
    IF ~call.result.ok THEN call
    ELSE Returned(call.transcriber, Ok(Append(state.result.value,
           [start |-> window.start, end |-> window.end, words |-> call.result.value])))

\* The end of transcribe_span: the words of its decoded windows, those that are
\* real, in the channel's time.
SpanDone(decoded, windows, real, origin) ==
    LET words == SelectSeq(StitchAligned(decoded.result.value), LAMBDA w : w.start < real)
    IN  IF ~decoded.result.ok THEN decoded
        ELSE Returned(decoded.transcriber, Ok(
               [windows |-> Len(windows),
                words |-> [i \in DOMAIN words |->
                   Shift([words[i] EXCEPT !.end = Min({@, real})], origin.sample)]]))

\* transcribe_span: the windows in turn, those without a frame left out.
TranscribeSpan(t, line, real, origin) ==
    LET length  == IF t.setup.padding = "PadToWindow" THEN Max({real, t.setup.window}) ELSE real
        frames  == IF length < t.setup.fft THEN 0
                   ELSE 1 + (length - t.setup.fft) \div t.setup.hop
        windows == PlannedWindows(length, t.setup.window, t.setup.overlap)
        Decoded(state, k) ==
          LET g == Geometry(state.transcriber, origin, windows.value[k], k, windows.value,
                            real, length, frames)
          IN  IF ~state.result.ok \/ g.lastFrame <= g.firstFrame THEN state
              ELSE WindowDone(state, windows.value[k], DecodeFrames(state.transcriber, line, g))
    IN  IF Cancelled(t) \/ ~windows.ok THEN Returned(t, Refused)
        ELSE IF \/ t.setup.evidence
                   /\ ~SubsamplingFactor(t.setup.rate, t.setup.hop, t.setup.frameRate).ok
          THEN Returned(Add(t, "frontend"), Refused)
        ELSE SpanDone(FoldLeftDomain(Decoded, Returned(Add(t, "frontend"), Ok(<<>>)), windows.value),
                      windows.value, real, origin)

\* transcribe_channel_in_context.
TranscribeChannel(t, line, length, channel) ==
    TranscribeSpan(t, line, length, [channel |-> channel, sample |-> 0, window |-> 0])

\* What a span that starts at a sample says, in its own time.
Cropped(line, start) == [i \in DOMAIN line |-> Shift(line[i], -start)]

\* One more group of a channel.
GroupDone(state, call) ==
    IF ~call.result.ok THEN call
    ELSE Returned(call.transcriber, Ok(
           [windows |-> state.result.value.windows + call.result.value.windows,
            words |-> state.result.value.words \o call.result.value.words]))

\* transcribe_channel_with_vad_in_context: the groups in turn.  Scores the
\* transcriber holds stand for the detector's.
TranscribeChannelWithVad(t, line, length, probabilities, policy, channel) ==
    LET heard    == IF t.scored # <<>> THEN t.scored[1].probabilities ELSE probabilities
        segments == Voice!SegmentsFromProbabilities(heard, length, policy)
        started  == IF t.scored # <<>> THEN t ELSE Add(t, "vad")
        Transcribed(state, group) ==
          IF ~state.result.ok THEN state
          ELSE GroupDone(state, TranscribeSpan(state.transcriber, Cropped(line, group.start),
                                  group.end - group.start,
                                  [channel |-> channel, sample |-> group.start,
                                   window |-> state.result.value.windows]))
    IN  IF Cancelled(t) \/ t.setup.rate # Rate \/ ~segments.ok THEN Returned(t, Refused)
        ELSE FoldLeft(Transcribed, Returned(started, Ok([windows |-> 0, words |-> <<>>])),
                      RecognitionGroups(segments.value, t.setup.window))

\* The scores are held for one call only.
ScoresDropped(call) == Returned([call.transcriber EXCEPT !.scored = <<>>], call.result)

\* transcribe_scored_in_context.
TranscribeScored(t, line, length, probabilities, policy, channel) ==
    LET scored == [Add(t, "vad") EXCEPT
                     !.scored = <<[probabilities |-> probabilities, length |-> length]>>]
    IN  IF \/ Cancelled(t) \/ t.setup.rate # Rate
           \/ Len(probabilities) # CeilDiv(length, VadHop)
           \/ \E p \in ToSet(probabilities) : p \notin 0..100
          THEN Returned(t, Refused)
        ELSE ScoresDropped(
          IF policy # <<>>
            THEN TranscribeChannelWithVad(scored, line, length, probabilities, policy[1], channel)
            ELSE TranscribeChannel(scored, line, length, channel))
================================================================================
