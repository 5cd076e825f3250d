----------------------------------- MODULE Vad -----------------------------------
(***************************************************************************)
(* Speech segments (transcription/src/vad_policy.rs) over the              *)
(* probabilities a voice detector gives one frame of Hop samples each       *)
(* (recognition/src/ort_vad.rs, vad.rs).  A segment excludes its end.       *)
(***************************************************************************)
EXTENDS Outcome, FiniteSets, SequencesExt

CONSTANTS Hop,          \* HOP_SAMPLES
          Context       \* CONTEXT_SAMPLES

VadFrames(samples) == CeilDiv(samples, Hop)

\* Vad::probabilities: the rows of samples, each with the Context samples before
\* it, that the detector is run on; zeros stand outside the audio.
InputRows(samples) ==
    [f \in 1..VadFrames(Len(samples)) |->
       [i \in 1..(Context + Hop) |->
          LET at == (f - 1) * Hop - Context + i
          IN  IF at \in DOMAIN samples THEN samples[at] ELSE 0]]

\* mask and detect_mask.
SilenceMask(probabilities, threshold) ==
    IF NotFinite \in ToSet(probabilities) \union {threshold} THEN Refused
    ELSE Ok([f \in DOMAIN probabilities |-> probabilities[f] < threshold])

\* VadThresholds, VadDurations, VadPadding and VadPolicyConfig; durations in samples.
ValidPolicy(policy) == policy.silence <= policy.speech

\* SpeechSegment::new.
Segment(start, end, length) ==
    IF start >= end \/ end > length THEN Refused ELSE Ok([start |-> start, end |-> end])

\* A frame in DetectionState::Speech: speech clears the tentative end, and
\* silence sets it unless it stands already.
Tentative(state, sample, probability, policy) ==
    IF probability >= policy.speech THEN <<>>
    ELSE IF probability < policy.silence /\ state.tentative = <<>> THEN <<sample>>
    ELSE state.tentative

\* One probability; a silence that has lasted closes what is open.
DetectFrame(state, f, probability, policy) ==
    LET sample == (f - 1) * Hop
        ends   == Tentative(state, sample, probability, policy)
        closes == /\ state.open # <<>> /\ probability < policy.silence
                  /\ sample - ends[1] >= policy.minimumSilence
    IN  CASE state.open = <<>> /\ probability >= policy.speech ->
               [state EXCEPT !.open = <<sample>>, !.tentative = <<>>]
          [] state.open = <<>> /\ probability < policy.speech -> state
          [] closes ->
               [open |-> <<>>, tentative |-> <<>>,
                raw |-> IF ends[1] - state.open[1] > policy.minimumSpeech
                          THEN Append(state.raw, [start |-> state.open[1], end |-> ends[1]])
                          ELSE state.raw]
          [] state.open # <<>> /\ ~closes -> [state EXCEPT !.tentative = ends]

\* Mutated form of Raw: speech the audio ends in is dropped.
RawOfClosed(probabilities, length, policy) ==
    FoldLeftDomain(LAMBDA state, f : DetectFrame(state, f, probabilities[f], policy),
                   [open |-> <<>>, tentative |-> <<>>, raw |-> <<>>], probabilities).raw

\* The loop of segments_from_probabilities, and the speech that is still open at the end.
Raw(probabilities, length, policy) ==
    LET last == FoldLeftDomain(LAMBDA state, f : DetectFrame(state, f, probabilities[f], policy),
                               [open |-> <<>>, tentative |-> <<>>, raw |-> <<>>], probabilities)
    IN  IF last.open # <<>> /\ length - last.open[1] > policy.minimumSpeech
          THEN Append(last.raw, [start |-> last.open[1], end |-> length])
          ELSE last.raw

\* apply_padding between two segments: both take the padding, or half of a
\* silence too short for both.
Sides(v, w, padding) ==
    LET silence == w.start - v.end
    IN  IF silence < 2 * padding THEN silence \div 2 ELSE padding

ApplyPadding(raw, padding, length) ==
    LET AddAndCap(v, amount) == IF amount >= length - v THEN length ELSE v + amount
        SubtractAndFloor(v, amount) == IF amount > v THEN 0 ELSE v - amount
    IN  Collected([i \in DOMAIN raw |->
            Segment(SubtractAndFloor(raw[i].start,
                        IF i = 1 THEN padding ELSE Sides(raw[i - 1], raw[i], padding)),
                    AddAndCap(raw[i].end,
                        IF i = Len(raw) THEN padding ELSE Sides(raw[i], raw[i + 1], padding)),
                    length)])

\* segments_from_probabilities, and speech_segments once the detector answered.
SegmentsFromProbabilities(probabilities, length, policy) ==
    IF \/ Len(probabilities) # VadFrames(length)
       \/ \E p \in ToSet(probabilities) : p = NotFinite \/ p \notin 0..100
      THEN Refused
    ELSE ApplyPadding(Raw(probabilities, length, policy), policy.padding, length)

\* What the segments are for: they are in order, apart and inside the audio;
\* speech that lasts is in them, to its last sample, and silence that lasts is
\* not, but for the padding.
FollowsTheSpeech(found, heard, length, policy) ==
    LET Start(f) == (f - 1) * Hop
        End(f)   == IF f * Hop < length THEN f * Hop ELSE length
        Covered(x) == \E k \in DOMAIN found : found[k].start <= x /\ x < found[k].end
    IN  /\ \A k \in DOMAIN found :
             /\ 0 <= found[k].start /\ found[k].start < found[k].end /\ found[k].end <= length
             /\ k > 1 => found[k - 1].end <= found[k].start
        /\ \A a \in DOMAIN heard, b \in DOMAIN heard :
             /\ a <= b /\ \A f \in a..b : heard[f] >= policy.speech
             /\ End(b) - Start(a) > policy.minimumSpeech
             => \A x \in Start(a)..(End(b) - 1) : Covered(x)
        /\ \A a \in DOMAIN heard, b \in DOMAIN heard :
             /\ a <= b /\ \A f \in a..b : heard[f] < policy.silence
             /\ (b - a) * Hop >= policy.minimumSilence
             => \A x \in (Start(a) + policy.padding)..(b * Hop - 1 - policy.padding) : ~Covered(x)
================================================================================
