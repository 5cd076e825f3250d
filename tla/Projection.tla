------------------------------- MODULE Projection -------------------------------
(***************************************************************************)
(* What the gigaam command shows (cli/src/projection, cli/src/numeric.rs):  *)
(* the client line it rebuilds from stream events with its statistics, the *)
(* evidence file, and the status of the process.                           *)
(***************************************************************************)
EXTENDS Outcome, FiniteSets, SequencesExt

CONSTANTS Normal(_)      \* normalize_word

----------------------------------------------------------------------------
(* StreamProjection.                                                        *)

EmptyProjection ==
    [client |-> <<>>, patches |-> 0, appends |-> 0, revisions |-> 0, cosmetic |-> 0,
     finals |-> 0, endpoints |-> 0, stableChanged |-> 0, depths |-> <<>>, replaced |-> <<>>,
     startLatencies |-> <<>>, endLatencies |-> <<>>]

\* Where a patch first says another word than the tail it replaces.
FirstDifferent(tail, words) ==
    LET shared == {i \in DOMAIN tail : i \in DOMAIN words}
        differing == {i \in shared : Normal(tail[i].text) # Normal(words[i].text)}
    IN  IF differing = {} THEN Cardinality(shared)
        ELSE (CHOOSE i \in differing : \A j \in differing : i <= j) - 1

\* record_words_patch.
RecordPatch(p, event) ==
    LET tail  == SubSeq(p.client, event.from + 1, Len(p.client))
        first == FirstDifferent(tail, event.words)
        same  == Len(tail) = Len(event.words) /\ first = Len(tail)
        revised == tail[IF first < Len(tail) THEN first + 1 ELSE Len(tail)]
        fresh == SelectSeq([i \in DOMAIN event.words |->
                     [new |-> event.from + i > Len(p.client), word |-> event.words[i]]],
                     LAMBDA w : w.new)
        counted == [p EXCEPT !.patches = @ + 1,
            !.startLatencies = @ \o [i \in DOMAIN fresh |-> event.at - fresh[i].word.start],
            !.endLatencies   = @ \o [i \in DOMAIN fresh |-> event.at - fresh[i].word.end]]
    IN  IF tail = <<>> THEN [counted EXCEPT !.appends = @ + 1]
        ELSE IF same THEN [counted EXCEPT !.cosmetic = @ + 1]
        ELSE [counted EXCEPT !.revisions = @ + 1,
                 !.depths   = Append(@, event.at - revised.start),
                 !.replaced = Append(@, Len(tail) - first),
                 !.stableChanged = IF revised.stable THEN @ + 1 ELSE @]

Stabilized(client, upto) ==
    [i \in DOMAIN client |-> IF i <= upto THEN [client[i] EXCEPT !.stable = TRUE] ELSE client[i]]

\* StreamProjection::apply, one event.
ApplyEvent(p, event) ==
    CASE event.kind = "words" ->
           IF event.from > Len(p.client) THEN Refused
           ELSE Ok([RecordPatch(p, event) EXCEPT !.client =
                       SubSeq(@, 1, event.from) \o event.words])
      [] event.kind = "stable" ->
           IF event.upto > Len(p.client) THEN Refused
           ELSE Ok([p EXCEPT !.client = Stabilized(@, event.upto)])
      [] event.kind = "final" ->
           IF event.upto > Len(p.client) THEN Refused
           ELSE Ok([p EXCEPT !.client = Stabilized(@, event.upto), !.finals = @ + 1,
                       !.endpoints = IF event.reason = "endpoint" THEN @ + 1 ELSE @])

ApplyEvents(p, events) ==
    FoldLeft(LAMBDA r, event : Then(r, LAMBDA q : ApplyEvent(q, event)), Ok(p), events)

\* The loop of the stream command: the line the client holds after a chunk is
\* the session's own, or the command fails.
Simulate(chunks) ==
    FoldLeft(LAMBDA r, chunk : Then(r, LAMBDA p :
                 Then(ApplyEvents(p, chunk.events), LAMBDA q :
                     IF q.client = chunk.transcript THEN Ok(q) ELSE Err("diverged"))),
             Ok(EmptyProjection), chunks)

\* percentile, in hundredths: the rounded index among the sorted values.
Percentile(values, hundredths) ==
    IF values = <<>> THEN 0
    ELSE LET sorted == SortSeq(values, LAMBDA a, b : a < b)
         IN  sorted[((Len(values) - 1) * hundredths + 50) \div 100 + 1]

----------------------------------------------------------------------------
(* The evidence file: the records written, each whole or torn.              *)

\* EvidenceWriter::create; version is 1 or 2.
Writer(version, header) ==
    IF ~header THEN Refused
    ELSE Ok([version |-> version, lines |-> <<[kind |-> "model", whole |-> TRUE]>>,
             failure |-> FALSE, emitted |-> <<>>])

Written(w, line) == [w EXCEPT !.lines = Append(@, line)]

\* write_audio_header and write_vad_policy, which only version 2 has.
Headers(w, audio, vad) ==
    IF ~audio \/ (w.version = 2 /\ ~vad) THEN Refused
    ELSE Ok(IF w.version = 2
              THEN Written(Written(w, [kind |-> "audio", whole |-> TRUE]),
                           [kind |-> "vad", whole |-> TRUE])
            ELSE Written(w, [kind |-> "audio", whole |-> TRUE]))

CountOf(w, channel) == IF channel \in DOMAIN w.emitted THEN w.emitted[channel] ELSE 0

\* Mutated form of Observe: a window that could not be written is not remembered.
ObserveForgetting(w, window, written) ==
    LET whole == written /\ (w.version = 2 => window.channel # <<>>)
        line  == Written(w, [kind |-> "window", whole |-> whole, window |-> window])
    IN  IF ~whole \/ w.version = 1 THEN line
        ELSE [line EXCEPT !.emitted =
                (window.channel[1] :> CountOf(w, window.channel[1]) + 1) @@ @]

\* WindowEvidenceObserver::observe: it cannot fail, so a failure is remembered;
\* written is FALSE when the file took only a part of the window.
Observe(w, window, written) ==
    LET whole == written /\ (w.version = 2 => window.channel # <<>>)
        line  == Written(w, [kind |-> "window", whole |-> whole, window |-> window])
    IN  IF ~whole THEN [line EXCEPT !.failure = TRUE]
        ELSE IF w.version = 1 THEN line
        ELSE [line EXCEPT !.emitted =
                (window.channel[1] :> CountOf(w, window.channel[1]) + 1) @@ @]

\* finish and write_completion; flushed says how many of the flushes succeed.
Finish(w, sourceChannels, selected, flushed) ==
    LET coverage == [kind |-> "coverage", whole |-> TRUE,
                     counts |-> [c \in ToSet(selected) |-> CountOf(w, c)]]
        complete == [kind |-> "complete", whole |-> TRUE]
    IN  IF w.failure THEN [status |-> Err("write"), file |-> w.lines]
        ELSE IF w.version = 1
          THEN [status |-> IF flushed >= 1 THEN Ok("v1") ELSE Err("write"), file |-> w.lines]
        ELSE IF \/ selected = <<>> \/ \E c \in ToSet(selected) : c >= sourceChannels
                \/ \E i \in 2..Len(selected) : selected[i - 1] >= selected[i]
                \/ ~(DOMAIN w.emitted \subseteq ToSet(selected))
          THEN [status |-> Err("coverage"), file |-> w.lines]
        ELSE [status |-> IF flushed >= 3 THEN Ok("v2") ELSE Err("write"),
              file |-> w.lines \o (IF flushed >= 1 THEN <<coverage>> ELSE <<>>)
                               \o (IF flushed >= 2 THEN <<complete>> ELSE <<>>)]

\* A whole transcription with evidence; writes says of each window if it went well.
EvidenceFile(version, windows, writes, sourceChannels, selected, flushed) ==
    LET opened == Headers(Writer(version, TRUE).value, TRUE, TRUE).value
        seen == FoldLeftDomain(LAMBDA w, i : Observe(w, windows[i], writes[i]), opened, windows)
    IN  Finish(seen, sourceChannels, selected, flushed)

----------------------------------------------------------------------------
(* Batch, dialogue and voice output.                                        *)

\* transcribe: turns where there are channels to tell apart, or one line each.
TranscriptLines(result, output) ==
    IF output.turns /\ Len(result.channels) > 1 THEN result.turns
    ELSE FoldLeft(LAMBDA lines, channel :
             lines \o (IF Len(result.channels) > 1
                         THEN <<[kind |-> "channel", of |-> channel.channel]>> ELSE <<>>)
                   \o <<[kind |-> "text", of |-> channel.channel]>>
                   \o (IF output.words
                         THEN [i \in DOMAIN channel.words |->
                                 [kind |-> "word", of |-> channel.words[i]]] ELSE <<>>),
             <<>>, result.channels)

\* vad: the segments, and how much speech there is in them.
SpeechLines(segments) ==
    [lines |-> segments,
     speech |-> FoldLeft(LAMBDA n, s : n + s.end - s.start, 0, segments)]

\* terminal: the status of the process.
ExitStatus(result) ==
    IF result.ok THEN 0 ELSE IF result.error = "grammar" THEN 2 ELSE 1
================================================================================
