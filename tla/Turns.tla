---------------------------------- MODULE Turns ----------------------------------
(***************************************************************************)
(* The words of whole transcripts (transcription/src/contracts.rs,         *)
(* turns.rs, text.rs): a dialogue made of channels that are complete, the   *)
(* scored segments of one, and the edit distance of two.                    *)
(***************************************************************************)
EXTENDS Outcome, FiniteSets, FiniteSetsExt, SequencesExt

Finite(v) == v # NotFinite /\ v >= 0

\* TranscriptWord::new; text <<>> stands for one that is blank.
Word(text, start, end, provenance) ==
    IF text = <<>> \/ ~Finite(start) \/ ~Finite(end) \/ end < start THEN Refused
    ELSE Ok([text |-> text, start |-> start, end |-> end, provenance |-> provenance])

\* shifted and capped_end keep where the word comes from.
Shifted(w, offset) ==
    IF offset = NotFinite THEN Refused
    ELSE Word(w.text, w.start + offset, w.end + offset, w.provenance)
CappedEnd(w, maximum) ==
    IF ~Finite(maximum) \/ maximum < w.start THEN Refused
    ELSE Word(w.text, w.start, Min({w.end, maximum}), w.provenance)

\* ChannelTranscript::new.
ChannelTranscript(channel, words) ==
    IF \E i \in 2..Len(words) : words[i].start < words[i - 1].start THEN Refused
    ELSE Ok([channel |-> channel, words |-> words])

\* validate_channel_identities.
DistinctChannels(transcripts) ==
    \A i, j \in DOMAIN transcripts : transcripts[i].channel = transcripts[j].channel => i = j

\* A stable sort by start, then channel.
Sooner(a, b) == a.start < b.start \/ (a.start = b.start /\ a.channel < b.channel)
Sorted(items) ==
    LET order == SortSeq([i \in DOMAIN items |-> i],
                         LAMBDA i, j : \/ Sooner(items[i], items[j])
                                       \/ ~Sooner(items[j], items[i]) /\ i < j)
    IN  [k \in DOMAIN items |-> items[order[k]]]

\* merge: the words of all channels in one line.
Merge(transcripts) ==
    IF ~DistinctChannels(transcripts) THEN Refused
    ELSE Ok(Sorted(FlattenSeq([c \in DOMAIN transcripts |->
            [i \in DOMAIN transcripts[c].words |->
               [channel |-> transcripts[c].channel, start |-> transcripts[c].words[i].start,
                word |-> transcripts[c].words[i]]]])))

\* The parts of a sequence of words that begin at the first and at each of "at".
SplitAt(words, at) ==
    LET first == SetToSortSeq(({1} \intersect DOMAIN words) \union at, <)
    IN  [k \in DOMAIN first |->
           SubSeq(words, first[k],
                  IF k = Len(first) THEN Len(words) ELSE first[k + 1] - 1)]

\* finish_turn and Turn::new.
FinishTurn(channel, words) ==
    [channel |-> channel, start |-> words[1].start, words |-> words,
     end |-> Max({words[1].start} \union {words[i].end : i \in DOMAIN words})]

\* channel_segments: a pause as long as the gap ends a turn.
ChannelSegments(transcripts, gap) ==
    FlattenSeq([c \in DOMAIN transcripts |->
        LET words == transcripts[c].words
            parts == SplitAt(words, {i \in 2..Len(words) : words[i].start - words[i - 1].end >= gap})
        IN  [k \in DOMAIN parts |-> FinishTurn(transcripts[c].channel, parts[k])]])

\* turns.
DialogTurns(transcripts, gap) ==
    IF ~DistinctChannels(transcripts) THEN Refused
    ELSE Ok(Sorted(ChannelSegments(transcripts, gap)))

\* scored_segments: words of one window that no pause longer than the gap
\* separates, with the tokens from the first word's to the last word's.
ScoredSegments(words, gap) ==
    LET parts == SplitAt(words, {i \in 2..Len(words) :
                    \/ words[i - 1].provenance[1].window # words[i].provenance[1].window
                    \/ words[i].start - words[i - 1].end > gap})
        Scored(part) ==
            LET window == part[1].provenance[1].window
                first  == part[1].provenance[1].first
                last   == part[Len(part)].provenance[1].last
                tokens == SubSeq(window.tokens, first, last)
            IN  IF \/ first > last \/ last > Len(window.tokens)
                   \/ \E t \in ToSet(tokens) : t.score = <<>>
                  THEN Refused
                  ELSE Ok([start |-> part[1].start, tokens |-> tokens,
                           end |-> Max({part[i].end : i \in DOMAIN part}),
                           seek |-> (window.origin * 100) \div window.rate,
                           sum |-> FoldLeft(LAMBDA sum, t : sum + t.score[1], 0, tokens),
                           count |-> Len(tokens)])
        Overlapping(v, w) == /\ v.provenance[1].window = w.provenance[1].window
                             /\ v.provenance[1].last >= w.provenance[1].first
    IN  IF \/ \E i \in DOMAIN words : words[i].provenance = <<>>
           \/ \E i \in 2..Len(words) : Overlapping(words[i - 1], words[i])
          THEN Refused
        ELSE Collected([k \in DOMAIN parts |-> Scored(parts[k])])

\* word_edits: the code keeps only the row before.
WordEdits(reference, hypothesis) ==
    LET Row[i \in 0..Len(reference), j \in 0..Len(hypothesis)] ==
            IF i = 0 THEN j ELSE IF j = 0 THEN i
            ELSE Min({Row[i - 1, j - 1] + (IF reference[i] = hypothesis[j] THEN 0 ELSE 1),
                      Row[i - 1, j] + 1, Row[i, j - 1] + 1})
    IN  Row[Len(reference), Len(hypothesis)]
================================================================================
