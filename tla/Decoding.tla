-------------------------------- MODULE Decoding --------------------------------
(***************************************************************************)
(* What a decoder makes of an encoder's output (recognition/src/ctc.rs,     *)
(* rnnt.rs, ort_rnnt.rs, ort_encoder.rs, native_output.rs, contracts.rs).   *)
(* Matrices are flat; tokens are numbered from 0, the blank is the last.    *)
(* A vocabulary's piece is a record: bound says that it begins with the     *)
(* word-boundary mark, letters what stands behind it.                       *)
(***************************************************************************)
EXTENDS Outcome, FiniteSets, SequencesExt

At(values, i) == values[i + 1]          \* a slice counts from 0

\* validate_f32_output: expected is <<>> where the shape alone says how many.
ValidateOutput(shape, values, expected) ==
    LET cardinality == FoldLeft(LAMBDA v, w : v * w, 1, shape)
    IN  /\ \A axis \in DOMAIN shape : shape[axis] >= 0
        /\ expected # <<>> => cardinality = expected[1]
        /\ Len(values) = cardinality
        /\ NotFinite \notin ToSet(values)

\* The copy in OrtEncoder::forward that puts a frame's values side by side.
EncoderRows(values, dimension, frames, dimensionFirst) ==
    IF ~dimensionFirst THEN values
    ELSE [i \in DOMAIN values |->
            At(values, ((i - 1) % dimension) * frames + (i - 1) \div dimension)]

\* OrtEncoder::forward on what the session returned.
Forward(shape, values, dimension, dimensionFirst) ==
    LET axis   == IF dimensionFirst THEN 2 ELSE 3
        frames == shape[5 - axis]
    IN  IF Len(shape) # 3 THEN Refused
        ELSE IF shape[1] # 1 \/ shape[axis] # dimension \/ ~ValidateOutput(shape, values, <<>>)
          THEN Refused
        ELSE Ok([values |-> EncoderRows(values, dimension, frames, dimensionFirst),
                 frames |-> frames])

Argmax(row) ==
    CHOOSE i \in DOMAIN row : /\ \A j \in DOMAIN row : row[j] <= row[i]
                              /\ \A j \in 1..(i - 1) : row[j] < row[i]

\* Mutated form of Collapse: a blank between two equal tokens does not part them.
CollapseAcrossBlanks(labels, blank) ==
    LET spoken == SelectSeq([f \in DOMAIN labels |-> [id |-> labels[f], frame |-> f - 1]],
                            LAMBDA t : t.id # blank)
    IN  [k \in {1} \intersect DOMAIN spoken |-> spoken[1]]
        \o SelectSeq([k \in 1..(Len(spoken) - 1) |->
                        IF spoken[k].id = spoken[k + 1].id THEN [id |-> blank, frame |-> 0]
                        ELSE spoken[k + 1]], LAMBDA t : t.id # blank)

\* The tokens of greedy_masked: a label that is no blank and not the one before.
Collapse(labels, blank) ==
    SelectSeq([f \in DOMAIN labels |->
                 [id |-> IF f > 1 /\ labels[f] = labels[f - 1] THEN blank ELSE labels[f],
                  frame |-> f - 1]],
              LAMBDA t : t.id # blank)

\* greedy_masked_with_detail; space is <<>> or the token that is a bare mark.
GreedyMasked(values, frames, vocabulary, blank, space) ==
    LET labels == [f \in 1..frames |->
                     Argmax(SubSeq(values, (f - 1) * vocabulary + 1, f * vocabulary)) - 1]
    IN  IF \/ vocabulary = 0 \/ blank >= vocabulary
           \/ space # <<>> /\ space[1] >= vocabulary
           \/ Len(values) # frames * vocabulary
           \/ NotFinite \in ToSet(values)
          THEN Refused
          ELSE Ok([labels |-> labels, tokens |-> Collapse(labels, blank),
                   silence |-> [f \in 1..frames |->
                                  labels[f] = blank \/ <<labels[f]>> = space]])

\* word_token_spans: a word begins at the first piece with letters, or at a
\* bound one, and ends at the last piece before the next bound one.
WordTokenSpans(tokens, vocabulary) ==
    LET Piece(i) == At(vocabulary, tokens[i].id)
        Step(state, i) ==
          LET closes == Piece(i).bound /\ state.letters # <<>>
              before == IF closes THEN <<>> ELSE state.letters
          IN  [spans   |-> IF closes THEN Append(state.spans, <<state.first, state.last>>)
                           ELSE state.spans,
               first   |-> IF before = <<>> THEN i ELSE state.first,
               last    |-> i,
               letters |-> before \o Piece(i).letters]
        end == FoldLeftDomain(Step, [spans |-> <<>>, first |-> 0, last |-> 0, letters |-> <<>>], tokens)
    IN  IF end.letters = <<>> THEN end.spans ELSE Append(end.spans, <<end.first, end.last>>)

\* tokens_to_words; a word's end is the frame after its last token's.
TokensToWords(tokens, vocabulary) ==
    LET spans == WordTokenSpans(tokens, vocabulary)
    IN  [k \in DOMAIN spans |->
           [text  |-> FlattenSeq([i \in 1..(spans[k][2] - spans[k][1] + 1) |->
                        At(vocabulary, tokens[spans[k][1] + i - 1].id).letters]),
            start |-> tokens[spans[k][1]].frame,
            end   |-> tokens[spans[k][2]].frame + 1]]

\* Decoded::assemble: labels is <<>> or one sequence.
Decoded(words, silence, frames, labels, tokens, spans) ==
    IF \/ Len(silence) # frames
       \/ \E i \in DOMAIN labels : Len(labels[i]) # frames
       \/ \E i \in DOMAIN tokens : tokens[i].frame >= frames
       \/ \E i \in 2..Len(spans) : spans[i - 1][2] >= spans[i][1]
       \/ \E i \in DOMAIN spans : spans[i][1] > spans[i][2] \/ spans[i][2] > Len(tokens)
      THEN Refused
      ELSE Ok([words |-> words, silence |-> silence, frames |-> frames, labels |-> labels,
               tokens |-> tokens, spans |-> spans])

\* CtcDecoder::new.
CtcDecoder(dimension, vocabulary, blank) ==
    LET bare == {i \in DOMAIN vocabulary : vocabulary[i].bound /\ vocabulary[i].letters = <<>>}
    IN  IF dimension # blank + 1 \/ Len(vocabulary) < blank THEN Refused
        ELSE Ok([vocabulary |-> vocabulary, blank |-> blank, dimension |-> dimension,
                 space |-> IF bare = {} THEN <<>>
                           ELSE <<(CHOOSE i \in bare : \A j \in bare : i <= j) - 1>>])

\* CtcDecoder::decode_with_detail.
CtcDecode(decoder, encoded) ==
    Then(encoded, LAMBDA e :
        Then(GreedyMasked(e.values, e.frames, decoder.dimension, decoder.blank, decoder.space),
             LAMBDA g : Decoded(TokensToWords(g.tokens, decoder.vocabulary), g.silence, e.frames,
                                <<g.labels>>, g.tokens,
                                WordTokenSpans(g.tokens, decoder.vocabulary))))

\* OrtRnntTransition: the prediction network is a function of the tokens it has
\* been advanced by, from the blank on; the joint network's logits of a frame
\* and a history are joint[frame, history].
RnntSelect(joint, frame, history, blank) ==
    LET logits == joint[frame, history]
    IN  IF ~ValidateOutput(<<1, Len(logits)>>, logits, <<blank + 1>>) THEN Refused
        ELSE Ok(Argmax(logits) - 1)

\* rnnt::greedy_with_detail in one frame: tokens until a blank, most of them.
RnntFrame(joint, frame, f, blank, most, tokens) ==
    LET Emitted[n \in 0..most] ==
          IF n = 0 THEN [tokens |-> tokens, going |-> TRUE, ok |-> TRUE]
          ELSE LET before  == Emitted[n - 1]
                   history == <<blank>> \o [i \in DOMAIN before.tokens |-> before.tokens[i].id]
                   token   == RnntSelect(joint, frame, history, blank)
               IN  IF ~before.going THEN before
                   ELSE IF ~token.ok THEN [before EXCEPT !.going = FALSE, !.ok = FALSE]
                   ELSE IF token.value = blank THEN [before EXCEPT !.going = FALSE]
                   ELSE [before EXCEPT !.tokens = Append(@, [id |-> token.value, frame |-> f])]
    IN  Emitted[most]

RnntGreedy(joint, frames, blank, most) ==
    LET Step(state, f) ==
          LET done == RnntFrame(joint, frames[f], f - 1, blank, most, state.tokens)
          IN  IF ~state.ok THEN state
              ELSE IF NotFinite \in ToSet(frames[f]) \/ ~done.ok
                THEN [state EXCEPT !.ok = FALSE]
              ELSE [tokens |-> done.tokens, ok |-> TRUE,
                    silence |-> Append(state.silence, Len(done.tokens) = Len(state.tokens))]
        end == FoldLeftDomain(Step, [tokens |-> <<>>, silence |-> <<>>, ok |-> TRUE], frames)
    IN  IF end.ok THEN Ok([tokens |-> end.tokens, silence |-> end.silence]) ELSE Refused

\* RnntDecoder::from_pack.
RnntDecoder(encoderDimension, definition, vocabulary) ==
    IF \/ encoderDimension # definition.dimension \/ Len(vocabulary) < definition.blank
      THEN Refused
      ELSE Ok([vocabulary |-> vocabulary, blank |-> definition.blank,
               dimension |-> encoderDimension, most |-> definition.most])

\* RnntDecoder::decode_with_detail.
RnntDecode(decoder, encoded, joint) ==
    Then(encoded, LAMBDA e :
        LET frames == [f \in 1..e.frames |->
                         SubSeq(e.values, (f - 1) * decoder.dimension + 1, f * decoder.dimension)]
        IN  Then(RnntGreedy(joint, frames, decoder.blank, decoder.most), LAMBDA g :
              Decoded(TokensToWords(g.tokens, decoder.vocabulary), g.silence, e.frames, <<>>,
                      g.tokens, WordTokenSpans(g.tokens, decoder.vocabulary))))

----------------------------------------------------------------------------
(* Where the runtime put an encoder's nodes (ort_assignment.rs).            *)

\* evidence_from_records and fingerprint: what is hashed is how often each
\* record occurs, whatever order they were reported in.
AssignmentEvidence(records) ==
    LET Count(provider) == Cardinality({i \in DOMAIN records : records[i].provider = provider})
    IN  IF \/ records = <<>> \/ Count("CUDA") = 0
           \/ \E i \in DOMAIN records : records[i].provider \notin {"CPU", "CUDA"}
          THEN Refused
          ELSE Ok([cpu |-> Count("CPU"), cuda |-> Count("CUDA"),
                   fingerprint |-> [r \in ToSet(records) |->
                     Cardinality({i \in DOMAIN records : records[i] = r})]])
================================================================================
