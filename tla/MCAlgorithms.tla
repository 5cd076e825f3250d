------------------------------ MODULE MCAlgorithms ------------------------------
(***************************************************************************)
(* The pure parts of the system, each on all of a small set of inputs: a    *)
(* state is one input with what the operation makes of it, and every        *)
(* property compares the two with a definition that does not follow the     *)
(* code's steps.                                                            *)
(***************************************************************************)
EXTENDS Integers, Sequences, FiniteSetsExt, SequencesExt, TLC

CONSTANTS NotFinite, Malformed, u1, u2, u3

VARIABLE tried     \* <<>>, or what was tried: of, in and out

Nothing == <<>>
Try(of, in, out) == tried' = [of |-> of, in |-> in, out |-> out]
IsOf(of) == tried # Nothing /\ tried.of = of

----------------------------------------------------------------------------
(* How the texts of options and settings read; a number counts thousandths.  *)

Numerals == ("0" :> 0) @@ ("1" :> 1) @@ ("2" :> 2) @@ ("3" :> 3) @@ ("4" :> 4) @@ ("5" :> 5)
            @@ ("8" :> 8) @@ ("16" :> 16) @@ ("30" :> 30) @@ ("80" :> 80) @@ ("400" :> 400)
Unsigned(text) == IF text \in DOMAIN Numerals THEN Numerals[text] ELSE -1
Decimal(text)  == IF text = "nan" THEN <<NotFinite>>
                  ELSE IF text = "-x" THEN <<-1000>>
                  ELSE IF text \in DOMAIN Numerals THEN <<1000 * Numerals[text]>> ELSE <<>>

\* Bytes and the texts they are, one of two bytes; others are no text.
Bytes == ("" :> <<>>) @@ ("j" :> <<106>>) @@ ("o" :> <<111>>) @@ ("1" :> <<49>>) @@ (" " :> <<32>>)
         @@ ("wide" :> <<208, 175>>)
Utf8(bytes)   == \E text \in DOMAIN Bytes : Bytes[text] = bytes
TextOf(bytes) == CHOOSE text \in DOMAIN Bytes : Bytes[text] = bytes

\* The constants of the modules instantiated below, rates in kilohertz.
Compiled == {"cuda"}
MaxThreads == 4
MaxRecords == 3
Ticks == 1000
VadRate == 16
MostSamples == 1000000
Places == 3
MaxTick == 100000
MaxPermits == 32
MaxMegabytes == 64
Dashed == {"-x", "--lock", "--window", "--ref", "--iters"}
DoubleDashed == Dashed \ {"-x"}
LeastRate == 8
MostRate == 192
LeastBatchRate == 4
MaxFactor == 25
MostChannels == 4
MostFields == 5

Cli == INSTANCE Commands
Service == INSTANCE Requests

Unset == <<>>
Has(args, text) == text \in ToSet(args)

----------------------------------------------------------------------------
(* Arithmetic: transforms, narrowed floats, durations.                      *)

Mel == INSTANCE Frontend WITH Modulus <- 839, Circle <- 840, Turn <- <<10, 64>>,
                              LogClamped <- [v \in 0..838 |-> v]
Bits == INSTANCE Floats WITH WordBits <- 12

\* Every radix of the transform's kernels and their products.
Lengths == {2, 4, 6, 8, 10, 12, 20, 28, 42}
Signal(n, j) == [i \in 0..(n - 1) |-> (i * i * 7 + j * 3 * i + j + 1) % 839]

Processor(center) ==
    Mel!Processor([fft |-> 8, hop |-> 3, mels |-> 2, center |-> center, clampMin |-> 1,
                   clampMax |-> 2, window |-> [i \in 0..7 |-> i + 2]],
                  [k \in 0..4 |-> [band \in 0..1 |->
                      IF band = 0 THEN (IF k \in {1, 3} THEN k ELSE 0)
                      ELSE IF k = 4 THEN 5 ELSE 0]]).value

Wide   == [fraction |-> 4, bias |-> 7]
Narrow == [fraction |-> 2, bias |-> 3]

Transform ==
    \E n \in Lengths : \E j \in 0..3 :
      Try("Transform", [length |-> n, signal |-> Signal(n, j)],
          Mel!PowerSpectrum(Signal(n, j), n, Mel!RealPlan(n).value))

\* Frames one at a time and all at once.
Analyse ==
    \E center \in BOOLEAN : \E length \in 0..20 :
      Try("Analyse", length,
          [mode \in {"Scalar", "Batched"} |->
             Mel!LogMel(Processor(center), mode, Signal(length, 1), length)])

Narrowing ==
    \E x \in [sign : {0, 1}, exponent : 0..14, fraction : 0..15] :
      Try("Narrowing", x, Bits!Narrowed(Wide, Narrow, x))

\* The transform is the discrete Fourier transform for every length it accepts,
\* frames analysed together are those analysed one by one, and a float is
\* narrowed to the nearest one, at every edge of its range (fft.rs, frontend.rs,
\* primitives f64_to_f32).
ArithmeticIsExact ==
    /\ IsOf("Transform") =>
         \A k \in 0..(tried.in.length \div 2) :
           tried.out[k] = Mel!Power(Mel!Transform(tried.in.signal, tried.in.length, k))
    /\ IsOf("Analyse") => tried.out["Scalar"] = tried.out["Batched"]
    /\ IsOf("Narrowing") =>
         Bits!IsNearest(Narrow, Bits!Counted(Wide, tried.in, 10), tried.out, 10)

----------------------------------------------------------------------------
(* Speech segments.                                                         *)

Voice == INSTANCE Vad WITH Hop <- 4, Context <- 2

Policies == [speech : {50}, silence : {35, 50}, minimumSpeech : {0, 8},
             minimumSilence : {0, 5, 8}, padding : {0, 1, 6}]

Detect ==
    \E n \in 0..5 : \E length \in {l \in 0..20 : Voice!VadFrames(l) = n} :
    \E heard \in [1..n -> {20, 40, 55}] : \E policy \in Policies :
      Try("Detect", [heard |-> heard, length |-> length, policy |-> policy],
          Voice!SegmentsFromProbabilities(heard, length, policy))

\* Segments are in order, apart and inside the audio; speech that lasts is in
\* them, to the last sample, and silence that lasts is not, but for the padding
\* (vad_policy.rs segments_from_probabilities).
SpeechIsFound ==
    IsOf("Detect") =>
      /\ tried.out.ok
      /\ Voice!FollowsTheSpeech(tried.out.value, tried.in.heard, tried.in.length,
                                tried.in.policy)

----------------------------------------------------------------------------
(* From an encoder's output to words.                                       *)

\* The bare word mark, a marked piece, one within a word; 3 is the blank.
Vocabulary == <<[bound |-> TRUE, letters |-> <<>>], [bound |-> TRUE, letters |-> <<"a">>],
                [bound |-> FALSE, letters |-> <<"b">>]>>
TokenTexts(n) == UNION {[1..k -> 0..2] : k \in 0..n}
Repeated(x, n) == [i \in 1..n |-> x]

\* An alignment: runs of each token, and blanks before, between and after them;
\* two equal tokens need a blank between them.
Alignments(text) ==
    {a \in [run : [DOMAIN text -> 1..2], blank : [1..(Len(text) + 1) -> 0..1]] :
       \A i \in 2..Len(text) : text[i] = text[i - 1] => a.blank[i] > 0}
Aligned(text, a) ==
    FoldLeftDomain(LAMBDA labels, i : labels \o Repeated(text[i], a.run[i])
                                             \o Repeated(3, a.blank[i + 1]),
                   Repeated(3, a.blank[1]), text)
\* The frame each token is first heard in.
FirstFrames(text, a) ==
    [i \in DOMAIN text |-> Len(Aligned(SubSeq(text, 1, i - 1), a))]

OneHot(label) == [i \in 1..4 |-> IF i = label + 1 THEN 1 ELSE 0]
\* The encoder's matrix, a frame after the other or a label after the other.
Matrix(labels, dimensionFirst) ==
    IF dimensionFirst
      THEN FlattenSeq([d \in 1..4 |-> [f \in DOMAIN labels |-> OneHot(labels[f])[d]]])
      ELSE FlattenSeq([f \in DOMAIN labels |-> OneHot(labels[f])])

\* What a text says: its parts from one marked piece to the next that have
\* letters at all, from their first letter to their last piece.
WordsOf(text, frames) ==
    LET Letters(i, j) == FlattenSeq([k \in 1..(j - i + 1) |-> Vocabulary[text[i + k - 1] + 1].letters])
        Ends(j)   == j = Len(text) \/ Vocabulary[text[j + 1] + 1].bound
        Begins(i) == i = 1 \/ Vocabulary[text[i] + 1].bound
        parts == {p \in (DOMAIN text) \X (DOMAIN text) :
                    /\ p[1] <= p[2] /\ Begins(p[1]) /\ Ends(p[2])
                    /\ \A k \in (p[1] + 1)..p[2] : ~Begins(k)
                    /\ Letters(p[1], p[2]) # <<>>}
        Sounds(p) == CHOOSE k \in p[1]..p[2] :
                       Letters(p[1], k) # <<>> /\ Letters(p[1], k - 1) = <<>>
        order == SetToSortSeq(parts, LAMBDA p, q : p[1] < q[1])
    IN  [k \in DOMAIN order |->
           [text |-> Letters(order[k][1], order[k][2]), start |-> frames[Sounds(order[k])],
            end |-> frames[order[k][2]] + 1]]

Recognizer(role, decoder, dimensionFirst, dimension) ==
    [decoder |-> decoder.value,
     encoder |-> [role |-> role,
                  artifact |-> [dimension |-> dimension, dimensionFirst |-> dimensionFirst]]]

Recognize ==
    \E text \in TokenTexts(3) : \E a \in Alignments(text) : \E dimensionFirst \in BOOLEAN :
      LET labels == Aligned(text, a)
          shape  == IF dimensionFirst THEN <<1, 4, Len(labels)>> ELSE <<1, Len(labels), 4>>
      IN  Try("Recognize", [text |-> text, frames |-> FirstFrames(text, a)],
              Cli!RecognizerDecode(
                Recognizer("ctc", Cli!CtcDecoder(4, Vocabulary, 3), dimensionFirst, 4),
                [shape |-> shape, values |-> Matrix(labels, dimensionFirst)],
                <<>>))

\* A transducer that says each token once its frame has come, two to a frame.
Transduce ==
    \E text \in TokenTexts(3) : \E frames \in [DOMAIN text -> 0..2] :
      LET joint == [frame \in Seq(Int), history \in Seq(Nat) |->
            LET next == Len(history)
            IN  OneHot(IF next <= Len(text) /\ frames[next] <= frame[1] THEN text[next] ELSE 3)]
      IN  /\ \A i \in 2..Len(text) : frames[i - 1] <= frames[i]
          /\ Len(text) = 3 => frames[1] < frames[3]
          /\ Try("Transduce", [text |-> text, frames |-> frames],
                 Cli!RecognizerDecode(
                   Recognizer("rnnt", Cli!RnntDecoder(1, [dimension |-> 1, blank |-> 3, most |-> 2],
                                                       Vocabulary), FALSE, 1),
                   [shape |-> <<1, 3, 1>>, values |-> <<0, 1, 2>>], joint))

\* Every alignment of a text is decoded back to it, each word where it is first
\* heard, from either layout of the encoder's output and by either search
\* (ctc.rs, rnnt.rs, ort_encoder.rs).
TextSurvivesDecoding ==
    IsOf("Recognize") \/ IsOf("Transduce") =>
      /\ tried.out.ok
      /\ tried.out.value.words = WordsOf(tried.in.text, tried.in.frames)
      /\ [i \in DOMAIN tried.out.value.tokens |-> tried.out.value.tokens[i].frame] = tried.in.frames

----------------------------------------------------------------------------
(* Whole channels and recordings.                                           *)

\* A decoder that hears the words that lie in a window as a whole.
HeardIn(line, from, to) ==
    LET within == SelectSeq(line, LAMBDA w : w.start >= from /\ w.end <= to)
    IN  [i \in DOMAIN within |-> [within[i] EXCEPT !.start = @ - from, !.end = @ - from]]

Batch == INSTANCE MultiBatch WITH
    Texts <- {u1, u2, u3}, Normal <- [t \in {u1, u2, u3} |-> t], SeamTolerance <- 4,
    Rate <- 16, VadHop <- 4, Heard <- HeardIn, TurnGap <- 6, Backchannel <- <<>>, Fuzz <- 1,
    Never <- -1000

Words == INSTANCE Turns

Said(text, start, length) == [text |-> text, start |-> start, end |-> start + length]
Setup(window, padding, evidence) ==
    [rate |-> 16, frontendRate |-> 16, window |-> window, overlap |-> 10, padding |-> padding,
     hop |-> 2, fft |-> 4, frameRate |-> 4, evidence |-> evidence]
Transcriber(setup, allowed) == Batch!Transcriber(setup, allowed).value

\* A word across every place of a seam, with others before and behind it; the
\* first and the last may be the same.
Lines == {<<Said(u1, a, 2), Said(u2, b, 3), Said(t, c, 2)>> :
            a \in {1, 4}, b \in 7..20, c \in {15, 18, 24, 25, 26, 33, 38}, t \in {u1, u3}}
Sensible(line) == line[2].end <= line[3].start /\ line[1].end <= line[2].start

TranscribeAlone ==
    \E length \in {0, 3, 10, 20, 31, 40} : \E window \in {16, 20} :
    \E padding \in {"Exact", "PadToWindow"} : \E line \in {l \in Lines : Sensible(l)} :
      LET spoken == SelectSeq(line, LAMBDA w : w.end <= length)
      IN  Try("TranscribeAlone", [length |-> length, line |-> spoken],
              Batch!TranscribeChannel(Transcriber(Setup(window, padding, TRUE), 9), spoken, length,
                                      <<>>).result)

\* Two channels that speak at different times, with a detector that knows.
Recording(first, second) ==
    [count |-> 2, rate |-> 16, length |-> 40,
     lines |-> [c \in {0, 1} |-> IF c = 0 THEN <<Said(u1, first, 2), Said(u2, first + 3, 2)>>
                                 ELSE <<Said(u3, second, 3)>>],
     probabilities |-> [c \in {0, 1} |-> [f \in 1..10 |->
         IF \E x \in (IF c = 0 THEN first..(first + 5) ELSE second..(second + 3)) :
              x \in ((f - 1) * 4)..(f * 4) THEN 90 ELSE 10]],
     policy |-> [speech |-> 50, silence |-> 35, minimumSpeech |-> 0, minimumSilence |-> 0,
                 padding |-> 4]]

TranscribeTogether ==
    \E first \in {1, 6, 11, 15} : \E second \in {2, 7, 14, 22, 29} :
    \E way \in {"plain", "vad", "scored", "scored_vad"} :
    \E projection \in {"SingleOutput", "PerChannel"} : \E alike \in BOOLEAN :
    \E allowed \in {0, 1, 2, 20} :
      Try("TranscribeTogether",
          [recording |-> Recording(first, second), alone |-> alike \/ projection = "SingleOutput"],
          Batch!Transcribe(Transcriber(Setup(20, "Exact", FALSE), allowed),
                           Recording(first, second), projection, 5, way,
                           IF alike THEN {{0, 1}} ELSE {}))

\* The dialogue of sessions that have ended.
Snapshot(channel, words) ==
    [channel |-> channel, cut |-> 40, stable |-> 40,
     words |-> [i \in DOMAIN words |-> words[i] @@ [final |-> TRUE, stable |-> TRUE]]]
Made == [factory |-> TRUE, changed |-> FALSE, rateDiffers |-> FALSE, constructed |-> TRUE,
         warm |-> TRUE]
Converse ==
    \E first \in {1, 6, 11} : \E second \in {2, 7, 12, 22} : \E alike \in BOOLEAN :
    \E step \in {"none", "SessionPush", "SessionFlush", "Snapshot"} :
    \E made \in {Made, [Made EXCEPT !.warm = FALSE], [Made EXCEPT !.factory = FALSE]} :
      LET lines == Recording(first, second).lines
      IN  Try("Converse", [lines |-> lines, alone |-> alike, step |-> step, made |-> made],
              Batch!OfflineDialog(2, "Enabled", FALSE,
                [c \in {0, 1} |-> [snapshot |-> Snapshot(c, lines[c]),
                                   made |-> IF c = 0 THEN Made ELSE made,
                                   step |-> IF c = 0 THEN "none" ELSE step]],
                IF alike THEN {{0, 1}} ELSE {}))

\* Turns of channels that are complete: one channel pauses, the other comes between.
Take ==
    \E pause \in 5..7 : \E other \in {1, 9, 30} : \E overlap \in {0, 2} :
      LET first == <<Said(u1, 1, 2), Said(u2, 3, 2), Said(u3, 5 + pause, 1 + overlap),
                     Said(u1, 6 + pause, 1)>>
          channels == <<[channel |-> 1, words |-> <<Said(u2, other, 4)>>],
                        [channel |-> 0, words |-> first]>>
      IN  Try("Take", channels, [turns |-> Words!DialogTurns(channels, 6),
                                 merged |-> Words!Merge(channels)])

InOrder(items) == \A i \in 2..Len(items) : items[i - 1].start <= items[i].start

\* Whatever the windows, their seams, the padding and the length, a word that is
\* heard whole is transcribed once, with the times it was said at; a recording
\* gives all its retained channels or nothing; and its turns hold each word of
\* them, in order (batch.rs, stitch.rs, multi_batch.rs, turns.rs).
EachWordOnce ==
    /\ IsOf("TranscribeAlone") =>
         LET words == tried.out.value.words
             line  == tried.in.line
         IN  /\ tried.out.ok
             /\ ToSet(words) \subseteq ToSet(line)
             /\ \A i \in 2..Len(words) : words[i - 1].start < words[i].start
             /\ tried.in.length > 5 =>
                  \A w \in ToSet(line) : w \in ToSet(words)
    /\ IsOf("TranscribeTogether") /\ tried.out.result.ok =>
         LET done  == tried.out.result.value
             lines == tried.in.recording.lines
         IN  /\ [k \in DOMAIN done.channels |-> done.channels[k].channel]
                  = IF tried.in.alone THEN <<0>> ELSE <<0, 1>>
             /\ \A k \in DOMAIN done.channels :
                  done.channels[k].words = lines[done.channels[k].channel]
             /\ InOrder(done.turns)
             /\ \A k \in DOMAIN done.channels :
                  FlattenSeq([t \in DOMAIN done.turns |->
                    IF done.turns[t].channel = done.channels[k].channel
                      THEN done.turns[t].words ELSE <<>>]) = done.channels[k].words
             /\ done.timings["decode"] = tried.out.transcriber.timings["decode"]
    /\ IsOf("Take") =>
         LET turns == tried.out.turns.value
             Of(c) == SelectSeq(turns, LAMBDA t : t.channel = c)
             Pause(v, w) == w.start - v.end >= 6
             Whole(t) == \A i \in 2..Len(t.words) : ~Pause(t.words[i - 1], t.words[i])
         IN  /\ InOrder(turns) /\ InOrder(tried.out.merged.value)
             /\ \A k \in DOMAIN tried.in :
                  LET own == Of(tried.in[k].channel)
                  IN  /\ FlattenSeq([i \in DOMAIN own |-> own[i].words]) = tried.in[k].words
                      /\ \A i \in DOMAIN own : Whole(own[i])
                      /\ \A i \in 2..Len(own) : Pause(own[i - 1], own[i])
                      /\ tried.in[k].words = [i \in DOMAIN tried.in[k].words |->
                           SelectSeq(tried.out.merged.value,
                                     LAMBDA w : w.channel = tried.in[k].channel)[i].word]
    /\ IsOf("Converse") /\ tried.out.result.ok =>
         /\ InOrder(tried.out.result.value)
         /\ \A c \in {0, 1} : FlattenSeq([t \in DOMAIN tried.out.result.value |->
                IF tried.out.result.value[t].channel = c THEN tried.out.result.value[t].text
                ELSE <<>>])
              = IF c = 1 /\ tried.in.alone THEN <<>>
                ELSE [i \in DOMAIN tried.in.lines[c] |-> tried.in.lines[c][i].text]
         /\ ~tried.in.alone => tried.in.made = Made /\ tried.in.step = "none"

----------------------------------------------------------------------------
(* Which graphs are opened: the assignment of their nodes, and the package.  *)

Node(name) == <<[name |-> name, domain |-> "ai", operator |-> "op"]>>
Subgraph(provider, nodes) == <<[provider |-> provider, nodes |-> nodes]>>
Report(subgraphs) == [ok |-> TRUE, subgraphs |-> subgraphs]

\* The graphs of the two roles, the second also in another order and grouping;
\* another graph; and reports that show none.
Readable == [ctc  |-> Report(<<Subgraph("CUDA", <<Node("a"), Node("b")>>)>>),
             rnnt |-> Report(<<Subgraph("CUDA", <<Node("a"), Node("a")>>), Subgraph("CPU", <<Node("b")>>)>>),
             reordered |-> Report(<<Subgraph("CUDA", <<Node("a")>>), Subgraph("CPU", <<Node("b")>>),
                                    Subgraph("CUDA", <<Node("a")>>)>>),
             another |-> Report(<<Subgraph("CUDA", <<Node("a")>>), Subgraph("CPU", <<Node("b")>>)>>)]
Unreadable == {Report(<<Subgraph("CPU", <<Node("a"), Node("b")>>)>>),
               Report(<<Subgraph("CUDA", <<Node("a"), <<>>>>)>>),
               Report(<<Subgraph("CUDA", <<Node("null"), Node("b")>>)>>),
               Report(<<Subgraph("ROCM", <<Node("a")>>)>>), Report(<<>>), Report(<<<<>>>>),
               Report(<<Subgraph("CUDA", <<Node("a"), Node("b")>>),
                        Subgraph("CUDA", <<Node("a"), Node("b")>>)>>),
               [ok |-> FALSE]}
Reports == {Readable[l] : l \in DOMAIN Readable} \union Unreadable

FingerprintOf(label) ==
    Cli!AssignmentEvidence(Cli!AssignmentRecords(Readable[label]).value).value.fingerprint
Fingerprints == {Unset, <<Malformed>>} \union {<<FingerprintOf(r)>> : r \in {"ctc", "rnnt"}}

NoSettings == [ep |-> Unset, dylib |-> Unset, mempattern |-> Unset, arena |-> Unset,
               threads |-> Unset, cache |-> Unset, min |-> Unset, opt |-> Unset, max |-> Unset,
               policy |-> Unset, sha |-> [r \in {"ctc", "rnnt"} |-> Unset],
               frontend |-> Unset, trace |-> Unset]
DefaultConfig == Cli!OrtConfig(NoSettings).value

OpenGraph ==
    \E device \in {"cpu", "cuda"} : \E role \in {"ctc", "rnnt"} :
    \E required \in {{"ctc"}, {"ctc", "rnnt"}} : \E report \in Reports :
    \E policy \in {Unset, <<"verified">>, <<"allow-unverified">>, <<"none">>} :
    \E sha \in [{"ctc", "rnnt"} -> Fingerprints] :
      LET settings == [NoSettings EXCEPT !.policy = policy, !.sha = sha]
          plan == Cli!ProviderPlan(device, DefaultConfig, required, settings)
      IN  Try("OpenGraph", [device |-> device, role |-> role, required |-> required,
                            report |-> report, settings |-> settings],
              Cli!Then(plan, LAMBDA q :
                  Cli!OpenEncoder([dimension |-> 4, dimensionFirst |-> FALSE], q, role, TRUE, report)))

\* A package: the lines of its configuration, with one thing wrong at most.
PathText(text) == CASE text \in {"../up", "a/../b"} -> <<"parent", "name">>
                    [] text = "/abs" -> <<"root", "name">>
                    [] text = "a\\b" -> <<"backslash">>
                    [] OTHER -> <<"name">>
NamesText(text) == CASE text = "x,y" -> <<"x", "y">> [] text = "x,y,z" -> <<"x", "y", "z">>
                     [] text = "x,x" -> <<"x", "x">> [] text = "x," -> <<"x", "">>
                     [] OTHER -> <<text>>
Kit == INSTANCE Package WITH
    WholeNumber <- Unsigned, PathOf <- PathText, NamesOf <- NamesText, MostWords <- 6,
    RealNumber <- LAMBDA text : IF text = "nan" THEN <<NotFinite>>
                                ELSE IF Unsigned(text) >= 0 THEN <<Unsigned(text)>> ELSE <<>>

Proper(key) == CASE key = "format_version" -> "1" [] key = "center" -> "true"
                 [] key \in {"ctc.blank_id", "rnnt.blank_id", "log_clamp_min"} -> "3"
                 [] key \in (Kit!UnsignedKeys \union Kit!RealKeys)
                             \ {"ctc.blank_id", "rnnt.blank_id", "log_clamp_min"} -> "4"
                 [] key \in Kit!AssetKeys -> key
                 [] key \in Kit!LayoutKeys -> "t_d"
                 [] key \in Kit!NameKeys -> (IF Kit!NamesWanted(key) = 1 THEN "x"
                                             ELSE IF Kit!NamesWanted(key) = 2 THEN "x,y" ELSE "x,y,z")
Line(key) == <<"pair", key, Proper(key)>>
ProperLines == FoldSet(LAMBDA key, lines : Append(lines, Line(key)), <<>>, Kit!RequiredKeys)
Without(lines, key) == SelectSeq(lines, LAMBDA l : l[2] # key)

\* A text that is a mistake for most keys is a file's or a tensor's name for some.
IsName(key, text) == \/ key \in Kit!AssetKeys /\ text \in {"x,x", "nan"}
                     \/ key = "rnnt.joint_outputs" /\ text \in {"nan", "../up"}

Configurations ==
    LET Changed(key, text) == Append(Without(ProperLines, key), <<"pair", key, text>>)
    IN  {[lines |-> ProperLines, sound |-> TRUE], [lines |-> Reverse(ProperLines), sound |-> TRUE],
         [lines |-> <<<<"blank", "">>>> \o ProperLines, sound |-> TRUE],
         [lines |-> ProperLines \o <<<<"bare", "x">>>>, sound |-> FALSE],
         [lines |-> ProperLines \o <<<<"pair", "", "1">>>>, sound |-> FALSE]}
        \union {[lines |-> Append(ProperLines, <<"pair", key, "1">>),
                 sound |-> key \in Kit!RetainedKeys] :
                   key \in Kit!RetainedKeys \union {"ctc.extra", "format_version", "vad.model"}}
        \union {[lines |-> Without(ProperLines, key), sound |-> FALSE] : key \in Kit!RequiredKeys}
        \union {[lines |-> Changed(key, text), sound |-> IsName(key, text)] :
                   key \in Kit!RequiredKeys, text \in {"", "x,x", "nan", "../up"}}
        \union {[lines |-> Changed(key, text), sound |-> FALSE] :
                   key \in Kit!AssetKeys, text \in {"a/../b", "/abs", "a\\b"}}
        \union {[lines |-> Changed(key, text), sound |-> FALSE] :
                   key \in Kit!UnsignedKeys \ {"ctc.blank_id", "rnnt.blank_id"}, text \in {"0", "t_d"}}
        \union {[lines |-> Changed("ctc.blank_id", text), sound |-> text \in {"0", "3"}] :
                   text \in {"0", "3", "4", "5"}}
        \union {[lines |-> Changed("log_clamp_min", text), sound |-> text \in {"1", "4"}] :
                   text \in {"0", "1", "4", "5"}}

OpenPackage ==
    \/ \E c \in Configurations : \E kind \in {"directory", "file"} :
         Try("OpenPackage", [kind |-> kind] @@ c, Kit!Open(kind, c.lines))
    \/ \E role \in {"ctc", "rnnt"} : \E precision \in Kit!Precisions :
       \E broken \in Kit!AssetKeys : \E how \in {"missing", "outside", "directory"} :
         LET tree == [k \in Kit!AssetKeys \ (IF how = "missing" THEN {broken} ELSE {}) |->
                        [inside |-> ~(k = broken /\ how = "outside"),
                         kind |-> IF k = broken /\ how = "directory" THEN "directory" ELSE "file"]]
             d == Kit!Open("directory", ProperLines).value
         IN  Try("SelectAssets", [role |-> role, precision |-> precision, broken |-> broken],
                 [encoder |-> Kit!EncoderArtifact(d, tree, role, precision),
                  search |-> Kit!RnntAssets(d, tree, precision),
                  vocabulary |-> Kit!CtcVocabulary(d, tree), voice |-> Kit!VadModel(d, tree)])
    \/ \E words \in UNION {[1..n -> {0, 1, 2, 3}] : n \in 0..4} : \E spare \in {0, 2} :
         Try("ReadWeights", [words |-> words, spare |-> spare], Kit!ReadF32(words, spare))

\* An encoder runs on the device only with the graph declared for its own role,
\* whatever order the runtime reports the nodes in, or where the declaration is
\* waived in so many words; and a package opens only when its configuration says
\* every key once and no other, and names files that lie in it
\* (ort_assignment.rs, assembly.rs, schema.rs, assets.rs).
NothingUndeclaredIsOpened ==
    /\ IsOf("OpenGraph") =>
         LET in  == tried.in
             sha == in.settings.sha
             declared == {sha["ctc"], sha["rnnt"]} # {Unset}
             Shows(label) == in.report = Readable[label]
         IN  tried.out.ok <=>
               IF in.device = "cpu" THEN in.settings.policy = Unset /\ ~declared
               ELSE /\ in.role \in in.required
                    /\ \E label \in DOMAIN Readable : Shows(label)
                    /\ \/ in.settings.policy = <<"allow-unverified">> /\ ~declared
                       \/ /\ in.settings.policy \in {Unset, <<"verified">>}
                          /\ <<Malformed>> \notin {sha["ctc"], sha["rnnt"]}
                          /\ \A r \in in.required : sha[r] # Unset
                          /\ \/ sha[in.role] = <<FingerprintOf("ctc")>> /\ Shows("ctc")
                             \/ /\ sha[in.role] = <<FingerprintOf("rnnt")>>
                                /\ Shows("rnnt") \/ Shows("reordered")
    /\ IsOf("OpenPackage") =>
         (tried.out.ok <=> tried.in.kind = "directory" /\ tried.in.sound)
    /\ IsOf("SelectAssets") =>
         LET in == tried.in
             single == in.precision = "fp32"
             Sound(result, wanted) == result.ok <=> in.broken \notin wanted
         IN  /\ Sound(tried.out.encoder,
                      {IF in.role = "ctc" THEN (IF single THEN "ctc.encoder_fp32" ELSE "ctc.encoder_fp16io32")
                       ELSE IF single THEN "rnnt.encoder_fp32" ELSE "rnnt.encoder_fp16io32"})
             /\ Sound(tried.out.search,
                      IF single THEN {"rnnt.decoder_fp32", "rnnt.joint_fp32", "rnnt.vocab"}
                      ELSE {"rnnt.decoder_fp16", "rnnt.joint_fp16", "rnnt.vocab"})
             /\ Sound(tried.out.vocabulary, {"ctc.vocab"}) /\ Sound(tried.out.voice, {"vad.model"})
    /\ IsOf("ReadWeights") /\ tried.out.ok =>
         LET w == tried.in.words
         IN  /\ tried.in.spare = 0
             /\ w = <<Len(tried.out.value.dims)>> \o tried.out.value.dims \o tried.out.value.data
             /\ Len(tried.out.value.data)
                  = FoldLeft(LAMBDA n, d : n * d, 1, tried.out.value.dims)

----------------------------------------------------------------------------
(* The command line.                                                        *)

Say(option, setting) == IF setting = Unset THEN <<>> ELSE <<option, setting[1]>>
In(setting, unit, default) == IF setting = Unset THEN default ELSE (Unsigned(setting[1]) * unit)

BindPolicy ==
    \E rate \in {8, 16} : \E window \in {Unset, <<"5">>, <<"30">>} :
    \E overlap \in {Unset, <<"2">>, <<"5">>} : \E step \in {Unset, <<"400">>} :
    \E horizon, keep \in {Unset, <<"3">>} : \E seam \in {Unset, <<"4">>} :
    \E quiet \in {Unset, <<"80">>} : \E endpoint \in {Unset, <<"blank">>, <<"vad">>} :
    \E command \in {"stream", "dialog"} :
      LET args == <<command, "a.wav">> \o Say("--window", window) \o Say("--overlap", overlap)
                    \o Say("--step-ms", step) \o Say("--horizon", horizon)
                    \o Say("--keep-silence", keep) \o Say("--seam-after", seam)
                    \o Say("--silence-ms", quiet) \o Say("--endpoint", endpoint)
          parsed == Cli!ParseText(TRUE, args, Unset)
          wanted == [Cli!DefaultStreamValues EXCEPT
                       !.window = In(window, 1000, @), !.overlap = In(overlap, 1000, @),
                       !.step = In(step, 1, @), !.seamAfter = In(seam, 1000, @),
                       !.horizon = In(horizon, 1000, IF command = "stream" THEN 4000 ELSE 5000),
                       !.silence = In(keep, 1000, @),
                       !.rules.afterSpeech = In(quiet, 1, @),
                       !.endpoint = IF endpoint = <<"vad">> THEN "Vad" ELSE "Blank"]
      IN  Try("BindPolicy", [rate |-> rate, wanted |-> wanted],
              Cli!Then(parsed, LAMBDA q : Cli!BindStream(q.invocation.policy, rate)))

\* The same policy, asked for by the query of a stream.
Ask(key, setting) == IF setting = Unset THEN <<>> ELSE key :> setting[1]
BindQuery ==
    \E rate \in {8, 16} : \E window \in {Unset, <<"5">>, <<"30">>} :
    \E overlap \in {Unset, <<"2">>, <<"5">>} : \E step \in {Unset, <<"400">>} :
    \E horizon, keep \in {Unset, <<"3">>} : \E seam \in {Unset, <<"4">>} :
    \E quiet \in {Unset, <<"80">>} : \E endpoint \in {Unset, <<"blank">>, <<"vad">>} :
    \E lock \in {Unset, <<"1">>} :
      LET p == [values |-> ("rate" :> "16") @@ Ask("window", window) @@ Ask("overlap", overlap)
                           @@ Ask("step_ms", step) @@ Ask("horizon", horizon)
                           @@ Ask("keep_silence", keep) @@ Ask("seam_after", seam)
                           @@ Ask("silence_ms", quiet) @@ Ask("endpoint", endpoint)
                           @@ Ask("lock", lock)]
          base == Cli!StreamConfig(rate, Cli!DefaultStreamValues).value
          wanted == [Cli!DefaultStreamValues EXCEPT
                       !.window = In(window, 1000, @), !.overlap = In(overlap, 1000, @),
                       !.step = In(step, 1, @), !.seamAfter = In(seam, 1000, @),
                       !.horizon = In(horizon, 1000, 5000), !.silence = In(keep, 1000, @),
                       !.rules.afterSpeech = In(quiet, 1, @),
                       !.lock = IF lock = Unset THEN "Advisory" ELSE "CommitStable",
                       !.endpoint = IF endpoint = <<"vad">> THEN "Vad" ELSE "Blank"]
      IN  Try("BindPolicy", [rate |-> rate, wanted |-> wanted],
              Cli!Then(Service!StreamQuery(p, [base |-> base, dedup |-> TRUE, backchannel |-> 0]),
                       LAMBDA q : Cli!Ok(q.config)))

\* What a stream's query says of its channels.
AskChannels ==
    \E channels \in {Unset, <<"0">>, <<"1">>, <<"2">>, <<"4">>, <<"5">>} :
    \E dedup \in {Unset, <<"0">>, <<"true">>, <<"x">>} : \E default \in BOOLEAN :
    \E backchannel \in {Unset, <<"0">>, <<"400">>, <<"nan">>} : \E rate \in {"3", "16", "80", "400"} :
      LET p == [values |-> ("rate" :> rate) @@ Ask("channels", channels) @@ Ask("dedup", dedup)
                           @@ Ask("backchannel_max_ms", backchannel)]
          base == Cli!StreamConfig(16, Cli!DefaultStreamValues).value
      IN  Try("AskChannels", [channels |-> In(channels, 1, 1), dedup |-> dedup, default |-> default,
                              backchannel |-> backchannel, rate |-> rate],
              Cli!Then(Service!StreamQuery(p, [base |-> base, dedup |-> default, backchannel |-> 5]),
                       LAMBDA q : Cli!Ok([query |-> q, setup |-> Service!MultiChannelSetup(q)])))

\* Digits and rates; 10 is a character that is no digit.
Digits == UNION {[1..n -> {0, 4, 5}] : n \in 0..3}
ReadDuration ==
    \E whole \in {<<>>, <<0>>, <<3>>, <<1, 0>>, <<10>>} :
    \E fraction \in {<<d>> : d \in Digits} \union {Unset, <<<<10>>>>, <<<<0, 0, 0, 5>>>>} :
    \E rate \in {3, 16} :
      LET read == Cli!Duration([whole |-> whole, fraction |-> fraction], 1000)
      IN  Try("ReadDuration", [whole |-> whole, fraction |-> fraction, rate |-> rate],
              [duration |-> read, samples |-> Cli!Then(read, LAMBDA d : Cli!SamplesAt(d, rate))])

\* A policy is the defaults with everything that was asked for, in any
\* combination, or none where that is no policy: what is given does not have to
\* agree with a default it replaces (grammar.rs bind, ws.rs StreamQuery,
\* contracts.rs); channels are compared only where there are several and it was
\* not declined; a duration is exact and its samples are the nearest (config.rs).
PolicyIsBoundWhole ==
    /\ IsOf("AskChannels") =>
         LET in == tried.in IN
         /\ tried.out.ok <=> /\ in.rate \in {"16", "80"} /\ in.channels \in 1..4
                             /\ in.dedup # <<"x">> /\ in.backchannel # <<"nan">>
                             /\ in.channels = 1 => in.dedup = Unset
         /\ tried.out.ok =>
              /\ tried.out.value.setup.policy = "Deduplicate" <=>
                   /\ in.channels > 1
                   /\ in.dedup = <<"true">> \/ (in.dedup = Unset /\ in.default)
              /\ tried.out.value.setup.backchannel
                   = CASE in.backchannel = Unset -> <<5>> [] in.backchannel = <<"0">> -> Unset
                       [] OTHER -> <<400>>
    /\ IsOf("BindPolicy") =>
         LET whole == Cli!StreamConfig(tried.in.rate, tried.in.wanted)
         IN  IF whole.ok THEN tried.out = whole ELSE ~tried.out.ok
    /\ IsOf("ReadDuration") /\ tried.out.duration.ok =>
         LET d == tried.out.duration.value
             fraction == IF tried.in.fraction = Unset THEN <<0>> ELSE tried.in.fraction[1]
             digits == tried.in.whole \o fraction
             Weight(i) == 10^(3 + Len(tried.in.whole) - i)
         IN  /\ \A i \in DOMAIN digits : digits[i] = (d \div Weight(i)) % 10
             /\ d < 10^(3 + Len(tried.in.whole))
             /\ tried.out.samples.ok =>
                  LET twice == 2 * (tried.out.samples.value * 1000 - d * tried.in.rate)
                  IN  -1000 < twice /\ twice <= 1000

Chunks == {<<"--window", "5">>, <<"--lock">>, <<"--events">>, <<"--endpoint", "vad">>,
           <<"--ref", "-x">>}
BadChunks == {<<"--window", "--lock">>, <<"--iters", "5">>, <<"word">>, <<"--ref", "">>}
Dangling == {<<>>, <<"--window">>}
ServiceChunks == {<<"--model", "m">>, <<"--model", "--no-rnnt">>, <<"--port", "80">>,
                  <<"--no-rnnt">>, <<"--ep", "cpu">>}
BadServiceChunks == {<<"--port", "0">>, <<"--port", "x">>, <<"word">>, <<"--ep", "">>}
ServiceDangling == {<<>>, <<"--model">>}
UpTo(n, S) == UNION {[1..k -> S] : k \in 0..n}

\* Parts of a query, each character as itself or as an escape.
QueryChunks == {<<"j", "1">>, <<"j", " ">>, <<"o", "1">>, <<"wide", "o">>}
BadQueryChunks == {<<"", "1">>, <<"o", "">>}
Hex(digit, upper) == IF digit < 10 THEN 48 + digit ELSE (IF upper THEN 55 ELSE 87) + digit
Spelled(text, style) ==
    FlattenSeq([i \in DOMAIN Bytes[text] |->
        LET b == Bytes[text][i]
        IN  IF style = "plain" THEN <<IF b = 32 THEN 43 ELSE b>>
            ELSE <<37, Hex(b \div 16, style = "upper"), Hex(b % 16, style = "upper")>>])
QueryDangling == {<<>>, <<[key |-> <<106>>, value |-> Unset]>>, <<[key |-> <<>>, value |-> Unset]>>,
                  <<[key |-> <<111, 37, 54>>, value |-> <<<<49>>>>]>>,
                  <<[key |-> <<37, 106, 49>>, value |-> <<<<49>>>>]>>,
                  <<[key |-> <<106>>, value |-> <<<<208>>>>]>>}

ReadOptions ==
    \/ \E chunks \in UpTo(3, QueryChunks \union BadQueryChunks) : \E rest \in QueryDangling :
       \E styles \in [DOMAIN chunks -> {"plain", "lower", "upper"}] :
         /\ chunks = <<>> => rest = <<>>
         /\ Try("ReadOptions", [chunks |-> chunks, rest |-> rest, good |-> QueryChunks],
                Service!ParseQuery(<<[i \in DOMAIN chunks |->
                    [key |-> Spelled(chunks[i][1], styles[i]),
                     value |-> <<Spelled(chunks[i][2], styles[i])>>]] \o rest>>))
    \/ \E chunks \in UpTo(3, Chunks \union BadChunks) : \E rest \in Dangling :
         Try("ReadOptions", [chunks |-> chunks, rest |-> rest, good |-> Chunks],
             Cli!Then(Cli!ParseOptions("stream", <<"a.wav">> \o FlattenSeq(chunks) \o rest),
                      LAMBDA q : Cli!Ok([o \in DOMAIN q.values \union q.flags |->
                          IF o \in q.flags THEN "" ELSE q.values[o]])))
    \/ \E chunks \in UpTo(3, ServiceChunks \union BadServiceChunks) : \E rest \in ServiceDangling :
         Try("ReadOptions", [chunks |-> chunks, rest |-> rest, good |-> ServiceChunks],
             Cli!ParseCli(FlattenSeq(chunks) \o rest))

Field(name, text) == [name |-> name, text |-> text]
GoodFields == {Field("file", "sound"), Field("model", "gigaam-v3"), Field("model", "gigaam-v3-rnnt"),
               Field("response_format", "verbose_json"), Field(Service!Granularity, "word"),
               Field(Service!Granularity, "segment"), Field("vad", "true"),
               Field("vad_threshold", "1"), Field("prompt", "")}
BadFields == {Field("file", ""), Field("language", "en"), Field("vad", "x"), Field("word", "1")}
ReadForm ==
    \E extra \in UpTo(4, GoodFields \union BadFields) : \E rnnt \in BOOLEAN :
    \E given \in {<<>>, <<Field("model", "gigaam-v3"), Field("file", "sound")>>} :
      /\ Len(extra) = 4 => given # <<>> /\ \A i \in 1..4 : extra[i] \in GoodFields
      /\ Try("ReadForm", [fields |-> given \o extra, rnnt |-> rnnt],
             Service!ParseForm(given \o extra, rnnt))

\* A command line, a query or a form is accepted only as options it may have,
\* each once, however its name is spelled, and with its own value, and is read as
\* exactly those, whatever their order (cli grammar.rs parse_options, service
\* config.rs parse_cli, protocol.rs, openai.rs parse_fields).
OptionsAreUnambiguous ==
    /\ IsOf("ReadForm") =>
         LET fields == tried.in.fields
             With(field) == field \in ToSet(fields)
             Named(name) == {f \in ToSet(fields) : f.name = name}
             asked == {f.text : f \in Named(Service!Granularity)}
         IN  /\ tried.out.ok <=>
                  /\ ToSet(fields) \subseteq GoodFields /\ Len(fields) <= 5
                  /\ Cardinality(ToSet(fields)) = Len(fields)
                  /\ With(Field("file", "sound")) /\ Cardinality(Named("model")) = 1
                  /\ With(Field("model", "gigaam-v3-rnnt")) => tried.in.rnnt
                  /\ asked # {} => With(Field("response_format", "verbose_json"))
                  /\ With(Field("vad_threshold", "1")) => With(Field("vad", "true"))
             /\ tried.out.ok =>
                  LET form == tried.out.value
                  IN  /\ (form.model = "rnnt") = With(Field("model", "gigaam-v3-rnnt"))
                      /\ form.word = ("word" \in asked)
                      /\ form.segment = ("segment" \in asked
                                        \/ (asked = {} /\ form.format = "verbose_json"))
                      /\ (form.vad # Unset) = With(Field("vad", "true"))
    /\ IsOf("ReadOptions") =>
      LET chunks == tried.in.chunks
      IN  /\ tried.out.ok <=> /\ ToSet(chunks) \subseteq tried.in.good /\ tried.in.rest = <<>>
                              /\ \A i, j \in DOMAIN chunks :
                                   chunks[i][1] = chunks[j][1] => i = j
          /\ tried.out.ok =>
               /\ DOMAIN tried.out.value = {chunks[i][1] : i \in DOMAIN chunks}
               /\ \A i \in DOMAIN chunks :
                    tried.out.value[chunks[i][1]] = IF Len(chunks[i]) = 2 THEN chunks[i][2] ELSE ""

----------------------------------------------------------------------------
(* Whole commands, in a world where at most two things are wrong.           *)

Arguments == {
    <<"transcribe", "a.wav", "--evidence", "e">>, <<"transcribe", "a.wav", "--vad", "--words">>,
    <<"transcribe", "a.wav", "--evidence", "e", "--evidence-version", "2", "--vad">>,
    <<"transcribe", "a.wav", "--rnnt">>, <<"transcribe", "a.wav", "--rnnt", "--evidence", "e">>,
    <<"transcribe", "a.wav", "--vad", "--evidence", "e">>,
    <<"bench", "--window", "2", "--alt-window", "1">>, <<"stream", "a.wav", "--ref", "r">>,
    <<"stream", "a.wav", "--endpoint", "vad">>, <<"vad", "a.wav">>,
    <<"dialog", "a.wav", "--endpoint", "vad">>}
Contradictory(args) == /\ args[1] = "transcribe" /\ Has(args, "--evidence")
                       /\ \/ Has(args, "--rnnt")
                          \/ Has(args, "--vad") /\ ~Has(args, "--evidence-version")

World == [evidencePath |-> "file", package |-> TRUE, rate |-> 16, runtime |-> TRUE,
          weights |-> TRUE, detector |-> TRUE, recognizer |-> TRUE, modelName |-> TRUE,
          modelHeader |-> TRUE, evidenceFile |-> TRUE, warmup |-> TRUE, audio |-> TRUE, audioName |-> TRUE, transcribes |-> TRUE,
          evidenceFinish |-> TRUE, samples |-> <<1, 2>>, reference |-> TRUE, streams |-> TRUE,
          channels |-> 2]
\* "otherRate" is a model rate that the voice detector does not have.
Failing(w, field) ==
    IF field = "" THEN w
    ELSE IF field = "otherRate" THEN [w EXCEPT !.rate = IF @ = 0 THEN 0 ELSE 24]
    ELSE [w EXCEPT ![field] =
            CASE field = "evidencePath" -> "directory" [] field = "rate" -> 0
              [] field = "samples" -> <<>> [] field = "channels" -> 0
              [] OTHER -> FALSE]
GoodSettings == [NoSettings EXCEPT !.ep = <<"cpu">>, !.dylib = <<"lib">>]
BadSettings == {[GoodSettings EXCEPT !.ep = <<"tpu">>], [GoodSettings EXCEPT !.dylib = Unset],
                [GoodSettings EXCEPT !.threads = <<0>>], [GoodSettings EXCEPT !.arena = <<"same">>],
                [GoodSettings EXCEPT !.policy = <<"verified">>],
                [GoodSettings EXCEPT !.cache = <<"directory">>],
                [GoodSettings EXCEPT !.min = <<<<>>>>]}

Evidenced(args) == Has(args, "--evidence")
Detects(args)   == Has(args, "--vad") \/ Has(args, "vad")

\* What a command needs to be so before it loads anything native, afterwards,
\* and, of these, before it makes an evidence file.
Before(args) ==
    {"package"} \union (IF args[1] = "vad" THEN {} ELSE {"rate"})
      \union (IF args[1] \notin {"bench", "vad"} /\ Detects(args) THEN {"otherRate"} ELSE {})
      \union (CASE args[1] = "transcribe" -> IF Evidenced(args) THEN {"evidencePath"} ELSE {}
                [] args[1] = "bench" -> {"audio", "samples", "weights"}
                [] args[1] = "stream" -> IF Has(args, "--ref") THEN {"reference"} ELSE {}
                [] OTHER -> {})
ForTheModel(args) ==
    {"runtime"} \union (IF args[1] = "vad" THEN {} ELSE {"weights", "recognizer"})
      \union (IF Detects(args) THEN {"detector"} ELSE {})
ForTheFile == {"modelName", "modelHeader", "evidenceFile"}
Afterwards(args) ==
    ForTheModel(args) \union {"audio"}
      \union (IF args[1] \in {"stream", "transcribe"} THEN {"warmup"} ELSE {})
      \union (IF args[1] \in {"stream", "dialog"} THEN {"streams"} ELSE {})
      \union (IF args[1] = "dialog" THEN {} ELSE {"transcribes"})
      \union (IF args[1] = "vad" THEN {"channels"} ELSE {})
      \union (IF Evidenced(args) THEN ForTheFile \union {"audioName", "evidenceFinish"} ELSE {})
Invoke(args, settings, w) ==
    LET inv == Cli!ParseText(TRUE, args, Unset).value.invocation
    IN  CASE args[1] = "transcribe" -> Cli!Transcribe(inv, settings, w)
          [] args[1] = "bench"  -> Cli!Bench(inv, settings, w)
          [] args[1] = "stream" -> Cli!Stream(inv, settings, w)
          [] args[1] = "vad"    -> Cli!VadCommand(inv, settings, w)
          [] args[1] = "dialog" -> Cli!Dialog(inv, settings, w)

RunCommand ==
    \E args \in Arguments : \E settings \in {GoodSettings} \union BadSettings :
    \E one, other \in DOMAIN World \union {"", "otherRate"} :
      LET w == Failing(Failing(World, one), other)
      IN  Try("RunCommand", [args |-> args, settings |-> settings, wrong |-> {one, other}],
              [effects |-> Invoke(args, settings, w),
               main |-> Cli!Main(TRUE, args, Unset, settings, w).ok])

\* A request, in a world where at most two things are wrong.
ServiceWorld == [rnnt |-> TRUE, modelRate |-> 16, vadAsset |-> TRUE, decodes |-> TRUE, rate |-> 48,
                 channels |-> 1, detector |-> TRUE, transcribes |-> TRUE]
Worse(w, field) ==
    IF field = "" THEN w
    ELSE [w EXCEPT ![field] = CASE field = "modelRate" -> 24 [] field = "rate" -> 3
                                [] field = "channels" -> 0 [] OTHER -> FALSE]
RunRequest ==
    \E model \in {"ctc", "rnnt"} : \E vad, scored \in BOOLEAN :
    \E one, other \in DOMAIN ServiceWorld \union {""} :
      Try("RunRequest", [model |-> model, detects |-> vad \/ scored, wrong |-> {one, other}],
          Service!RunBatch([model |-> model, vad |-> vad], scored,
                           Worse(Worse(ServiceWorld, one), other)))

\* Arguments that contradict each other, bad settings, an evidence path that can
\* be no file, an unfit package or model rate, and what bench and stream read
\* first, refuse a command before it loads anything native or makes a file
\* (REQUIREMENTS.md PROCESS-CONFIG-001, API.md on --vad).  What is found later -
\* the names a header of evidence cannot hold too, which no check refuses in time -
\* may leave a runtime; it leaves an evidence file only when the model was loaded
\* and described, and never an output.  A command succeeds exactly when all it needs
\* does (commands, composition.rs).  A request that can never succeed is refused
\* as such, and before a detector is made for it; only one that may do later is
\* told that the service is unavailable (http.rs run_batch).
EffectsFollowChecks ==
    /\ IsOf("RunRequest") =>
         LET in == tried.in
             never == {"decodes", "rate", "channels"}
                      \union (IF in.model = "rnnt" THEN {"rnnt"} ELSE {})
                      \union (IF in.detects THEN {"modelRate", "vadAsset"} ELSE {})
             later == {"transcribes"} \union (IF in.detects THEN {"detector"} ELSE {})
         IN  /\ tried.out.status = IF in.wrong \cap never # {} THEN 400
                                   ELSE IF in.wrong \cap later # {} THEN 503 ELSE 200
             /\ tried.out.detector =>
                  in.detects /\ in.wrong \cap (never \union {"detector"}) = {}
    /\ IsOf("RunCommand") =>
      LET in == tried.in
          out == tried.out.effects
          known == \/ in.settings \in BadSettings \/ Contradictory(in.args)
                   \/ in.wrong \cap Before(in.args) # {}
      IN  /\ out.status.ok <=> ~known /\ in.wrong \cap Afterwards(in.args) = {}
          /\ tried.out.main = out.status.ok
          /\ "output" \in out.effects <=> out.status.ok
          /\ known => out.effects = {}
          /\ "evidence" \in out.effects =>
               /\ Evidenced(in.args) /\ "runtime" \in out.effects
               /\ in.wrong \cap (ForTheModel(in.args) \union ForTheFile) = {}

----------------------------------------------------------------------------
(* What a command shows.                                                    *)

Shown == INSTANCE Projection WITH Normal <- LAMBDA t : IF t = u3 THEN u2 ELSE t

WriteEvidence ==
    \E version \in {1, 2} : \E flushed \in 0..3 : \E selected \in {<<>>, <<0>>, <<1>>, <<0, 1>>, <<1, 0>>, <<2>>} :
    \E channels \in UpTo(2, {<<>>, <<0>>, <<1>>}) : \E writes \in [DOMAIN channels -> BOOLEAN] :
      Try("WriteEvidence", [version |-> version, channels |-> channels, writes |-> writes],
          Shown!EvidenceFile(version, [i \in DOMAIN channels |-> [channel |-> channels[i]]],
                             writes, 2, selected, flushed))

Word(text, start) == [text |-> text, start |-> start, end |-> start + 1, stable |-> FALSE]
Events == {[kind |-> "words", from |-> f, words |-> w, at |-> 9] :
             f \in 0..2, w \in {<<>>, <<Word(u1, 1)>>, <<Word(u2, 1)>>, <<Word(u3, 1), Word(u1, 2)>>}}
          \union {[kind |-> "stable", upto |-> n] : n \in 0..2}
          \union {[kind |-> "final", upto |-> n, reason |-> r] : n \in {1, 2}, r \in {"endpoint", "flush"}}
ShowStream ==
    \E events \in UpTo(3, Events) :
      Try("ShowStream", events, Shown!ApplyEvents(Shown!EmptyProjection, events))

\* The fewest edits that make one line of words the other: what is kept in place
\* or replaced, in order, and the rest.
Edits(a, b) ==
    LET Kept == {m \in SUBSET ((DOMAIN a) \X (DOMAIN b)) :
                   \A x, y \in m : x[1] < y[1] <=> x[2] < y[2]}
        Cost(m) == Len(a) + Len(b) - 2 * Cardinality(m)
                   + Cardinality({x \in m : a[x[1]] # b[x[2]]})
    IN  CHOOSE n \in {Cost(m) : m \in Kept} : \A m \in Kept : n <= Cost(m)

\* A result that has the channels its options ask to keep apart.
AnswerRequest ==
    \E options \in [split : BOOLEAN, turns : BOOLEAN, words : BOOLEAN, segments : BOOLEAN] :
    \E first, second \in UpTo(2, {u1, u2}) : \E alone \in BOOLEAN :
      LET Says(texts, c) == [i \in DOMAIN texts |-> Said(texts[i], 9 * i + 5 * c, 3)]
          both == <<[channel |-> 0, words |-> Says(first, 0)], [channel |-> 1, words |-> Says(second, 1)]>>
          kept == IF alone \/ Service!BatchChannelPolicy(options) = "SingleOutput" THEN <<both[1]>>
                  ELSE both
          result == [channels |-> kept, turns |-> Words!DialogTurns(kept, 6).value,
                     segments |-> Words!ChannelSegments(kept, 6)]
      IN  Try("AnswerRequest", [options |-> options, result |-> result],
              Service!TranscribeResponse(options, result))

\* The messages of a step of a stream, and the latencies a histogram is told.
Group == [events : UpTo(2, [event : {u1, u2}, channel : {0, 1}]), patch : UpTo(1, {u3})]
SendStep ==
    \E groups \in UpTo(2, Group) : \E sources \in {1, 2} :
      Try("SendStep", [groups |-> groups, sources |-> sources],
          Service!SerializeStep(groups, sources))
\* The last bound is infinite: above all that is measured.
Bounds == {10, 25, 1000}
MeasureLatency ==
    \E told \in UpTo(4, {NotFinite, -1, 0, 10, 11, 26}) :
      Try("MeasureLatency", told,
          FoldLeft(Service!ObserveLatency, Service!EmptyHistogram(Bounds), told))

Compare ==
    \E a, b \in UpTo(3, {u1, u2}) : Try("Compare", <<a, b>>, Words!WordEdits(a, b))

\* Evidence that says it is complete is: no window of it is missing or torn and
\* each is of a channel the file covers; version 1 has no such line, so there the
\* command's own success says it. And the line shown to a client is what the last
\* event for each of its words says, a word being stable only when told so; the
\* errors counted against a reference are the fewest there can be (evidence.rs,
\* projection/stream.rs, text.rs). What is answered has one text, or one for each
\* channel, and no channel that was kept is missing from it; a message of a stream
\* says its channel where there are several; and each latency is in every bucket
\* it fits, or counted as no latency (response.rs, stream_response.rs, metrics.rs).
OutputIsWhole ==
    /\ IsOf("AnswerRequest") =>
         LET out == tried.out
             channels == tried.in.result.channels
             Turned(c) == FlattenSeq([t \in DOMAIN out.turns[1] |->
                            IF out.turns[1][t].channel = c THEN out.turns[1][t].words ELSE <<>>])
             Listed(c) == LET own == SelectSeq(out.words[1], LAMBDA w : w.channel \in {Unset, <<c>>})
                          IN  [i \in DOMAIN own |-> own[i].word]
         IN  /\ (out.text = Unset) # (out.texts = Unset)
             /\ \A k \in DOMAIN channels :
                  /\ \/ out.texts # Unset /\ out.texts[1][k] = channels[k].words
                     \/ k = 1 /\ out.text = <<channels[1].words>>
                     \/ out.turns # Unset /\ Turned(channels[k].channel) = channels[k].words
                  /\ out.words # Unset => Listed(channels[k].channel) = channels[k].words
             /\ tried.in.options.words <=> out.words # Unset
    /\ IsOf("SendStep") =>
         LET groups == tried.in.groups
             sent == FlattenSeq([g \in DOMAIN groups |-> groups[g].events])
         IN  /\ SelectSeq(tried.out, LAMBDA m : m.event # u3) =
                  [i \in DOMAIN sent |-> [event |-> sent[i].event,
                      channel |-> IF tried.in.sources = 1 THEN Unset ELSE <<sent[i].channel>>]]
             /\ \A g \in DOMAIN groups : groups[g].patch # <<>> =>
                  \E i \in DOMAIN tried.out :
                    /\ tried.out[i].event = u3
                    /\ Len(SelectSeq(SubSeq(tried.out, 1, i), LAMBDA m : m.event # u3))
                         = FoldLeftDomain(LAMBDA n, h : n + (IF h <= g THEN Len(groups[h].events) ELSE 0),
                                          0, groups)
    /\ IsOf("MeasureLatency") =>
         LET told == SelectSeq(tried.in, LAMBDA v : v # NotFinite)
             Upto(b) == Len(SelectSeq(told, LAMBDA v : v >= 0 /\ v <= b))
         IN  /\ tried.out.buckets = [b \in Bounds |-> Upto(b)]
             /\ tried.out.count = Upto(1000)
             /\ tried.out.count + tried.out.negative + tried.out.nonFinite = Len(tried.in)
    /\ IsOf("WriteEvidence") =>
         LET file == tried.out.file
             complete == file # <<>> /\ file[Len(file)].kind = "complete"
             windows  == SelectSeq(file, LAMBDA l : l.kind = "window")
         IN  /\ tried.in.version = 2 => (tried.out.status.ok => complete)
             /\ complete \/ tried.out.status.ok =>
                  /\ \A i \in DOMAIN file : file[i].whole
                  /\ [i \in DOMAIN windows |-> windows[i].window.channel] = tried.in.channels
             /\ complete =>
                  LET counts == file[Len(file) - 1].counts
                  IN  /\ \A i \in DOMAIN windows : windows[i].window.channel[1] \in DOMAIN counts
                      /\ \A c \in DOMAIN counts :
                           counts[c] = Cardinality({i \in DOMAIN windows :
                                                      windows[i].window.channel = <<c>>})
    /\ IsOf("Compare") => tried.out = Edits(tried.in[1], tried.in[2])
    /\ IsOf("ShowStream") /\ tried.out.ok =>
         LET events == tried.in
             client == tried.out.value.client
             Cuts(i) == {k \in DOMAIN events : events[k].kind = "words" /\ events[k].from <= i - 1}
             LastOf(S) == CHOOSE k \in S : \A l \in S : l <= k
         IN  \A i \in DOMAIN client :
               LET by == LastOf(Cuts(i))
                   word == events[by].words[i - events[by].from]
               IN  /\ [client[i] EXCEPT !.stable = FALSE] = word
                   /\ client[i].stable <=>
                        \E k \in (by + 1)..Len(events) :
                          events[k].kind # "words" /\ events[k].upto >= i

Fresh == tried = Nothing
Next ==
    \/ Fresh /\ Transform
    \/ Fresh /\ Analyse
    \/ Fresh /\ Narrowing
    \/ Fresh /\ Detect
    \/ Fresh /\ Recognize
    \/ Fresh /\ Transduce
    \/ Fresh /\ TranscribeAlone
    \/ Fresh /\ TranscribeTogether
    \/ Fresh /\ Converse
    \/ Fresh /\ Take
    \/ Fresh /\ Compare
    \/ Fresh /\ OpenGraph
    \/ Fresh /\ OpenPackage
    \/ Fresh /\ BindPolicy
    \/ Fresh /\ BindQuery
    \/ Fresh /\ AskChannels
    \/ Fresh /\ ReadDuration
    \/ Fresh /\ ReadOptions
    \/ Fresh /\ ReadForm
    \/ Fresh /\ RunCommand
    \/ Fresh /\ RunRequest
    \/ Fresh /\ AnswerRequest
    \/ Fresh /\ SendStep
    \/ Fresh /\ MeasureLatency
    \/ Fresh /\ WriteEvidence
    \/ Fresh /\ ShowStream
Spec == Fresh /\ [][Next]_tried
================================================================================
