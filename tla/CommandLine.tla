------------------------------ MODULE CommandLine ------------------------------
(***************************************************************************)
(* The grammar of the gigaam command (cli/src/grammar.rs): which options a  *)
(* command takes, what they may say, and the policies bound from them once  *)
(* the model's rate is known. An argument is a text; a number counts Ticks  *)
(* of its unit, whatever the unit of the option.                            *)
(***************************************************************************)
EXTENDS Configuration

CONSTANTS
  Dashed,       \* the texts that start with -
  DoubleDashed, \* those that start with --
  Decimal(_)    \* <<v>> when a text spells a number v, maybe NotFinite

Runtime == {"--model", "--ep", "--ort-dylib"}
StreamTiming == {"--step-ms", "--horizon", "--window", "--overlap", "--endpoint",
                 "--silence-ms", "--no-speech-ms", "--vad-threshold", "--seam-after",
                 "--keep-silence"}
BatchVad == [speech |-> "--vad-threshold", silence |-> "--vad-neg-threshold",
             minimumSpeech |-> "--vad-min-speech-ms",
             minimumSilence |-> "--vad-min-silence-ms", padding |-> "--vad-speech-pad-ms"]
StandaloneVad == [speech |-> "--threshold", silence |-> "--neg-threshold",
                  minimumSpeech |-> "--min-speech-ms",
                  minimumSilence |-> "--min-silence-ms", padding |-> "--speech-pad-ms"]
Names(record) == {record[f] : f \in DOMAIN record}

\* value_option and flag_option.
ValueOptions == [
    transcribe |-> Runtime \union Names(BatchVad)
                   \union {"--window", "--overlap", "--turn-gap", "--evidence",
                           "--evidence-version"},
    bench      |-> Runtime \union {"--audio", "--window", "--iters", "--gap-ms", "--alt-window"},
    stream     |-> Runtime \union StreamTiming \union {"--chunk-ms", "--ref"},
    vad        |-> {"--model", "--ort-dylib", "--channels"} \union Names(StandaloneVad),
    dialog     |-> Runtime \union StreamTiming \union {"--turn-gap", "--backchannel-max-ms"}]
FlagOptions == [
    transcribe |-> {"--fp16", "--rnnt", "--pad", "--words", "--split-channels", "--turns",
                    "--vad"},
    bench      |-> {"--fp16"},
    stream     |-> {"--fp16", "--lock", "--events", "--applied-config"},
    vad        |-> {},
    dialog     |-> {"--no-dedup", "--lock", "--applied-config"}]

\* parse_options: what is no option of this command is refused, and so is an
\* option given again; a value may start with one dash, not with two.
ParseOptions(command, args) ==
    LET needsFile == command # "bench"
        Read(state, text) ==
          IF ~state.ok THEN state
          ELSE LET p == state.value IN
            IF p.awaiting # ""
              THEN IF text = "" \/ text \in DoubleDashed THEN Refused
                   ELSE Ok([p EXCEPT !.awaiting = "", !.values = (p.awaiting :> text) @@ @])
            ELSE IF text \in DOMAIN p.values \union p.flags THEN Refused
            ELSE IF text \in ValueOptions[command] THEN Ok([p EXCEPT !.awaiting = text])
            ELSE IF text \in FlagOptions[command]
              THEN Ok([p EXCEPT !.flags = @ \union {text}])
            ELSE Refused
        start == [input |-> IF needsFile THEN <<args[1]>> ELSE Unset,
                  values |-> <<>>, flags |-> {}, awaiting |-> ""]
    IN  IF needsFile /\ (args = <<>> \/ Head(args) \in Dashed \union {""}) THEN Refused
        ELSE Then(FoldLeft(Read, Ok(start), IF needsFile THEN Tail(args) ELSE args),
                  LAMBDA p : IF p.awaiting # "" THEN Refused ELSE Ok(p))

----------------------------------------------------------------------------
(* Values.                                                                  *)

Value(p, option) == IF option \in DOMAIN p.values THEN <<p.values[option]>> ELSE Unset

\* positive_f32, nonnegative_f32 and bounded_f32; a default is not looked at.
NumberThat(p, option, default, accepted) ==
    IF option \notin DOMAIN p.values THEN Ok(default)
    ELSE LET number == Decimal(p.values[option]) IN
         IF number = Unset THEN Refused
         ELSE IF number[1] = NotFinite THEN Refused
         ELSE IF number[1] \in accepted THEN Ok(number[1]) ELSE Refused
PositiveNumber(p, option, default)    == NumberThat(p, option, default, Nat \ {0})
NonnegativeNumber(p, option, default) == NumberThat(p, option, default, Nat)
FractionNumber(p, option, default)    ==
    NumberThat(p, option, default, 0..Ticks)

\* positive_usize and nonnegative_u64.
CountFrom(p, option, default, least) ==
    IF option \notin DOMAIN p.values THEN Ok(default)
    ELSE IF Unsigned(p.values[option]) < least THEN Refused
    ELSE Ok(Unsigned(p.values[option]))

\* An optional value: <<>> where the option is not given.
Optional(p, option, read) ==
    IF option \notin DOMAIN p.values THEN Ok(Unset)
    ELSE Then(read, LAMBDA v : Ok(<<v>>))

InPercent(v) == (100 * v) \div Ticks

\* A record of results, and the record of their values.
AllOf(record) ==
    IF \E f \in DOMAIN record : ~record[f].ok THEN Refused
    ELSE Ok([f \in DOMAIN record |-> record[f].value])

\* vad_policy; the defaults of VadPolicyConfig.
VadArguments(p, names) ==
    Then(AllOf([speech  |-> FractionNumber(p, names.speech, Ticks \div 2),
                silence |-> FractionNumber(p, names.silence, (35 * Ticks) \div 100),
                minimumSpeech  |-> NonnegativeNumber(p, names.minimumSpeech, 250 * Ticks),
                minimumSilence |-> NonnegativeNumber(p, names.minimumSilence, 100 * Ticks),
                padding |-> NonnegativeNumber(p, names.padding, 30 * Ticks)]),
         LAMBDA v : IF v.silence > v.speech THEN Refused ELSE Ok(v))

\* VadPolicyArguments::bind: counts of samples at the rate of the detector.
BindVad(arguments) ==
    LET Samples(field) == SampleCount(arguments[field], VadRate, "VadMilliseconds")
        fields == {"minimumSpeech", "minimumSilence", "padding"}
    IN  Then(AllOf([f \in fields \union {"twice"} |->
                      IF f # "twice" THEN Samples(f)
                      ELSE Then(Samples("padding"), LAMBDA n : Doubled(n, "VadMilliseconds"))]),
             LAMBDA counts : Ok([speech |-> InPercent(arguments.speech),
                                 silence |-> InPercent(arguments.silence)] @@ counts))

\* vad_channels: index texts between commas, each a number of digits only.
VadChannels(indices) ==
    IF indices = Unset THEN Ok([kind |-> "first", indices |-> {}])
    ELSE IF indices[1] = <<"all">> THEN Ok([kind |-> "all", indices |-> {}])
    ELSE IF \/ \E i \in DOMAIN indices[1] : Unsigned(indices[1][i]) < 0
            \/ \E i, j \in DOMAIN indices[1] :
                 i # j /\ Unsigned(indices[1][i]) = Unsigned(indices[1][j])
      THEN Refused
    ELSE Ok([kind |-> "selected", indices |-> {Unsigned(text) : text \in ToSet(indices[1])}])

Indices(S) == SetToSortSeq(S, LAMBDA i, j : i < j)

\* VadChannels::resolve.
ResolveChannels(channels, count) ==
    LET selected == CASE channels.kind = "first" -> {0}
                      [] channels.kind = "all" -> 0..(count - 1)
                      [] channels.kind = "selected" -> channels.indices
    IN  IF count = 0 \/ selected = {} \/ ~(selected \subseteq 0..(count - 1)) THEN Refused
        ELSE Ok(Indices(selected))

\* stream_policy.
StreamArguments(p, horizon) ==
    LET endpoint == Value(p, "--endpoint")
        Given0(option) == Optional(p, option, NonnegativeNumber(p, option, 0))
        values == AllOf([
            window  |-> PositiveNumber(p, "--window", 30 * Ticks),
            overlap |-> NonnegativeNumber(p, "--overlap", 6 * Ticks),
            step    |-> PositiveNumber(p, "--step-ms", 500 * Ticks),
            horizon |-> PositiveNumber(p, "--horizon", horizon * Ticks),
            silence |-> Given0("--silence-ms"), noSpeech |-> Given0("--no-speech-ms"),
            seamAfter |-> Given0("--seam-after"), keep |-> Given0("--keep-silence"),
            vadThreshold |-> Optional(p, "--vad-threshold",
                                      FractionNumber(p, "--vad-threshold", 0))])
    IN  IF \/ ~OneOf(endpoint, {"blank", "vad"})
           \/ "--vad-threshold" \in DOMAIN p.values /\ endpoint # <<"vad">>
          THEN Refused
        ELSE Then(values, LAMBDA v :
                IF v.overlap >= v.window THEN Refused
                ELSE Ok([v EXCEPT !.step = @ \div 1000] @@
                        [endpoint |-> IF endpoint = <<"vad">> THEN "Vad" ELSE "Blank",
                         lock |-> IF "--lock" \in p.flags THEN "CommitStable"
                                  ELSE "Advisory"]))

\* Mutated form of BindStream: each timing value is checked as it is set.
BindStreamOneByOne(arguments, rate) ==
    Then(StreamConfig(rate, DefaultStreamValues), LAMBDA c1 :
    Then(With(c1, "window", arguments.window), LAMBDA c2 :
    Then(With(c2, "overlap", arguments.overlap), LAMBDA c3 :
    Then(With(c3, "step", arguments.step), LAMBDA c4 :
    Then(With(c4, "horizon", arguments.horizon), LAMBDA c5 :
    Then(With(c5, "lock", arguments.lock), LAMBDA c6 :
         With(c6, "endpoint", arguments.endpoint)))))))

\* StreamPolicyArguments::bind: the timing is changed at once, as the defaults
\* need not agree with a part of it; then the rest, one value at a time.
BindStream(arguments, rate) ==
    LET Change(changes, field, given) ==
          IF given = Unset THEN changes
          ELSE Then(changes, LAMBDA c : WithChange(c, field, given[1]))
        changes == Change(Change(Change(Change(Change(Change(Ok(<<>>),
                      "window", <<arguments.window>>), "overlap", <<arguments.overlap>>),
                      "step", <<arguments.step>>), "horizon", <<arguments.horizon>>),
                      "seamAfter", arguments.seamAfter), "silence", arguments.keep)
        Rule(given, default) == IF given = Unset THEN default ELSE given[1] \div 1000
        defaults == DefaultStreamValues.rules
        rules == [afterSpeech   |-> Rule(arguments.silence, defaults.afterSpeech),
                  withoutSpeech |-> Rule(arguments.noSpeech, defaults.withoutSpeech)]
        AndWith(config, field, value) == Then(config, LAMBDA c : With(c, field, value))
        threshold == arguments.vadThreshold
        timed  == Then(StreamConfig(rate, DefaultStreamValues), LAMBDA base :
                  Then(changes, LAMBDA c : Apply(c, base)))
        ruled  == AndWith(AndWith(timed, "lock", arguments.lock), "rules", rules)
        tuned  == IF threshold = Unset THEN ruled
                  ELSE AndWith(ruled, "vadThreshold", InPercent(threshold[1]))
    IN  AndWith(tuned, "endpoint", arguments.endpoint)

----------------------------------------------------------------------------
(* Commands.                                                                *)

Common(p) == [input |-> p.input, model |-> Value(p, "--model"), ep |-> Value(p, "--ep"),
              dylib |-> Value(p, "--ort-dylib"), fp16 |-> "--fp16" \in p.flags]

\* transcribe.
TranscribeArguments(p) ==
    LET version == Value(p, "--evidence-version")
        evidence == Value(p, "--evidence")
        values == AllOf([window |-> PositiveNumber(p, "--window", 30 * Ticks),
                         overlap |-> NonnegativeNumber(p, "--overlap", 6 * Ticks),
                         turnGap |-> PositiveNumber(p, "--turn-gap", Ticks),
                         vad |-> IF "--vad" \in p.flags
                                   THEN Then(VadArguments(p, BatchVad), LAMBDA v : Ok(<<v>>))
                                 ELSE Ok(Unset)])
    IN  IF \/ {"--words", "--turns"} \subseteq p.flags
           \/ version # Unset /\ evidence = Unset
           \/ ~OneOf(version, {"1", "2"})
           \/ "--vad" \notin p.flags /\ DOMAIN p.values \cap Names(BatchVad) # {}
          THEN Refused
        ELSE Then(values, LAMBDA v :
                IF v.overlap >= v.window THEN Refused
                ELSE Ok(Common(p) @@ v @@
                        [words |-> "--words" \in p.flags, turns |-> "--turns" \in p.flags,
                         split |-> "--split-channels" \in p.flags,
                         padding |-> IF "--pad" \in p.flags THEN "PadToWindow" ELSE "Exact",
                         decoder |-> IF "--rnnt" \in p.flags THEN "rnnt" ELSE "ctc",
                         evidence |-> evidence,
                         version |-> IF version = <<"2">> THEN 2 ELSE 1]))

\* bench.
BenchArguments(p) ==
    Then(AllOf([window |-> PositiveNumber(p, "--window", 30 * Ticks),
                alternate |-> Optional(p, "--alt-window", PositiveNumber(p, "--alt-window", 0)),
                iterations |-> CountFrom(p, "--iters", 20, 1),
                gap |-> CountFrom(p, "--gap-ms", 0, 0)]),
         LAMBDA v : Ok([Common(p) EXCEPT !.input = Value(p, "--audio")] @@ v))

\* stream.
StreamInvocation(p) ==
    Then(AllOf([policy |-> StreamArguments(p, 4), chunk |-> CountFrom(p, "--chunk-ms", 100, 1)]),
         LAMBDA v : Ok(Common(p) @@ v @@
             [reference |-> Value(p, "--ref"), events |-> "--events" \in p.flags,
              applied |-> "--applied-config" \in p.flags]))

\* vad; indices is what --channels lists.
VadInvocation(p, indices) ==
    Then(AllOf([policy |-> VadArguments(p, StandaloneVad), channels |-> VadChannels(indices)]),
         LAMBDA v : Ok(Common(p) @@ v))

\* dialog.
DialogInvocation(p) ==
    Then(AllOf([turnGap |-> PositiveNumber(p, "--turn-gap", (8 * Ticks) \div 10),
                policy |-> StreamArguments(p, 5),
                backchannel |-> NonnegativeNumber(p, "--backchannel-max-ms", 0)]),
         LAMBDA v : Ok(Common(p) @@ v @@
             [dedup |-> "--no-dedup" \notin p.flags,
              applied |-> "--applied-config" \in p.flags]))

\* parse_text and parse: arguments that are no text are a failure of their own.
ParseText(utf8, args, indices) ==
    IF ~utf8 THEN Err("arguments")
    ELSE IF args = <<>> \/ Head(args) \notin DOMAIN ValueOptions THEN Err("grammar")
    ELSE LET parsed == Then(ParseOptions(Head(args), Tail(args)), LAMBDA p :
                 CASE Head(args) = "transcribe" -> TranscribeArguments(p)
                   [] Head(args) = "bench"  -> BenchArguments(p)
                   [] Head(args) = "stream" -> StreamInvocation(p)
                   [] Head(args) = "vad"    -> VadInvocation(p, indices)
                   [] Head(args) = "dialog" -> DialogInvocation(p))
         IN  IF parsed.ok THEN Ok([command |-> Head(args), invocation |-> parsed.value])
             ELSE Err("grammar")
================================================================================
