-------------------------------- MODULE Requests --------------------------------
(***************************************************************************)
(* How the service reads a request and what it answers: the query grammar   *)
(* (service/src/protocol.rs), the batch query (http.rs), the multipart form  *)
(* (openai.rs), the stream query (ws.rs), the refusals of run_batch, the     *)
(* bodies (response.rs, stream_response.rs) and what metrics.rs counts.      *)
(***************************************************************************)
EXTENDS CommandLine

CONSTANTS
  LeastRate, MostRate,   \* of a stream: 8000 and 192000
  LeastBatchRate,        \* 4000
  MaxFactor,             \* of a resampling ratio
  MostChannels,          \* MAX_CHANNELS
  MostFields,            \* 16, of a form
  Utf8(_),               \* whether bytes are text
  TextOf(_)              \* and the text they are, "" when there are none

Rates == INSTANCE Resampling

----------------------------------------------------------------------------
(* The grammar: parts between ampersands, each [key, value], bytes before   *)
(* and after the first equals sign, value <<>> where there is none.         *)

HexValue(byte) ==
    CASE byte \in 48..57  -> byte - 48
      [] byte \in 97..102 -> byte - 87
      [] byte \in 65..70  -> byte - 55
      [] OTHER            -> -1

\* percent_decode: an escape is complete and of hexadecimal digits, and what
\* comes of it all is text.
PercentDecode(bytes) ==
    LET Read(state, byte) ==
          IF ~state.ok THEN state
          ELSE LET s == state.value IN
            IF s.escape # <<>>
              THEN IF HexValue(byte) < 0 THEN Refused
                   ELSE IF Len(s.escape) = 1 THEN Ok([s EXCEPT !.escape = Append(@, HexValue(byte))])
                   ELSE Ok([out |-> Append(s.out, 16 * s.escape[2] + HexValue(byte)), escape |-> <<>>])
            ELSE IF byte = 37 THEN Ok([s EXCEPT !.escape = <<byte>>])
            ELSE Ok([s EXCEPT !.out = Append(@, IF byte = 43 THEN 32 ELSE byte)])
    IN  Then(FoldLeft(Read, Ok([out |-> <<>>, escape |-> <<>>]), bytes),
             LAMBDA s : IF s.escape # <<>> \/ ~Utf8(s.out) THEN Refused
                       ELSE Ok(TextOf(s.out)))

\* from_fields: names and values that are something, each name once.
FromFields(fields) ==
    IF \/ \E i \in DOMAIN fields : fields[i].key = "" \/ fields[i].value = ""
       \/ \E i, j \in DOMAIN fields : i # j /\ fields[i].key = fields[j].key
      THEN Refused
      ELSE Ok([key \in {fields[i].key : i \in DOMAIN fields} |->
                 fields[CHOOSE i \in DOMAIN fields : fields[i].key = key].value])

\* A part with both its sides decoded.
DecodePart(part) ==
    IF part.value = Unset THEN Refused
    ELSE Then(PercentDecode(part.key), LAMBDA key :
         Then(PercentDecode(part.value[1]), LAMBDA value : Ok([key |-> key, value |-> value])))

\* Mutated form of ParseQuery: names are compared as they are spelled.
ParseQueryUndecoded(raw) ==
    LET parts == IF raw = Unset THEN <<>> ELSE raw[1]
        Overriding(fields) ==
          Ok([key \in {fields[i].key : i \in DOMAIN fields} |->
                fields[CHOOSE i \in DOMAIN fields : fields[i].key = key].value])
    IN  IF \E i, j \in DOMAIN parts : i # j /\ parts[i].key = parts[j].key THEN Refused
        ELSE Then(Collected([i \in DOMAIN parts |-> DecodePart(parts[i])]), Overriding)

\* QueryParameters::parse; raw is <<>> where there is no query at all.
ParseQuery(raw) ==
    LET parts == IF raw = Unset THEN <<>> ELSE raw[1]
    IN  IF parts = <<[key |-> <<>>, value |-> Unset]>> THEN Ok(<<>>)
        ELSE Then(Collected([i \in DOMAIN parts |-> DecodePart(parts[i])]), FromFields)

----------------------------------------------------------------------------
(* What a query may say: p.values are its texts by name.                    *)

Known(p, accepted) == DOMAIN p.values \subseteq accepted          \* reject_unknown

\* query_bool.
Truth(p, key, default) ==
    LET given == Value(p, key) IN
    IF given = Unset THEN Ok(default)
    ELSE IF given[1] \in {"1", "true"} THEN Ok(TRUE)
    ELSE IF given[1] \in {"0", "false"} THEN Ok(FALSE) ELSE Refused

\* query_finite_f32.
FiniteNumber(p, key, default) == NumberThat(p, key, default, Int)

\* query_milliseconds_as_seconds.
MillisecondsAsSeconds(p, key, default) ==
    IF key \notin DOMAIN p.values THEN Ok(default)
    ELSE Then(NonnegativeNumber(p, key, 0), LAMBDA v : Ok(v \div 1000))

QueryVad == [speech |-> "vad_threshold", silence |-> "vad_neg_threshold",
             minimumSpeech |-> "vad_min_speech_ms", minimumSilence |-> "vad_min_silence_ms",
             padding |-> "vad_speech_pad_ms"]

\* bind_vad_policy.
BindVadPolicy(p, version) ==
    LET tuned == DOMAIN p.values \cap Names(QueryVad) # {}
        vad   == Value(p, "vad")
    IN  IF \/ version # 2 /\ (vad # Unset \/ tuned)
           \/ ~OneOf(vad, {"true", "false"})
           \/ vad # <<"true">> /\ tuned
          THEN Refused
        ELSE IF vad # <<"true">> THEN Ok(Unset)
        ELSE Then(VadArguments(p, QueryVad), LAMBDA v : Ok(<<v>>))

Extensions == {"wav", "flac", "ogg", "opus", "mp3", "aac", "m4a", "mp4", "mkv", "vorbis", "pcm"}

\* TranscribeQuery::parse.
BatchQuery(p) ==
    LET version == IF Value(p, "response_version") = <<"2">> THEN 2 ELSE 1
        values == AllOf([vad |-> BindVadPolicy(p, version), words |-> Truth(p, "words", FALSE),
                         segments |-> Truth(p, "segments", FALSE),
                         turns |-> Truth(p, "turns", FALSE),
                         turnGap |-> PositiveNumber(p, "turn_gap", Ticks)])
    IN  IF \/ ~Known(p, {"model", "ext", "words", "segments", "turns", "turn_gap", "channels",
                         "response_version", "vad"} \union Names(QueryVad))
           \/ ~OneOf(Value(p, "response_version"), {"1", "2"})
           \/ ~OneOf(Value(p, "model"), {"ctc", "rnnt"})
           \/ ~OneOf(Value(p, "ext"), Extensions)
           \/ ~OneOf(Value(p, "channels"), {"split"})
          THEN Refused
        ELSE Then(values, LAMBDA v :
                Ok(v @@ [version |-> version, extension |-> Value(p, "ext"),
                         model |-> IF Value(p, "model") = Unset THEN "ctc" ELSE p.values["model"],
                         split |-> Value(p, "channels") # Unset]))

\* StreamQuery::parse: as the command line binds a policy, on the service's own
\* base, every timing value given or taken from it.
StreamQuery(p, defaults) ==
    LET base == defaults.base.values
        rate == IF "rate" \in DOMAIN p.values THEN Unsigned(p.values["rate"]) ELSE -1
        channels == CountFrom(p, "channels", 1, 1)
        endpoint == Value(p, "endpoint")
        rules == AllOf([afterSpeech |-> MillisecondsAsSeconds(p, "silence_ms", base.rules.afterSpeech),
                        withoutSpeech |-> MillisecondsAsSeconds(p, "no_speech_ms",
                                                                base.rules.withoutSpeech)])
        Change(changes, field, read) ==
            Then(changes, LAMBDA c : Then(read, LAMBDA v : WithChange(c, field, v)))
        changes == Change(Change(Change(Change(Change(Change(Ok(<<>>),
                      "window", FiniteNumber(p, "window", base.window)),
                      "overlap", FiniteNumber(p, "overlap", base.overlap)),
                      "step", MillisecondsAsSeconds(p, "step_ms", base.step)),
                      "horizon", FiniteNumber(p, "horizon", 5 * Ticks)),
                      "seamAfter", FiniteNumber(p, "seam_after", base.seamAfter)),
                      "silence", FiniteNumber(p, "keep_silence", base.silence))
        WithRead(config, field, read) ==
            Then(config, LAMBDA c : Then(read, LAMBDA v : With(c, field, v)))
        lock == Then(Truth(p, "lock", FALSE), LAMBDA on : Ok(IF on THEN "CommitStable" ELSE "Advisory"))
        timed == Then(changes, LAMBDA c : Apply(c, defaults.base))
        ruled == WithRead(WithRead(WithRead(timed, "rules", rules), "lock", lock),
                       "endpoint", Ok(IF endpoint = <<"vad">> THEN "Vad" ELSE "Blank"))
        tuned == IF "vad_threshold" \notin DOMAIN p.values THEN ruled
                 ELSE WithRead(ruled, "vadThreshold", Then(FractionNumber(p, "vad_threshold", 0),
                                                        LAMBDA v : Ok(InPercent(v))))
        rest == AllOf([config |-> tuned, turnGap |-> PositiveNumber(p, "turn_gap", (8 * Ticks) \div 10),
                       backchannel |-> NonnegativeNumber(p, "backchannel_max_ms",
                                                         1000 * defaults.backchannel),
                       dedup |-> Truth(p, "dedup", defaults.dedup),
                       applied |-> Truth(p, "applied_config", FALSE)])
    IN  IF \/ ~Known(p, {"model", "rate", "fmt", "channels", "emit", "endpoint", "vad_threshold",
                         "silence_ms", "no_speech_ms", "window", "overlap", "step_ms", "horizon",
                         "lock", "seam_after", "keep_silence", "applied_config", "turn_gap",
                         "dedup", "backchannel_max_ms"})
           \/ ~OneOf(Value(p, "model"), {"ctc"}) \/ rate \notin LeastRate..MostRate
           \/ ~OneOf(Value(p, "fmt"), {"pcm16", "f32", "ulaw", "alaw"})
           \/ ~channels.ok \/ ~OneOf(Value(p, "emit"), {"turns", "words", "both"})
           \/ ~OneOf(endpoint, {"blank", "vad"})
           \/ "vad_threshold" \in DOMAIN p.values /\ endpoint # <<"vad">>
          THEN Refused
        ELSE IF \/ channels.value > MostChannels \/ ~Rates!RatePair(rate, defaults.base.rate).ok
                \/ channels.value = 1 /\ "dedup" \in DOMAIN p.values
          THEN Refused
        ELSE Then(rest, LAMBDA v :
                Ok([v EXCEPT !.backchannel = @ \div 1000, !.dedup = @ /\ channels.value > 1]
                   @@ [rate |-> rate, channels |-> channels.value,
                       emit |-> IF Value(p, "emit") = Unset THEN "turns" ELSE p.values["emit"]]))

\* multi_channel_setup: what the query asks of the channels.
MultiChannelSetup(q) ==
    [policy |-> IF q.dedup THEN "Deduplicate" ELSE "AllChannels",
     backchannel |-> IF q.backchannel = 0 THEN Unset ELSE <<q.backchannel>>]

\* parse_control: the tokens of the one frame there is, blanks between them.
ParseControl(tokens) == SelectSeq(tokens, LAMBDA t : t # " ") = <<"{", "type", ":", "end", "}">>

----------------------------------------------------------------------------
(* The form of the other interface: fields [name, text, extension].         *)

ModelOf(rnnt) == ("gigaam-v3" :> "ctc") @@ ("gigaam-v3-ctc" :> "ctc")
                 @@ (IF rnnt THEN "gigaam-v3-rnnt" :> "rnnt" ELSE <<>>)
Granularity == "timestamp_granularities[]"

\* One field of parse_fields: what it says is refused at once, or kept.
FieldAccepted(field, rnnt) ==
    CASE field.name = "file"            -> field.text # ""
      [] field.name = "model"           -> field.text \in DOMAIN ModelOf(rnnt)
      [] field.name = "response_format" -> field.text \in {"json", "text", "verbose_json"}
      [] field.name = Granularity       -> field.text \in {"word", "segment"}
      [] field.name = "language"        -> field.text = "ru"
      [] field.name = "temperature"     -> Decimal(field.text) = <<0>>
      [] field.name = "stream"          -> field.text = "false"
      [] field.name = "prompt"          -> field.text = ""
      [] OTHER -> field.name \in {"vad"} \union Names(QueryVad)

\* parse_openai_multipart and parse_fields.
ParseForm(fields, rnnt) ==
    LET Read(state, field) ==
          IF ~state.ok THEN state
          ELSE IF \/ Len(state.value) >= MostFields \/ ~FieldAccepted(field, rnnt)
                  \/ \E i \in DOMAIN state.value :
                       /\ state.value[i].name = field.name
                       /\ field.name = Granularity => state.value[i].text = field.text
            THEN Refused ELSE Ok(Append(state.value, field))
    IN  Then(FoldLeft(Read, Ok(<<>>), fields), LAMBDA read :
        LET named == [name \in {read[i].name : i \in DOMAIN read} |->
                        CHOOSE t \in {read[i].text : i \in DOMAIN read} :
                          \E i \in DOMAIN read : read[i].name = name /\ read[i].text = t]
            asked   == {read[i].text : i \in {j \in DOMAIN read : read[j].name = Granularity}}
            verbose == "response_format" \in DOMAIN named /\ named["response_format"] = "verbose_json"
            fieldsOfVad == SelectSeq(read, LAMBDA f : f.name \in {"vad"} \union Names(QueryVad))
            vad == Then(FromFields([i \in DOMAIN fieldsOfVad |->
                            [key |-> fieldsOfVad[i].name, value |-> fieldsOfVad[i].text]]),
                        LAMBDA values : BindVadPolicy([values |-> values], 2))
        IN  IF (asked # {} /\ ~verbose) \/ ~({"file", "model"} \subseteq DOMAIN named) THEN Refused
            ELSE Then(vad, LAMBDA v :
                Ok([model |-> ModelOf(rnnt)[named["model"]], vad |-> v,
                    format |-> IF "response_format" \in DOMAIN named THEN named["response_format"]
                               ELSE "json",
                    word |-> "word" \in asked,
                    segment |-> "segment" \in asked \/ (verbose /\ asked = {})])))

----------------------------------------------------------------------------
(* The work of an admitted request.                                         *)

\* TranscribeError::status.
StatusOf(error) == IF error = "Unavailable" THEN 503 ELSE 400

\* The first stage that fails gives the error; a detector is built by then or not.
RunStages(stages) ==
    LET failing == {i \in DOMAIN stages : ~stages[i].holds}
        first   == CHOOSE i \in failing : \A j \in failing : i <= j
        built   == {i \in DOMAIN stages : stages[i].builds /\ (failing = {} \/ i < first)}
    IN  [status |-> IF failing = {} THEN 200 ELSE StatusOf(stages[first].error),
         detector |-> built # {}]
Stage(holds, error) == [holds |-> holds, error |-> error, builds |-> FALSE]

\* run_batch: scored is how the form is answered; w is what the package, the audio
\* and the models answer.
RunBatch(query, scored, w) ==
    LET detects == query.vad \/ scored
    IN  RunStages(<<
            Stage(query.model = "rnnt" => w.rnnt, "UnsupportedCapability"),
            Stage(detects => w.modelRate = VadRate, "UnsupportedCapability"),
            Stage(detects => w.vadAsset, "UnsupportedCapability"),
            Stage(w.decodes, "BadRequest"),
            Stage(w.rate \in LeastBatchRate..MostRate, "BadRequest"),
            Stage(w.channels > 0, "BadRequest"),
            Stage(w.rate \in LeastBatchRate..MostRate => Rates!RatePair(w.rate, w.modelRate).ok, "BadRequest"),
            [holds |-> detects => w.detector, error |-> "Unavailable", builds |-> detects],
            Stage(w.transcribes, "Unavailable")>>)

----------------------------------------------------------------------------
(* What is answered: texts are the words of a channel.                      *)

\* http_batch_channel_policy.
BatchChannelPolicy(options) ==
    IF options.split \/ options.turns THEN "PerChannel" ELSE "SingleOutput"

\* transcribe_response; what is not asked for is absent, which is <<>> here.
TranscribeResponse(options, result) ==
    LET multi == Len(result.channels) > 1
        Item(c, word) == [word |-> word, channel |-> IF multi THEN <<c.channel>> ELSE Unset]
    IN  [text  |-> IF options.split /\ multi THEN Unset ELSE <<result.channels[1].words>>,
         texts |-> IF options.split /\ multi
                     THEN <<[k \in DOMAIN result.channels |-> result.channels[k].words]>> ELSE Unset,
         words |-> IF options.words
                     THEN <<FlattenSeq([k \in DOMAIN result.channels |->
                               [i \in DOMAIN result.channels[k].words |->
                                  Item(result.channels[k], result.channels[k].words[i])]])>>
                   ELSE Unset,
         segments |-> IF options.segments THEN <<result.segments>> ELSE Unset,
         turns |-> IF options.turns /\ multi THEN <<result.turns>> ELSE Unset]

\* serialize_step: a group's events in order, then its patch.
SerializeStep(groups, sources) ==
    FlattenSeq([g \in DOMAIN groups |->
        [i \in DOMAIN groups[g].events |->
            [event |-> groups[g].events[i].event,
             channel |-> IF sources = 1 THEN Unset ELSE <<groups[g].events[i].channel>>]]
        \o [i \in DOMAIN groups[g].patch |->
            [event |-> groups[g].patch[i], channel |-> Unset]]])

----------------------------------------------------------------------------
(* Hist::observe: buckets are cumulative, what is no latency is counted apart. *)

EmptyHistogram(bounds) == [buckets |-> [b \in bounds |-> 0], count |-> 0, sum |-> 0,
                           nonFinite |-> 0, negative |-> 0]
ObserveLatency(h, seconds) ==
    IF seconds = NotFinite THEN [h EXCEPT !.nonFinite = @ + 1]
    ELSE IF seconds < 0 THEN [h EXCEPT !.negative = @ + 1]
    ELSE [h EXCEPT !.count = @ + 1, !.sum = @ + seconds,
                   !.buckets = [b \in DOMAIN @ |-> @[b] + (IF seconds <= b THEN 1 ELSE 0)]]
================================================================================
