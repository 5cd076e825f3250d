----------------------------- MODULE Configuration -----------------------------
(***************************************************************************)
(* Durations and the policies made of them (transcription/src/contracts.rs, *)
(* endpoint.rs), and what the service process reads at its start            *)
(* (service/src/config.rs) with the policy and context assembled from it    *)
(* (admission.rs, context.rs). A duration counts ticks, Ticks of them in a  *)
(* second; NotFinite is one that is no number. A setting is <<>> when the   *)
(* environment lacks it.                                                    *)
(***************************************************************************)
EXTENDS Provider

CONSTANTS
  Ticks,          \* per second
  VadRate,        \* VAD_SR
  MostSamples,    \* the largest usize
  Places,         \* decimal places of a duration: 9
  MaxTick,        \* the longest duration: u64 nanoseconds
  MaxPermits,     \* Semaphore::MAX_PERMITS
  MaxMegabytes,   \* usize::MAX / BYTES_PER_MEBIBYTE
  Unsigned(_)     \* the number a text spells, -1 when it spells none

----------------------------------------------------------------------------
(* Durations, and the policies of recordings and streams.                   *)

Nonnegative(v) == v # NotFinite /\ v >= 0
Positive(v)    == v # NotFinite /\ v > 0
Probability(v) == v # NotFinite /\ v \in 0..100     \* VadProbability, in percent

\* value_rule, zero_rule and unit of a TemporalField.
PositiveFields == {"BatchWindow", "StreamWindow", "StreamStep"}
SecondsFields  == PositiveFields \union {"StreamOverlapRetention", "StreamRetainedSilence"}

\* temporal_sample_count: whole samples only, and at least one of a duration
\* that has to be positive.
SampleCount(value, rate, field) ==
    LET samples == IF field \in SecondsFields THEN (value * rate) \div Ticks
                   ELSE (value * rate) \div (1000 * Ticks)
    IN  IF \/ field \in PositiveFields /\ ~Positive(value)
           \/ field \notin PositiveFields /\ ~Nonnegative(value)
           \/ samples > MostSamples
           \/ field \in PositiveFields /\ samples = 0
          THEN Refused ELSE Ok(samples)

\* doubled_temporal_sample_count.
Doubled(samples, field) ==
    IF 2 * samples > MostSamples \/ (field \in PositiveFields /\ samples = 0)
      THEN Refused ELSE Ok(2 * samples)

\* BatchConfig::new.
BatchConfig(rate, window, overlap, padding) ==
    Then(SampleCount(window, rate, "BatchWindow"), LAMBDA samples :
        IF ~Nonnegative(overlap) \/ overlap >= window THEN Refused
        ELSE Ok([rate |-> rate, window |-> window, overlap |-> overlap,
                 padding |-> padding, samples |-> samples]))

\* EndpointRules::new.
ValidRules(rules) == Nonnegative(rules.afterSpeech) /\ Nonnegative(rules.withoutSpeech)

\* StreamConfig::new: the checks and the sample counts of all the durations.
StreamConfig(rate, values) ==
    LET full  == SampleCount(values.window, rate, "StreamWindow")
        step  == SampleCount(values.step, rate, "StreamStep")
        keep  == SampleCount(values.overlap, rate, "StreamOverlapRetention")
        quiet == SampleCount(values.silence, rate, "StreamRetainedSilence")
    IN  IF \/ ~Positive(values.window) \/ ~Nonnegative(values.overlap)
           \/ values.overlap >= values.window
           \/ ~Positive(values.horizon) \/ ~Nonnegative(values.seamAfter)
           \/ ~ValidRules(values.rules)
           \/ values.endpoint = "Vad" /\ rate # VadRate
           \/ \E count \in {full, step, keep, quiet} : ~count.ok
          THEN Refused
          ELSE Ok([rate |-> rate, values |-> values, full |-> full.value,
                   step |-> step.value, keep |-> keep.value, quiet |-> quiet.value])

\* checked_default.
DefaultStreamValues ==
    [endpoint |-> "Blank", vadThreshold |-> 50, window |-> 30 * Ticks, overlap |-> 6 * Ticks,
     step |-> Ticks \div 2, horizon |-> 5 * Ticks, lock |-> "Advisory",
     seamAfter |-> 2 * Ticks, silence |-> Ticks \div 2,
     rules |-> [afterSpeech |-> (12 * Ticks) \div 10, withoutSpeech |-> (24 * Ticks) \div 10]]

\* with_endpoint_source, with_horizon_sec, ...: one value at a time, the whole
\* checked again.
With(config, field, value) ==
    StreamConfig(config.rate, [config.values EXCEPT ![field] = value])

\* StreamTimingChanges: each value is checked alone when it is given, ...
TimingRule == [window |-> "Positive", overlap |-> "Nonnegative", step |-> "Positive",
               horizon |-> "Positive", seamAfter |-> "Nonnegative", silence |-> "Nonnegative"]
WithChange(changes, field, value) ==
    IF IF TimingRule[field] = "Positive" THEN Positive(value) ELSE Nonnegative(value)
      THEN Ok([f \in DOMAIN changes \union {field} |->
                 IF f = field THEN value ELSE changes[f]])
      ELSE Refused

\* ... and all are applied at once.
Apply(changes, base) ==
    StreamConfig(base.rate,
        [f \in DOMAIN base.values |-> IF f \in DOMAIN changes THEN changes[f] ELSE base.values[f]])

----------------------------------------------------------------------------
(* Endpoints: silence.                                                       *)

\* trailing_silence.
TrailingSilence(mask, frames) ==
    LET upto == IF frames < Len(mask) THEN frames ELSE Len(mask)
    IN  CHOOSE n \in 0..upto :
          /\ \A i \in (upto - n + 1)..upto : mask[i]
          /\ n < upto => ~mask[upto - n]

\* detect; fps is in frames per second.
Detect(rules, mask, frames, fps, speech) ==
    LET silence == TrailingSilence(mask, frames) * Ticks
    IN  IF ~ValidRules(rules) \/ fps <= 0 THEN Refused
        ELSE IF speech = "Present" /\ silence >= rules.afterSpeech * fps THEN Ok("AfterSpeech")
        ELSE IF speech = "Absent" /\ silence >= rules.withoutSpeech * fps THEN Ok("NoSpeech")
        ELSE Ok("None")

\* segments: frames that are not silent, apart by more than the minimum gap.  A
\* range counts from 0 and excludes its end.
Segments(mask, minimumGap) ==
    LET spoken == {i \in 0..(Len(mask) - 1) : ~mask[i + 1]}
        Quiet(i, j) == \A k \in (i + 1)..(j - 1) : k \notin spoken
        starts == {i \in spoken : \A j \in spoken : j < i /\ Quiet(j, i) => i - j > minimumGap}
        Ending(i) == CHOOSE e \in spoken :
            /\ e >= i /\ \A k \in starts : k <= i \/ k > e
            /\ \A j \in spoken : j > e => \E k \in starts : k > e /\ k <= j
    IN  {<<i, Ending(i) + 1>> : i \in starts}

----------------------------------------------------------------------------
(* The command line of the service: texts, one after the other.             *)

Valued == {"--model", "--port", "--ep", "--ort-dylib"}
Flags  == {"--ctc-fp16", "--no-rnnt", "--rnnt-fp16"}

\* parse_cli, next_value, set_once, set_flag: whatever follows an option that
\* takes a value is its value, even a text that looks like an option.
ParseCli(args) ==
    LET Put(set, option, text) ==
          IF \/ option \in DOMAIN set
             \/ option = "--port" /\ Unsigned(text) \notin 1..65535
            THEN Refused ELSE Ok([awaiting |-> "", set |-> (option :> text) @@ set])
        Read(state, text) ==
          IF ~state.ok THEN state
          ELSE IF state.value.awaiting # ""
            THEN IF text = "" THEN Refused
                 ELSE Put(state.value.set, state.value.awaiting, text)
          ELSE IF text \in Valued THEN Ok([state.value EXCEPT !.awaiting = text])
          ELSE IF text \in Flags THEN Put(state.value.set, text, "")
          ELSE Refused
        read == FoldLeft(Read, Ok([awaiting |-> "", set |-> <<>>]), args)
    IN  Then(read, LAMBDA r : IF r.awaiting = "" THEN Ok(r.set) ELSE Refused)

Given(cli, option) == IF option \in DOMAIN cli THEN <<cli[option]>> ELSE Unset

\* configured_path: the two sources may agree, not compete, and one must name it.
ConfiguredPath(cli, env) ==
    IF env = <<"">> THEN Refused
    ELSE IF cli # Unset /\ env # Unset /\ cli # env THEN Err("conflict")
    ELSE IF cli # Unset THEN Ok(cli[1])
    ELSE IF env # Unset THEN Ok(env[1])
    ELSE Err("missing")

\* Startup::parse.
Startup(args, env) ==
    Then(ParseCli(args), LAMBDA cli :
        LET set      == DOMAIN cli
            device   == ResolveDevice(Given(cli, "--ep"), env.ep)
            config   == OrtConfig(env)
            required == IF "--no-rnnt" \in set THEN {"ctc"} ELSE Roles
            plan     == Then(device, LAMBDA d : Then(config, LAMBDA c :
                            ProviderPlan(d, c, required, env)))
            library  == ConfiguredPath(Given(cli, "--ort-dylib"), env.dylib)
        IN  IF \/ {"--no-rnnt", "--rnnt-fp16"} \subseteq set
               \/ ~OneOf(env.frontend, {"scalar", "batched"})
               \/ env.trace = <<"">>
              THEN Refused
            ELSE Then(plan, LAMBDA p : Then(library, LAMBDA l :
                Ok([model |-> Given(cli, "--model"), plan |-> p, library |-> l,
                    required |-> required,
                    port |-> IF "--port" \in set THEN Unsigned(cli["--port"]) ELSE 8080,
                    ctcFp16 |-> "--ctc-fp16" \in set, rnntFp16 |-> "--rnnt-fp16" \in set,
                    frontend |-> IF env.frontend = Unset THEN "scalar" ELSE env.frontend[1],
                    trace |-> env.trace # Unset]))))

----------------------------------------------------------------------------
(* Durations: [whole, fraction], the digits before the point and, when      *)
(* there is a point, those after it.  A character that is no digit is 10.   *)

TicksPerSecond      == 10^Places
TicksPerMillisecond == TicksPerSecond \div 1000

AreDigits(text) == text # <<>> /\ ToSet(text) \subseteq 0..9
Spelled(digits) == FoldLeft(LAMBDA n, d : 10 * n + d, 0, digits)
Halves(n, d)    == (n + d \div 2) \div d      \* n / d, halves upwards

\* NonnegativeDuration::parse.
Duration(text, unit) ==
    LET point == text.fraction # Unset
        whole == Spelled(text.whole) * unit
        part  == IF point THEN Halves(Spelled(text.fraction[1]) * unit,
                                      10^Len(text.fraction[1]))
                 ELSE 0
    IN  IF \/ ~AreDigits(text.whole)
           \/ point /\ (~AreDigits(text.fraction[1]) \/ Len(text.fraction[1]) > Places)
          THEN Refused
        ELSE IF whole + part > MaxTick THEN Refused ELSE Ok(whole + part)

\* PositiveDuration::parse_seconds.
PositiveSeconds(text) ==
    Then(Duration(text, TicksPerSecond), LAMBDA d : IF d = 0 THEN Refused ELSE Ok(d))

\* PositiveDuration::samples_at and SampleCount::new.
SamplesAt(duration, rate) ==
    LET samples == (duration \div TicksPerSecond) * rate
                   + Halves((duration % TicksPerSecond) * rate, TicksPerSecond)
    IN  IF samples > MostSamples \/ samples = 0 THEN Refused ELSE Ok(samples)

----------------------------------------------------------------------------
(* The limits of the server.                                                *)

\* required_positive_usize.
PositiveCount(setting, default) ==
    IF setting = Unset THEN Ok(default)
    ELSE IF setting[1] >= 1 THEN Ok(setting[1]) ELSE Refused

\* parse_optional_bool and parse_bool.
Truths == {"1", "true", "on"}
OptionalBool(setting, default) ==
    IF setting = Unset THEN Ok(default)
    ELSE IF setting[1] \in Truths THEN Ok(TRUE)
    ELSE IF setting[1] \in {"0", "false", "off"} THEN Ok(FALSE) ELSE Refused

\* finite_f32_value of a probability, in percent.
FinitePercent(setting, default) ==
    IF setting = Unset THEN Ok(default)
    ELSE IF Probability(setting[1]) THEN Ok(setting[1]) ELSE Refused

\* ServiceAdmission::new, with_uploads and with_api_policy.
AdmissionSettings(http, ws, uploads, timeout, uploadTimeout, mode) ==
    IF {http, ws, uploads} \subseteq 1..MaxPermits /\ 0 \notin {timeout, uploadTimeout}
      THEN Ok([http |-> http, ws |-> ws, uploads |-> uploads, timeout |-> timeout,
               uploadTimeout |-> uploadTimeout, mode |-> mode])
      ELSE Refused

\* ServerLimits::parse: every raw input before any of them is used.
ServerLimits(env) ==
    LET http    == PositiveCount(env.http, 8)
        timeout == PositiveCount(env.timeout, 120)
        counts  == Collected(<<http, PositiveCount(env.ws, 32), PositiveCount(env.bodyMb, 64),
                               timeout, Then(http, LAMBDA n : PositiveCount(env.uploads, n)),
                               Then(timeout, LAMBDA n : PositiveCount(env.uploadTimeout, n))>>)
        dedup   == OptionalBool(env.dedup, TRUE)
        window  == IF env.dedupWindow = Unset THEN Ok(4 * TicksPerSecond)
                   ELSE PositiveSeconds(env.dedupWindow[1])
        threshold   == FinitePercent(env.dedupThreshold, 99)
        backchannel == IF env.backchannel = Unset THEN Ok(0)
                       ELSE Duration(env.backchannel[1], TicksPerMillisecond)
    IN  IF \/ ~OneOf(env.mode, {"native", "openai"}) \/ ~OneOf(env.language, {"ru"})
           \/ \E read \in {counts, dedup, window, threshold, backchannel} : ~read.ok
          THEN Refused
        ELSE IF counts.value[3] > MaxMegabytes THEN Refused
        ELSE Then(AdmissionSettings(counts.value[1], counts.value[2], counts.value[5],
                                    counts.value[4], counts.value[6],
                                    IF env.mode = Unset THEN "native" ELSE env.mode[1]),
                  LAMBDA admission :
                      Ok([admission |-> admission, bodyMb |-> counts.value[3],
                          dedup |-> dedup.value, window |-> window.value,
                          threshold |-> threshold.value, backchannel |-> backchannel.value]))

\* ServerLimits::bind_model.
BindModel(limits, rate) ==
    Then(SamplesAt(limits.window, rate), LAMBDA n : Ok(limits @@ [samples |-> n]))

----------------------------------------------------------------------------
(* Policy, capabilities and context.                                        *)

\* ServicePolicy::new.
ServicePolicy(p) ==
    IF \/ ~Positive(p.window) \/ ~Nonnegative(p.overlap) \/ p.overlap >= p.window
       \/ p.samples = 0 \/ ~Probability(p.threshold) \/ ~Nonnegative(p.backchannel)
      THEN Refused
      ELSE Then(BatchConfig(p.rate, p.window, p.overlap, "Exact"), LAMBDA batch :
           Then(StreamConfig(p.rate, DefaultStreamValues), LAMBDA stream :
               Ok([batch |-> batch, stream |-> stream, dedup |-> p.dedup, samples |-> p.samples,
                   threshold |-> p.threshold, backchannel |-> p.backchannel])))

\* model_sample_rate and ServiceCapabilities::new.
Capabilities(packageRate, frontendRate, rnnt) ==
    IF packageRate = 0 \/ frontendRate # packageRate THEN Refused
    ELSE Ok([rate |-> frontendRate, rnnt |-> rnnt])

\* ApplicationContext::new.
ApplicationContext(capabilities, policy) ==
    IF policy.batch.rate # capabilities.rate \/ policy.stream.rate # capabilities.rate
      THEN Refused ELSE Ok([capabilities |-> capabilities, policy |-> policy])
================================================================================
