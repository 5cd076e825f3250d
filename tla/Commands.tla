-------------------------------- MODULE Commands --------------------------------
(***************************************************************************)
(* What each gigaam command does with its invocation, in its order          *)
(* (cli/src/commands, configuration.rs, composition.rs).  A command is the   *)
(* sequence of its stages; the first that fails ends it.  The world w says   *)
(* what the files, the package, the runtime and the models answer.           *)
(***************************************************************************)
EXTENDS CommandLine

\* A stage: whether it succeeds, and what it leaves behind when it does.
Check(holds)         == [holds |-> holds, does |-> ""]
Does(holds, effect)  == [holds |-> holds, does |-> effect]

\* The stages done, and whether they are all of them.
Performed(stages) ==
    LET failing == {i \in DOMAIN stages : ~stages[i].holds}
        done == IF failing = {} THEN Len(stages)
                ELSE (CHOOSE i \in failing : \A j \in failing : i <= j) - 1
    IN  [status |-> IF failing = {} THEN Ok("done") ELSE Err("command"),
         effects |-> {stages[i].does : i \in 1..done} \ {""}]

----------------------------------------------------------------------------
(* configuration.rs                                                         *)

\* runtime: device, native settings, plan, library, in this order.
RuntimeConfig(request, required, env) ==
    Then(ResolveDevice(request.ep, env.ep), LAMBDA device :
    Then(OrtConfig(env), LAMBDA config :
    Then(ProviderPlan(device, config, required, env), LAMBDA plan :
    Then(ConfiguredPath(request.dylib, env.dylib), LAMBDA library :
        Ok([plan |-> plan, library |-> library])))))

\* frontend_mode and trace_mode.
FrontendMode(env) == OneOf(env.frontend, {"scalar", "batched"})
TraceMode(env)    == env.trace # <<"">>

\* evidence_path; the path is a directory, a file to be, or lies in none.
EvidencePath(path, w) == path = Unset \/ w.evidencePath = "file"

\* benchmark_samples and BenchmarkSamplePlan: a duration, rounded to samples.
BenchSamples(window, rate) == Halves(window * rate, Ticks)
SamplePlan(window, alternate, rate) ==
    <<BenchSamples(window, rate)>>
      \o (IF alternate = Unset THEN <<>> ELSE <<BenchSamples(alternate[1], rate)>>)

\* stream_chunk.
StreamChunk(milliseconds, rate) ==
    LET samples == (milliseconds * rate) \div 1000
    IN  IF samples = 0 \/ samples > MostSamples THEN Refused ELSE Ok(samples)

\* cyclic_buffer: the audio, again and again.
CyclicBuffer(channel, requested) ==
    IF channel = <<>> THEN Refused
    ELSE Ok([i \in 1..requested |-> channel[((i - 1) % Len(channel)) + 1]])

\* What composition.rs asks of the package: its rate, the library, the weights.
PackageRate(w)      == w.package /\ w.rate > 0
InitializeRuntime(w) == Does(w.runtime, "runtime")
FrontendOf(w)       == w.weights

----------------------------------------------------------------------------
(* The commands.                                                            *)

\* Mutated form of Transcribe: the evidence file is made as soon as it is named.
TranscribeEagerly(inv, env, w) ==
    Performed(<<Does(EvidencePath(inv.evidence, w),
                     IF inv.evidence = Unset THEN "" ELSE "evidence"),
                Check(inv.evidence = Unset \/ inv.decoder = "ctc"),
                Check(RuntimeConfig(inv, {inv.decoder}, env).ok),
                InitializeRuntime(w), Does(w.transcribes, "output")>>)

\* transcribe::run, open_evidence_writer and EvidenceWriter::create.  The names
\* of the model and of the audio must fit a header line (evidence_token); what is
\* written to the file is buffered, and refused by the disk in evidenceFinish.
Transcribe(inv, env, w) ==
    LET evidence == inv.evidence # Unset
        vad == inv.vad # Unset
    IN  Performed(<<
            Check(EvidencePath(inv.evidence, w)),
            Check(evidence => inv.decoder = "ctc"),
            Check(evidence /\ vad => inv.version = 2),
            Check(vad => BindVad(inv.vad[1]).ok),
            Check(RuntimeConfig(inv, {inv.decoder}, env).ok),
            Check(Positive(inv.turnGap)),
            Check(TraceMode(env)), Check(FrontendMode(env)),
            Check(PackageRate(w)),
            Check(vad => w.rate = VadRate),
            Check(BatchConfig(w.rate, inv.window, inv.overlap, inv.padding).ok),
            InitializeRuntime(w),
            Check(vad => w.detector), Check(FrontendOf(w)),
            Check(w.recognizer),
            Check(evidence => w.modelName), Check(evidence => w.modelHeader),
            Does(evidence => w.evidenceFile, IF evidence THEN "evidence" ELSE ""),
            Check(w.warmup),
            Check(w.audio), Check(evidence => w.audioName),
            Check(w.transcribes),
            Check(evidence => w.evidenceFinish),
            Does(TRUE, "output")>>)

\* batch_channel_policy: one line for all channels, or one for each.
BatchChannelPolicy(inv) == IF inv.split \/ inv.turns THEN "separate" ELSE "single"

\* bench::run; every shape is warmed three times, then measured with the other
\* one before it each time.
BenchForwards(inv) ==
    LET pair == IF inv.alternate = Unset THEN <<"primary">> ELSE <<"primary", "alternate">>
        warm == pair \o pair \o pair
        turn == IF inv.alternate = Unset THEN <<"primary">> ELSE <<"alternate", "primary">>
    IN  FoldLeft(LAMBDA run, i : run \o turn, warm, [i \in 1..inv.iterations |-> i])

Bench(inv, env, w) ==
    LET plan == SamplePlan(inv.window, inv.alternate, w.rate)
    IN  Performed(<<
            Check(RuntimeConfig(inv, {"ctc"}, env).ok), Check(FrontendMode(env)),
            Check(PackageRate(w)),
            Check(\A i \in DOMAIN plan : plan[i] <= MostSamples),
            Check(w.audio),
            Check(\A i \in DOMAIN plan : CyclicBuffer(w.samples, plan[i]).ok),
            Check(FrontendOf(w)), InitializeRuntime(w), Check(w.recognizer),
            Check(\A i \in DOMAIN plan : plan[i] > 0),
            Check(w.transcribes), Does(TRUE, "output")>>)

\* stream::run: the whole file first, then the same file in chunks.
Stream(inv, env, w) ==
    LET config == BindStream(inv.policy, w.rate)
    IN  Performed(<<
            Check(RuntimeConfig(inv, {"ctc"}, env).ok),
            Check(inv.reference # Unset => w.reference),
            Check(TraceMode(env)), Check(FrontendMode(env)),
            Check(PackageRate(w)), Check(config.ok),
            Check(BatchConfig(w.rate, inv.policy.window, inv.policy.overlap, "PadToWindow").ok),
            Check(StreamChunk(inv.chunk, w.rate).ok),
            InitializeRuntime(w), Check(FrontendOf(w)), Check(w.recognizer),
            Check(w.audio), Check(w.warmup), Check(w.transcribes),
            Check(inv.policy.endpoint = "Vad" => w.detector),
            Check(w.streams), Does(TRUE, "output")>>)

\* Where the chunks of a stream end: the last may be short.
ChunkEnds(samples, chunk) ==
    [i \in 1..CeilDiv(samples, chunk) |-> IF i * chunk > samples THEN samples ELSE i * chunk]

\* vad::run: the selection is resolved before any channel is run.
VadCommand(inv, env, w) ==
    Performed(<<
        Check(RuntimeConfig(inv, {}, env).ok), Check(BindVad(inv.policy).ok),
        Check(w.package), InitializeRuntime(w), Check(w.detector), Check(w.audio),
        Check(ResolveChannels(inv.channels, w.channels).ok),
        Check(w.transcribes), Does(TRUE, "output")>>)

\* backchannel_policy of the dialog command.
BackchannelPolicy(milliseconds) ==
    IF milliseconds > 0 THEN <<milliseconds \div 1000>> ELSE Unset

\* dialog::run, and the streams its factory makes one of each channel.
Dialog(inv, env, w) ==
    Performed(<<
        Check(RuntimeConfig(inv, {"ctc"}, env).ok),
        Check(Positive(inv.turnGap)), Check(FrontendMode(env)),
        Check(PackageRate(w)), Check(BindStream(inv.policy, w.rate).ok),
        InitializeRuntime(w), Check(FrontendOf(w)), Check(w.audio),
        Check(w.recognizer), Check(inv.policy.endpoint = "Vad" => w.detector),
        Check(w.streams), Does(TRUE, "output")>>)

\* dispatch and main: what the process reports.
Main(utf8, args, indices, env, w) ==
    Then(ParseText(utf8, args, indices), LAMBDA parsed :
        LET inv == parsed.invocation
        IN  CASE parsed.command = "transcribe" -> Transcribe(inv, env, w).status
              [] parsed.command = "bench"  -> Bench(inv, env, w).status
              [] parsed.command = "stream" -> Stream(inv, env, w).status
              [] parsed.command = "vad"    -> VadCommand(inv, env, w).status
              [] parsed.command = "dialog" -> Dialog(inv, env, w).status)
================================================================================
