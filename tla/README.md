# TLA+ models of the GigaAM v3 runtime

A speech-to-text service in Rust: batch transcription over HTTP, live
transcription over WebSockets, both through one shared native decoder, and a
command-line program that does the same on files. These modules model its
concurrent core, its process, its streaming sessions of one and of several
channels, and the pure algorithms between a byte of audio and a word of a
response. TLC checks them on small instances, and TLAPS proves the safety of the concurrent
core, from the compare-exchange loops to the sessions, for every value of the
constants. Paths are relative to
`src/`; `crates/` is left out below.

## 1. Inventory

| component | state | operations | interacts with |
|---|---|---|---|
| Execution control (`recognition/src/execution.rs`) | one atomic byte: New, Queued, Running, CancellationRequested, Completed, Cancelled, Failed | request_cancellation, acknowledge_cancellation, enqueue, start, complete, fail | shared by a request's owner, its guards and the decode worker |
| Decode scheduler (`recognition/src/scheduler.rs`) | tick queue, window queue, gauge, stopped flag, condition variable, one worker thread; per call a channel for its answers | decode_with_detail (enqueue, wait at most 60 s for the start, settle), the worker loop, panic cleanup, drop | called by every batch request and every stream step; moves their controls |
| Admission (`service/src/admission.rs`) | lifecycle phase, three semaphores (uploads, HTTP work, stream channels) | admit_upload/http/ws in three steps, permit drops, begin_draining, wait_for_ws_drain | called by HTTP and WebSocket handlers and by the shutdown task |
| Process and health (`service/src/lifecycle.rs`, `health.rs`) | the stage of the process, its workers, whether signal handlers exist | start, warm up, serve, readiness, drain, exit | everything in the service |
| Batch HTTP request (`service/src/http.rs`) | request future with its body reader, permit and cancellation guard; blocking work with its owner | upload, inspect, admit, spawn, deadline, disconnect, work, record | admission, execution control, scheduler, telemetry |
| WebSocket session (`service/src/ws.rs`) | its place in `handle`, the phase it has seen, its finish purpose, the frames sent, its log records | upgrade, warmup, select loop (phase, config, message), finish, deliveries | admission, multi-channel session, telemetry |
| Telemetry (`service/src/telemetry.rs`) | bounded channel, slot counter, undelivered and active counters, loss counters, writer | offer, write, close, claim of what was lost | every component offers records |
| Streaming session (`transcription/src/stream.rs`, `endpoint.rs`) | audio buffer, committed words, the line the client holds, final and stable frontiers, a window waiting for its seam, the cut | push, tick, flush | scheduler (decode), `stitch.rs` |
| Multi-channel session (`transcription/src/multi_stream.rs`, `channel_selection.rs`, `dialog.rs`) | frame remainder, resampler positions, audio held back until the channels are chosen, the dialogue and its frontiers | push, finish, flush | one streaming session per channel |
| Transcript assembly (`transcription/src/stitch.rs`, `turns.rs`, `text.rs`) | none | windows, seams, stitching, turns, scored segments | streaming and batch |
| Batch transcription (`transcription/src/batch.rs`, `multi_batch.rs`) | timings, evidence, held scores | windows, groups of speech, channels in turn | scheduler, assembly, voice segments |
| Voice segments (`transcription/src/vad_policy.rs`) | none | hysteresis, durations, padding | batch, streaming |
| Decoding searches (`recognition/src/ctc.rs`, `rnnt.rs`, `ort_*.rs`) | none between windows | greedy CTC, greedy transducer, words of tokens | native sessions |
| Provider and package (`recognition/src/provider.rs`, `assembly.rs`, `model-package/src`) | fixed at start | declared graph placement and its verification; config.kv, assets | start of service and command |
| Audio (`audio/src`) | remainder bytes, resampler position | framing, WAV and codecs, resampling, features | readers, sessions, batch |
| Requests and responses (`service/src/protocol.rs`, `openai.rs`, `response.rs`, `stream_response.rs`, `config.rs`) | none, or fixed at start | queries, forms, the order of refusals, what is answered | handlers |
| Command line (`cli/src`) | none between commands | grammar, policies, the order of checks and effects, what is shown and written | everything but the service |

How they interact. An HTTP or WebSocket handler asks Admission for capacity and
hands it to an owner that lives as long as the blocking work. The work calls the
scheduler, which serves one job at a time, ticks before windows, and moves the
request's execution control; a deadline, a disconnect or a drain reaches the work
only through that control. Streams turn decoded words into patches and frontiers,
and a session of several channels merges these into one dialogue, which is final up
to the slowest channel. Every handler leaves records with Telemetry, which never
blocks it.

What is hard. Atomics raced by owner, guard and worker; a worker that panics with
jobs in hand; expired waits racing the worker; a drain between any two steps of an
admission, and before the handlers of the signal exist; futures dropped while their
work runs on; a writer that fails while producers are between two atomic accesses;
deliveries that fail inside a session's own failure path; a line that is revised
while its prefix is already final; a choice of channels made in the middle of a call
that then fails; arithmetic of windows, seams, frames and durations at their edges;
policies whose parts constrain each other; checks spread over many functions whose
order decides what a refused call has already done.

What makes each component correct:

* control: one outcome, never revoked; the loops are an atomic object;
* scheduler: every accepted call is answered exactly once; the gauge is exact; a
  cancellation beats a late result; a failed call's control is final;
* admission and process: permits are conserved; nothing is admitted once draining; a
  refusal says why; ready means healthy; a handled signal ends the process;
* batch request: the permit stays with the work until its control is final; 200
  means completed; an abandoned request's work is cancelled;
* WebSocket session: frames in protocol order; accounted once; its channels reserved
  to its end; ended by a drain;
* telemetry: every record counted exactly once;
* stream: final words never change, stable ones are settled, every word is
  committed exactly once;
* several channels: no sample lost, repeated or given to another channel; the client
  holds the merged dialogue; a final turn keeps its words;
* algorithms: each computes what its definition says on every input, and what is
  refused has had no effect.

## 2. Modules

| module | models | notes |
|---|---|---|
| `ExecutionControl` | the transitions, as operators on the state | shared by all users of a control |
| `ControlLifecycle` | the atomic object: a set of controls that only make transitions | the abstract specification |
| `ControlCas` | the compare-exchange loops: load, decide, swap, return, per thread | refines `ControlLifecycle` |
| `Scheduler` | worker, callers, queues, drop | refines `ControlLifecycle`, one control per request |
| `Admission` | phase, semaphores, admissions, drain and wait | part of the three below |
| `ServiceProcess` | stages, workers, readiness, signal, end | extends `Admission` |
| `HttpBatch` | request futures and blocking work | on `Admission`, with `ExecutionControl` |
| `WsSession` | session tasks | on `Admission` |
| `Telemetry` | producers and writer | |
| `Stitch` | seam and join of two windows | used by `StreamSession`, `BatchTranscription` |
| `StreamSession` | one channel's session and its client's line | |
| `AudioFormats`, `Resampling`, `ChannelSelection`, `Dialogue` | framing and containers, the resampler whole and in pieces, which channels are kept, turns and their patches | |
| `MultiStream` | a session of several channels | extends the four above |
| `Floats`, `Outcome` | conversions on their bits, Result and Option | |
| `Frontend`, `Vad`, `Decoding` | transform and features, voice segments, the two searches | |
| `BatchTranscription`, `Turns`, `MultiBatch` | one channel as a whole, complete lines, a recording of several channels and its dialogue | |
| `Provider`, `Package` | graph placement and sessions, the model package | |
| `Configuration`, `CommandLine`, `Requests` | settings, durations, options, queries and forms, and the policies bound from them | |
| `Commands`, `Projection` | what a command does and in which order, what it shows | |
| `*_proofs` | theorems | extend the module they are about; `Scheduler_proofs` also extends `ControlCas`, whose specification `LoopSpec` stands beside the scheduler's, and `StreamSession_proofs` proves of `Vad` and `BatchTranscription` what a recording's decoder is given |
| `MC*` | instances for TLC where a constant needs a definition; `MCAlgorithms` also holds the properties of the pure modules | `ControlCas.cfg`, `Scheduler*.cfg`, `HttpBatch.cfg` and `Telemetry.cfg` run their modules as they are |

### Correspondence with the code

**ControlCas.** A thread's `Load` is the atomic's load, `Swap` its
`compare_exchange`; between them the thread holds the value it saw. `Decide` stands
for the early returns. Orderings are sequentially consistent: the control is one
location, so its modification order is all there is.

**Scheduler.** A step is what happens between two moments another thread can
observe: a critical section of the queue mutex, an access to a control, a channel
operation, a call of the decoder. Worker places (`wpc`) are the lines of the loop
in `spawn`; a caller is in `submit`, `started`, `answer`, `cancel`, `settle`. The
panic of the decoder enters `stop_after_panic`, which fails the drained jobs one by
one. A closed caller makes no further call; a streaming request may call again and
again. Payloads and detail levels do not appear.

**Admission.** An attempt reads the phase, tries the permits, reads the phase
again, then commits or surrenders: three steps, a drain may come between any two.
`Weight` is the number of channels. The drain sets the phase, then closes the three
semaphores in the code's order. The wait polls the returned permits and may time out
at any sleep, for the model has no clock.

**ServiceProcess.** `at` is the stage of `run_process`; each stage succeeds or is
fatal. A worker exists from the construction of its decoder on and stops when a
decode panics, in its warmup or under a request. Signal handlers are installed by a
task of their own: a signal that comes before is fatal, one that comes after begins
the drain. A readiness probe reads the phase, then each worker; `probe.sick` is a
history variable for the property. The listener answers from `serving` on. axum's graceful end is external: it
waits for requests that are being answered, not for upgraded connections.

**HttpBatch.** `future[r]` is the place in `upload_transcribe`, `work[r]` that of the
blocking closure: `Closure` is what it does, `Wrapper` what its thread does before and
behind it. Dropping the future at a disconnect drops its guard
(`DropGuard`), which requests cancellation; the deadline does the same and answers
504. Recognition calls are the transitions they make on the control: the scheduler
itself is modelled apart, and `CallFails` contains the cancellation and its
acknowledgement as one step, which is why this module is not stated to refine
`ControlLifecycle`.

**WsSession.** `step[s]` is the place in `handle`, `run_active` and
`consume_finish`; `unsent` the frames still due; `wire` the frames sent, all of them in
their order, but a run of updates counts as one; `seen` the phase the receiver has
marked as seen, so `changed()` can miss a drain that came before the
subscription. The select is biased: shutdown before config before message. A send
may fail at any time, and blocks while the peer does not read.

**Telemetry.** One atomic access per step, for `offer_with`, the record's drop and
the writer. The channel has room for what the slot counter admits. The atomics are
several locations, all accessed with `SeqCst`, so interleaving single accesses is
exact.

**StreamSession.** A frame is 40 ms and times are whole frames. `Push` is one round
of push's loop, `Advance` and `Finish` the two kinds of tick, `Settled` what the
seam and the lock commit, and the four ends of a tick are actions' parts of their
own. The decoder is external: it hears each word that lies in the buffer, each up
to `Jitter` off, and for a word the buffer's edge cuts nothing or any text of
`Edge`. A decode may fail at any tick. The detector is exact: the VAD and the blank
mask are both modelled by the true silence.

**MultiStream.** A call is one step, with all it does: `Push` splits the bytes that
have arrived, resamples each channel, holds the samples back or feeds them, chooses
channels when the analysis window is full, releases what was held, merges the
channels' lines and patches the client's dialogue; `Finish` and `Flush` likewise.
`Outcomes` goes through the channels in their order and may fail at each. The bytes
are fixed, how they are cut is not. A channel's session is taken by what
`StreamSession` checks of it: final words stay, nothing comes into being behind the
cut, a flush makes everything final (`StreamSession` shows that for windows that
overlap; section 4 has the other case); how fast words become final is free.

**The pure modules.** An operator is a function of the code, or a loop of it, named
as there. `Ok` and `Refused` are the two outcomes; `Then` is `?`. Sequential
state (a transcriber's timings and evidence, a parser's accumulator) is a record that
goes in and comes back. Numbers keep what the code decides by: floats that are only
compared are integers of a fine unit with `NotFinite` beside them, those whose bits
matter are made of bits (`Floats`), and the transform is done over a finite field,
where it is exact. A resampled sample is the set of inputs and coefficients it is
made of. A text is a string or a model value, its spelling given by a function of the
instance.

## 3. Runs

| run | question | bounds and why they suffice |
|---|---|---|
| `control_cas` | are the loops an atomic object with one outcome? | two threads: one stands between a load and a swap while the other does any number of operations |
| `scheduler_safety` | is every call answered once, does cancellation win, is the gauge exact, is a failure final? | one stream and two files: two jobs in one queue behind the other kind |
| `scheduler_live` | do calls and drop return? | one stream, one file: starvation and lost wakeups need one of each |
| `scheduler_expiry` (violation) | does an expired wait return? | the same |
| `service` | do permits survive the races with a drain, is nothing admitted once draining, is readiness true, does a signal end the process? | one request for one permit, a mono and a stereo session for two channels, one or two workers: each pool can be full, each worker can stop between the two reads of a probe |
| `http_batch` | who holds the permit, who is told what, what is left behind, and what may be kept for ever? | two requests, one reader, one permit: each pool can be full |
| `telemetry` | is every record counted exactly once? | capacity 4, the smallest the service makes; six offers fill it behind a stuck writer and drop one |
| `ws_session` | the whole sequence of frames, accounting, channels, drain | mono and stereo for two channels: either fits, not both |
| `stream_session` | final, stable, heard once, in order | windows of six steps, half overlapping, or only touching, when a full one leaves an empty buffer; three utterances that put words on a seam, repeat a word half a second later, and pause; both lock policies; jitter of a frame |
| `multi_stream` | is every sample fed once, does the client hold the dialogue, does a final turn keep its words? | six frames of two channels in chunks of 5 and 14 bytes, cut inside samples and frames; both policies, alike and different channels, 16-bit and float, once and twice the model's rate; two words a channel, one of them a short remark in the other's turn; a window of two samples to choose channels in, so that choosing falls before, in and after a push |
| `dialogue_final` (violation) | is a final turn immutable? | the same |
| `algorithms` | does each pure operation compute what it should? | every input of the sets below |

Every property of a passing run has a mutant: a definition of the model changed the
way a plausible bug would change the code, under which TLC finds the property
violated. They are kept beside the definition they change, marked "Mutated form".

Deadlock is checked except where everything may properly have ended (all requests
closed, all sessions ended, the process gone, the stream flushed, the algorithm's one
step taken).

### The algorithms

A state of `algorithms` is one input with what the operation made of it. No property
follows the code's steps: each compares the two with a definition of its own.

| property | inputs | compared with |
|---|---|---|
| `ArithmeticIsExact` | transforms of lengths with every radix and of their products, in a field of 839 elements and its root of -1; features of up to 20 samples; every bit pattern of a small float format | the discrete Fourier transform; each other; the nearest value |
| `SpeechIsFound` | every sequence of up to five probabilities below, between and above the thresholds, 36 policies, every length | runs of frames that last |
| `TextSurvivesDecoding` | every alignment of texts of up to three tokens, both layouts, both searches | the text and its first frames |
| `EachWordOnce` | words at every place of a seam, padding, lengths around a window; two channels with four ways to transcribe and a cancellation after any window; turns of finished channels; dialogues whose sessions fail at each step | the words said |
| `NothingUndeclaredIsOpened` | fingerprints, waivers and orders of nodes for one and two encoders; packages with each key missing, doubled, unknown or ill-formed | what was declared |
| `PolicyIsBoundWhole` | combinations of window, overlap, step, horizon and lock, given or not, by option and by query; durations digit by digit | the combination as a whole |
| `OptionsAreUnambiguous` | sequences of up to three options, escaped names, forms with repeated fields | sets of name and value |
| `EffectsFollowChecks` | every command with up to two of its arguments, settings, files, names, rates or models wrong or failing | which of these may only be found behind an effect, and which effect |
| `OutputIsWhole` | results of each kind, event streams, evidence writes that fail at each window, latencies at the bounds of buckets and above all but the infinite one | what is to be said |

### Fairness

* Scheduler: the worker, callers inside a call and the join are running threads,
  and a native call terminates. No call, cancellation or expiry is ever obliged.
  Fairness of the worker as a whole does not choose between its queues: the code does.
  A window call is promised to return only unless ticks keep coming.
* ServiceProcess: the start goes on, requests that are being answered are (their
  deadline bounds them), the shutdown task and a probe run. The wait for the sessions
  is a loop over a clock the model lacks: strong fairness of its timed-out end says
  that the deadline passes. No client and no signal is obliged to come, and no
  session to go.
* HttpBatch: the runtime polls futures, the blocking pool runs its queue and what is
  left to do behind a closure, `upload_timeout` refuses a body that does not end, and
  the request's deadline passes. Nothing obliges a closure to return: its calls are
  window calls, which starve while ticks keep coming. `CapacityReturns` therefore
  promises each client its answer, and each permit's return but for a closure that is
  still running.
* WsSession: the runtime polls the session and blocking work returns. A send to a
  peer that does not read is disabled, and no peer is obliged to read.
* Telemetry: threads run, except that a write may block for ever.
* The streaming sessions and the algorithms are called; they promise nothing
  about when.

## 4. Findings

1. **Expired waits** (`scheduler_expiry`). `docs/API.md:151` bounds a call's wait in
   the queue by 60 seconds. The code stops waiting for the start, requests
   cancellation, and then waits without a bound for the worker to dequeue the job;
   ticks have strict priority, so under steady streams it may not.
2. **Final turns** (`dialogue_final`). `docs/API.md:304` calls a final word or turn
   immutable. A turn is final once it ends behind the slowest channel's cut, but a
   word that starts behind the cut and within the turn gap joins it: the turn is sent
   again, longer and not final. What does hold is checked and proved: it keeps its
   place, its start and its words (`FinalTurnKeepsItsWords`).

Limits met while modelling, without a run of their own. A passing run keeps each out by its
constants or inputs, or its property says what the code does:

* *Warmup after the drain.* `docs/OPERATIONS.md:126` says no WebSocket warmup starts
  after the transition. A session admitted just before it starts its warmup after
  it: the phase is read again only when the warmup is over (`ws.rs:959`).
* *Flush behind a full window.* `stream.rs:288` says that a flush ends the stream "by
  decoding and committing its remaining tail". With overlap 0, which `docs/API.md:218`
  allows, a full window empties the buffer and leaves its open words waiting for a
  seam; a flush of an empty buffer returns at once (`stream.rs:515`), and those words
  are never committed. `LineIsTold` checks, and `FlushLeavesUnlookedHolds` proves,
  that nothing else is left open.
* *Fast repetitions at a seam.* Equal words less than 0.25 s apart can be paired
  crosswise (`stitch.rs:200`); the joined line repeats an occurrence and runs
  backwards, which the dialogue merger answers with an error (`dialog.rs:300`), and a
  recording of several channels likewise when it builds the channel's line. No property
  covers them.
* *Long retained silence.* When it is longer than the silence that ends an utterance,
  committed words can be heard again behind the last twelve; when it is as long as
  the window, push fails. Words that jitter by more than the 60 ms of slack, or
  overlaps shorter than a word and its jitter, can be lost at a seam.
* *Resolution.* The windows of a whole recording are placed in 32-bit seconds
  (`stitch.rs:131`), so very long recordings meet its resolution, and an overlap
  smaller than the window in seconds may equal it in samples.
* *Gaps.* A pause exactly as long as the gap ends a turn but not a scored segment.
* *Order of effects.* `docs/REQUIREMENTS.md:73` has the command line's values validated
  before the runtime is built. With `--evidence`, the name of the model is refused only
  behind the recognizer (`transcribe.rs:183`), that of the input behind the evidence
  file and the warmup as well (`transcribe.rs:139`), and an unreadable recording too
  leaves a file with a header (`transcribe.rs:105`, `134`). `EffectsFollowChecks` says
  what each of these may leave.
* *Options.* The service's parser takes a value that looks like an option as a value.

## 5. Proofs

| module | theorem | says, for every value of the constants |
|---|---|---|
| `Scheduler_proofs` | `OneOutcomeHolds` | no two threads are told different final outcomes |
| | `LoopsImplementAtomicControl` | the compare-exchange loops implement `ControlLifecycle` |
| | `LifecycleTypeCorrect`, `LifecycleOnlyForward` | atomic controls stay in their states and only move forward |
| | `SchedulerTypeCorrect`, `GaugeIsExact` | types, and the exact gauge |
| | `SchedulerImplementsControl`, `ControlsOnlyMoveForward` | the whole scheduler moves controls only as `ControlLifecycle` allows, hence only forward |
| | `FailureAlwaysTerminal` | a call that reports a failure has a final control |
| | `CancellationAlwaysWins` | no decode starts and no result is answered once cancellation was requested |
| | `AnswerAlwaysOwed` | a call that waits has exactly one place its answer will come from, another has none |
| `Admission_proofs` | `PermitsConservedHolds`, `DrainedIsFinalHolds` | permits are conserved; after a reported drain no session owns one |
| `ServiceProcess_proofs` | `PermitsAreConservedHolds` | the same through the whole life of the process |
| | `NoneAdmittedHolds` | nothing is admitted once draining |
| | `RefusalIsHonestHolds` | overload is answered only by a full pool |
| | `ReadyMeansHealthyHolds` | ready is answered only by a process that ran, with no worker stopped, when it was asked |
| `HttpBatch_proofs` | `PermitHeldHolds` | work holds its permit until its control is final; it never outnumbers the permits |
| | `SuccessMeansCompletedHolds` | 200 means a completed control |
| | `EndedLeavesNothingHolds` | an ended request leaves no reader, no idle permit and no uncancelled work |
| | `HttpBatchImplementsAdmission` | requests, futures and work together implement `Admission` |
| | `ControlsOnlyMoveForward` | no control moves backwards or leaves a final state |
| `WsSession_proofs` | `ChannelsStayReservedHolds` | channels are reserved to the end, and never more than there are |
| | `SessionIsAccountedHolds` | each session is accounted once |
| | `ProtocolOrderHolds` | the frames a session sends, from the first to the last, are a conversation of the protocol: at most one end or error, one close, and nothing behind it |
| | `WsSessionImplementsAdmission` | live sessions, drain and abandonment implement `Admission` |
| `Telemetry_proofs` | `EveryRecordIsCountedHolds` | every record is counted once, none is sent after the claim, the queue stays bounded |
| `MultiStream_proofs` | `SelectionIsToldHolds` | the choice of channels is told once, also by a call that fails, and only chosen channels are fed |
| | `UnselectedHoldsNothingHolds` | nothing is fed to, or held back for, a channel that was not chosen |
| | `FedWhatWasSentHolds` | a session is fed its channel resampled as a whole, every sample once, however the bytes are cut |
| | `ClientHoldsAllHolds` | the patches leave the client the merger's dialogue, and at the end every word of every chosen channel stands in it once, in turns that are final |
| | `FinalTurnKeepsItsWordsHolds` | a turn shown as final keeps its place, its start and its words |
| | `MultiStreamTallies` | the inductive invariant of both |
| | `PiecesResampleLikeTheWhole` | a waveform resampled in pieces is the waveform resampled at once |
| `StreamSession_proofs` | `StreamTypeCorrect` | buffer within the window, frontier within the line, for every decoder |
| | `FinalIsCommittedHolds` | the client's final prefix is what was committed |
| | `FinalIsImmutableHolds` | nothing final is ever patched |
| | `FlushLeavesUnlookedHolds` | what a flush leaves open are exactly the words of such a window, which there is only without overlap |
| | `SegmentsFollowTheSpeech` | speech segments hold every long stretch of speech and no long silence, in order, in the audio |
| | `WindowsCoverTheAudio` | decoding windows advance within the audio, and what fits in an overlap lies whole in one |

Assumptions are those named `...Assumption` in the modules, which TLC evaluates in
the runs: sets and kinds of the constants. The sizes they bound are those the code
bounds: rates are positive, a filter has at least two taps per phase
(`MINIMUM_TAPS_PER_PHASE`). The lemmas about algorithms quantify over every input that
the code's own checks let through: valid policies, window geometries and rate pairs.
The speech of a channel is said in order and a word ends after it starts
(`SpeechAssumption`): a word's end is one frame behind its last token
(`word_from_token_range`). A cut steps back by no more than the tolerance of timestamps
(`Slack \in 0..Fuzz`), nor does an open word begin further before it: a stream takes
words from 0.06 s before its cut (`stream.rs:383`), and the tolerance is 0.06 s
(`APPROXIMATE_TIMESTAMP_SECONDS`).

The inductive invariants, and why each is more than the property:

* *The loops of a control*: types; a reported outcome is the control's value and final
  (`ReportedIsFinal`); a value a thread has seen is one the control has passed
  (`ObservedIsPast`); a swap about to succeed is a transition (`SwapIsAllowed`).
  `OneOutcome` alone is not inductive: without the second part a stale thread could
  report a value the control never had. The loops are what the scheduler
  takes for atomic, so their proof stands in its module.
* *Scheduler*: types with the shape of the worker's places (it has a job exactly where
  the code uses one, and drains only after a panic); the gauge is counted in its queue
  part. For the failures: an answer in hand, and every event in a channel, is truthful
  about its control, and a caller that settles has requested cancellation. For the
  answers (`OwedInv`): each request is in at most one of the two queues, the drained
  jobs, the worker's hands and its own channel, in each at most once, and in one of
  them exactly if its caller waits (`OwedOnce`); a worker that has left, or drains, has
  stopped the queues and left them empty (`DrainShape`); and an answer is the last
  event of its channel (`FinishedIsLast`), or the next call would find it. The second
  part is what makes the panic path safe: a job submitted after the queues were taken
  would have no one to answer it.
* *Admission*: each pool's free permits with its owned ones are its capacity, the
  owned permits being a set (one pair of an owner and a number per permit), so that
  taking and giving back are a disjoint union and a difference; and the order of the
  drain: which pools are closed is told by how far the drainer is, it waits only after
  the last, and nobody is told "shut" before it began. The lemmas are stated for one
  action each. The three modules that use Admission cite them through an instance,
  by showing that each of their steps is one of Admission's or leaves it alone.
* *ServiceProcess*: Admission's, and of a probe in flight that what it found stopped is
  still stopped and that it has passed the first worker only if that one ran. Nothing
  is said of a worker that stops while it is asked: the code promises nothing there.
* *HttpBatch*: Admission's, and two tables: what reader and permit may be at each place
  of the future (`PlaceInv`), what permit, control and result are at each place of the
  work (`WorkInv`). The permit changes hands from the one to the other at the spawn,
  which is why neither is inductive alone. That executing work does not outnumber the
  permits follows from the conservation of permits.
* *WsSession*: likewise, what has been recorded (`RecordInv`), sent (`WireInv`) and
  reserved (`ReservedInv`) at each place of `handle`. `ProtocolOrder` is
  about the whole sequence of frames, and a frame may only be sent from a place whose
  sequences it prolongs: `WireInv` says which these are at each place of `handle`.
* *Telemetry*: every counter is the number of producers in a set of places plus what
  the writer holds (`CountersInv`), which is also why no counter underflows, and no
  producer is inside the window of a send once the writer has swept it (`WindowInv`).
  The conservation law is an equation of these counts.
* *MultiStream*: of a candidate only its audio matters. Before the choice nothing is
  fed and nothing told; after it, the observations tell the choice at one index, and
  channels outside it hold nothing; a session that failed is in one of these two cases
  (`ToldInv`). A call that goes through a selection leaves the other channels as they
  were, whichever of them fails (`OutcomesTouch`), and reports besides the choice only
  patches (`AfterKeeps`). Resampling, sessions and merging stay unexpanded there: the
  choice is told rightly whatever they compute.

  `FedWhatWasSent` does need what they compute, and its invariant (`StreamInv`) has a
  part for each layer. The decoder: what has arrived of a channel is its samples in the
  complete frames, with the remainder of the last (`HasArrived`). The resampler: its
  buffer holds the arrived samples from `from` on, which is early enough for its next
  output, and it has given the outputs whose taps have all arrived (`IsStream`, `Gave`).
  The session: before the choice the outputs are in `pending`, after it in `fed`, at the
  end with the resampler's tail, and never in both. `Gave` alone is not inductive: that
  nothing still needed was dropped from the buffer is the heart of `IsStream`. What a
  failed session was fed is a prefix of it.
  The dialogue (`DialogInv`) is what `ClientHoldsAll` and `FinalTurnKeepsItsWords` need.
  Its parts: no word that a session may still revise begins behind the final frontier
  (`OpenBehind`); the merger's turns up to the last final one are made of words that are
  done, at the same places (`FinalTurns`); the client holds the merger's dialogue but for
  the times of turns that are not final (`Shows`). The frontier is the least cut
  less the tolerance, and a cut steps back by no more than the tolerance, so the first
  part survives a push (`FrontierAdvances`). Then the turns that sort before a final one
  are the same before and after an update, whatever the other channels add
  (`PrecedingStays`), and a final turn can only grow at its end (`TurnCarries`): the
  first difference leaves it its place (`UpdateMerges`). Neither property is inductive:
  that the client has a final turn says nothing of the words that may still come before
  it. At the end of a session every word is done and no tolerance is taken off, so every
  turn is final (`FlushedIsFinal`), and the turns, cut at the pauses, take each word once
  (`TurnsTakeWords`). A dialogue is sorted by the number of turns before each
  (`Sorted`, `Ascending`), which needs no induction (`RanksAreThePlaces`).
* *Speech segments*: the loop over frames is a fold; a fold is unfolded into the
  sequence of its states (`IsWalk`, `ScanFrameByFrame`), on which an invariant is shown
  frame by frame (`Kept`): the finished segments are in order and behind the frame
  (`Placed`), an open one began with the speech that runs (`SpeechIsOpen`), speech that
  passed is in a segment (`SpeechIsKept`), silence that was long enough has ended one
  (`SilenceEnds`) and is in none (`SilenceIsOut`). Dropping what is short, padding and
  joining are then arithmetic on the result (`RawFits`, `PaddingFits`).
* *Windows*: the last window is the first that reaches the end (`LastWindow`); whatever
  fits in the overlap lies in the window of the stride it begins in, or in the last.
* *StreamSession*: `TypeOK /\ FinalIsCommitted`. The step from it to immutability is
  that a tick's committed words extend the old ones (`Settles`), so a patch begins
  behind the final prefix (`EmitKeeps`): the first difference cannot lie in it. The
  lemmas about `Max`, positions, seams and pieces of sequences stand before it. The
  seam needs that a best match exists: `PreferredExists`, from the well-foundedness
  of the naturals. For the flush, that an empty buffer of a live session has told all
  (`FlushIInv`), but for `Unlooked`: a flush does not look at an empty buffer again. The
  theorems assume nothing of the overlap; that a full window leaves an empty buffer
  only without one is in the definition of `Unlooked`, and shown.

What stays with TLC:

* Liveness (`CallsReturn`, `SignalEndsTheProcess`, `CapacityReturns`, `DrainEndsSession`,
  `CloseCompletes`): fairness and ENABLED are out of the prover's reach.
* `LineIsTheSpeech` (but for what a flush leaves open, its third part), which
  `LineIsTold` checks where windows overlap, and `FrontiersHold` of
  the stream are true under limits on the speech and the decoder: words that jitter by less than the slack and fit in the
  overlap. For every value of the constants they are false (section 4), and the code
  does not state those limits, so no assumption is made of them.
* The properties of `MCAlgorithms`, which are about the one operation tried on one
  input. The library's induction theorems cannot be used, as they take an operator as
  parameter; where an induction was needed it goes by the least counterexample
  (`LeastExists`) over the states of a fold that was unfolded. So it was done for the
  speech segments: `SegmentsFollowTheSpeech` proves the formula that `SpeechIsFound`
  checks, for every input. The other algorithms are left to the run.

The modules use no RECURSIVE operator.

## 6. Plan

What a team would do next, in this order:

1. `FrontiersHold`: from a stated relation of silence, step and slack, and a decoder
   whose words come in order; each of its conjuncts needs one of these.
2. The other searches and folds of `MCAlgorithms`, unfolded as the loop over the speech
   was: the seam of two windows first.
3. The same client dialogue with words that a channel takes back.

## 7. Not modelled

* What is external: ONNX Runtime, axum and tokio, the decoders of compressed audio,
  the numerics of a filter's coefficients and of a logarithm.
* What has no state and no choice: JSON, log lines, metric text and subtitle layout,
  value types that only store a validated number, the wiring of `lib.rs` (one stage
  of `ServiceProcess`), identifiers.
* The warmup decode of a streaming session and timing counters that are only added up.
* The Python client and scripts, which are clients of the protocol: what a client may
  do is in the environment of `WsSession` and `HttpBatch`.
* Interfaces that are functions given to a function: the words a decoder hears, the
  spelling of numbers and paths are constants of their modules, given by the
  instance.

`PROJECT.json` lists every component with its status.
