------------------------------- MODULE MultiStream -------------------------------
(***************************************************************************)
(* A session of several channels (transcription/src/multi_stream.rs):       *)
(* interleaved bytes are split into channels and resampled, held back until *)
(* the channels to transcribe are chosen, fed to one streaming session per  *)
(* channel, and what those say is merged into one dialogue.                 *)
(*                                                                         *)
(* Framing, resampling, selection and merging are the operators of their    *)
(* modules.  A channel's streaming session is taken by what StreamSession   *)
(* shows of it: its final words stay, no word comes into being behind its   *)
(* cut, and a flush makes every word final.  One sample of model-rate audio *)
(* is one unit of time.                                                     *)
(***************************************************************************)
EXTENDS AudioFormats, Resampling, ChannelSelection, Dialogue

CONSTANTS Count,            \* source channels
          Taps,             \* taps per phase: 48 in the code
          Setups,           \* see below
          AnalysisWindow,   \* samples of evidence for the choice
          Speech,           \* what is said in each channel
          Sizes,            \* how many bytes arrive at a time
          Frames,           \* a bound on the frames that arrive
          Slack             \* how far a channel's cut may step back

Channels == AllChannels(Count)

\* A setup: the format of the samples, the policy that chooses channels, what is
\* sent, the pair <<source, model>> of sample rates, and which channels are
\* alike (sets of two).
SetupAssumption ==
    \A s \in Setups :
        /\ s.format \in {"Pcm16", "F32", "Alaw", "Ulaw"}
        /\ s.rates \in (Nat \ {0}) \X (Nat \ {0})
        /\ s.policy \in {"AllChannels", "Deduplicate"}
        /\ s.mode \in {"Words", "Dialog", "WordsAndDialog"}
        /\ RatePair(s.rates[1], s.rates[2]).ok
        /\ s.alike \subseteq SUBSET Channels

\* The words of a channel are said in order, and each lasts: a word ends behind its
\* last token (tokens_to_words).
SpeechAssumption ==
    \A c \in Channels :
        /\ Speech[c] \in Seq([text : {Speech[c][i].text : i \in DOMAIN Speech[c]},
                              start : Nat, end : Nat])
        /\ \A i \in DOMAIN Speech[c] :
             /\ Speech[c][i].start < Speech[c][i].end
             /\ i > 1 => Speech[c][i - 1].start <= Speech[c][i].start

ASSUME MultiStreamAssumption ==
    /\ SetupAssumption /\ SpeechAssumption
    /\ Taps \in Nat /\ Taps >= 2        \* MINIMUM_TAPS_PER_PHASE
    /\ Count \in Nat \ {0} /\ AnalysisWindow \in Nat \ {0}
    /\ Sizes \subseteq Nat \ {0} /\ Frames \in Nat
    /\ Fuzz \in Nat /\ Slack \in 0..Fuzz
    /\ Never \in Int /\ Never < 0

VARIABLES
    setup,      \* MultiChannelStreamSetup: never changes
    lifecycle,  \* the phase, and the selection once Active
    decoder,    \* the frame decoder
    candidates, \* for each channel its adapter, pending audio and session
    merger,     \* the dialogue merger
    client,     \* the dialogue the client holds
    observed,   \* the observations the caller was given
    sent        \* bytes that have arrived

vars == <<setup, lifecycle, decoder, candidates, merger, client, observed, sent>>

Plan == Resampler(RatePair(setup.rates[1], setup.rates[2]).value, Taps).value

\* new: every channel gets its adapter and its session before any is chosen.
Init ==
    /\ setup \in Setups
    /\ lifecycle = IF setup.policy = "AllChannels"
                     THEN [phase |-> "Active", selection |-> Channels]
                     ELSE [phase |-> "Buffering", selection |-> {}]
    /\ decoder = NewFrameDecoder(setup.format, Count)
    /\ candidates = [c \in Channels |->
          [adapter |-> NewStreamResampler(Plan), pending |-> <<>>,
           fed |-> <<>>, done |-> <<>>, shown |-> 0, cut |-> 0]]
    /\ merger = NewMerger /\ client = <<>>
    /\ observed = <<>> /\ sent = 0

----------------------------------------------------------------------------
(* One channel's session. *)

\* The words begun so far; the last may still be going on.
Heard(c, now) ==
    LET begun == {i \in DOMAIN Speech[c] : Speech[c][i].start < now}
    IN  [i \in 1..Cardinality(begun) |-> [Speech[c][i] EXCEPT !.end = Min({@, now})]]

\* Its snapshot: the final words, then the open ones found so far.
Snapshot(c, candidate) ==
    LET heard == Heard(c, Len(candidate.fed))
        done  == candidate.done
        Mark(w, f) == [start |-> w.start, end |-> w.end, text |-> w.text,
                       final |-> f, stable |-> f]
    IN  [channel |-> c, cut |-> candidate.cut, stable |-> candidate.cut,
         words |-> [i \in 1..candidate.shown |->
                      IF i <= Len(done) THEN Mark(done[i], TRUE)
                      ELSE Mark(heard[i], FALSE)]]

\* StreamSession::push: any number of ticks, each of which may find more words,
\* make more of them final and move the cut to a place between the final words
\* and the others.  That a word already shown is taken back is left out.
Pushes(c, candidate, audio) ==
    LET fed   == candidate.fed \o audio
        heard == Heard(c, Len(fed))
        k0    == Len(candidate.done)
        cuts  == {candidate.cut, Len(fed)}
                   \union {Max({0, heard[i].start - Slack}) : i \in DOMAIN heard}
        Fits(k, shown, cut) ==
            /\ cut >= candidate.cut - Slack /\ cut <= Len(fed)
            /\ k <= shown /\ candidate.shown <= shown
            /\ k > k0 => heard[k].start <= cut
            /\ k < Len(heard) => heard[k + 1].start >= cut - Slack
    IN  IF audio = <<>> THEN {candidate}
        ELSE {[candidate EXCEPT !.fed = fed, !.shown = t[2], !.cut = t[3],
                                !.done = @ \o SubSeq(heard, k0 + 1, t[1])] :
                t \in {p \in (k0..Len(heard)) \X {candidate.shown, Len(heard)} \X cuts :
                         Fits(p[1], p[2], p[3])}}

\* StreamSession::flush: every word is final and the cut is at the end.
Flushed(c, candidate) ==
    LET heard == Heard(c, Len(candidate.fed))
    IN  [candidate EXCEPT !.cut = Len(candidate.fed), !.shown = Len(heard),
                          !.done = @ \o SubSeq(heard, Len(@) + 1, Len(heard))]

----------------------------------------------------------------------------
(* Going through the channels in ascending order, until one fails. *)

\* What becomes of the candidates when each of some channels is to become one
\* of "does": all of them do, or those before the one that fails, which is left
\* as in "failing".
Outcomes(cands, does, failing) ==
    LET touched == DOMAIN does
        results == {g \in [touched -> UNION {does[c] : c \in touched}] :
                      \A c \in touched : g[c] \in does[c]}
        UpTo(g, limit) == [c \in Channels |->
            IF c \notin touched \/ c > limit THEN cands[c]
            ELSE IF c = limit THEN failing[c] ELSE g[c]]
    IN  {[failed |-> FALSE, cands |-> UpTo(g, Count)] : g \in results}
          \union {[failed |-> TRUE, cands |-> UpTo(g, f)] : g \in results, f \in touched}

\* select_pending: the evidence is the analysis window, or all there is.
SelectPending(cands) ==
    SelectPairwise(Count, "Deduplicate", \A c \in Channels : cands[c].pending = <<>>, setup.alike)

\* Mutated form of ReleasePending: what was held back stays, to be pushed again.
ReleasePendingKept(cands, selection) ==
    LET Cleared(candidate) == [candidate EXCEPT !.pending = <<>>]
        dropped == [c \in Channels |-> IF c \in selection THEN cands[c] ELSE Cleared(cands[c])]
    IN  Outcomes(dropped, [c \in selection |-> Pushes(c, cands[c], cands[c].pending)], cands)

\* release_pending: what was held back of a selected channel is pushed, that of
\* the others is dropped.
ReleasePending(cands, selection) ==
    LET Cleared(candidate) == [candidate EXCEPT !.pending = <<>>]
        dropped == [c \in Channels |-> IF c \in selection THEN cands[c] ELSE Cleared(cands[c])]
        cleared == [c \in Channels |-> Cleared(cands[c])]
    IN  Outcomes(dropped, [c \in selection |-> Pushes(c, cleared[c], cands[c].pending)], cleared)

\* push_active: a selected channel's samples go through its adapter at once.
PushActive(cands, selection, channels) ==
    LET Through(c) == PushSamples(cands[c].adapter, channels[c + 1])
    IN  Outcomes(cands,
          [c \in selection |->
             Pushes(c, [cands[c] EXCEPT !.adapter = Through(c).state], Through(c).output)],
          cands)

\* push_buffered, up to the choice.
Held(cands, channels) ==
    [c \in Channels |->
        LET pushed == PushSamples(cands[c].adapter, channels[c + 1])
        IN  [cands[c] EXCEPT !.adapter = pushed.state, !.pending = @ \o pushed.output]]

\* finish_all_candidate_adapters.
FinishAdapters(cands) ==
    [c \in Channels |->
        [cands[c] EXCEPT !.pending = @ \o FinishSamples(cands[c].adapter)]]

\* Mutated form of FinishActive: the sessions are not flushed.
FinishActiveUnflushed(cands, selection) ==
    Outcomes(cands,
        [c \in selection |-> Pushes(c, cands[c], FinishSamples(cands[c].adapter))], cands)

\* finish_active_sessions: each channel's tail, and then its flush.
FinishActive(cands, selection) ==
    Outcomes(cands,
        [c \in selection |->
           {Flushed(c, pushed) : pushed \in Pushes(c, cands[c], FinishSamples(cands[c].adapter))}],
        cands)

\* flush_active_sessions.
FlushActive(cands, selection) ==
    Outcomes(cands, [c \in selection |-> {Flushed(c, cands[c])}], cands)

----------------------------------------------------------------------------
(* What the caller is given. *)

Observation(kind, selection) == [kind |-> kind, selection |-> selection]

\* The state that a call passes on: the candidates, merger and client so far and
\* the observations of this call.
Call(cands, observations) ==
    [failed |-> FALSE, cands |-> cands, merger |-> merger, client |-> client,
     observations |-> observations]

\* incremental_groups, terminal_groups, groups_for: in Words mode the merger is
\* never asked.
Merged(call, selection, mode) ==
    LET order     == Ascending(selection)
        snapshots == [i \in DOMAIN order |-> Snapshot(order[i], call.cands[order[i]])]
        update    == UpdateWith(call.merger, snapshots, mode)
    IN  IF setup.mode = "Words" THEN call
        ELSE IF ~update.ok THEN [call EXCEPT !.failed = TRUE]
        ELSE IF update.value.patch = <<>>
          THEN [call EXCEPT !.merger = update.value.merger]
          ELSE [call EXCEPT !.merger = update.value.merger,
                            !.client = Patched(@, update.value.patch[1]),
                            !.observations = Append(@, Observation("DialogPatchGenerated", {}))]

\* A call whose channels came out as "outcome", and its update of the dialogue.
After(call, outcome, selection, mode) ==
    LET next == [call EXCEPT !.cands = outcome.cands]
    IN  IF outcome.failed THEN [next EXCEPT !.failed = TRUE]
        ELSE Merged(next, selection, mode)

\* Mutated form of Conclude: a failure reports nothing but its error.
ConcludeSilently(call, phase, selection) ==
    /\ candidates' = call.cands /\ merger' = call.merger /\ client' = call.client
    /\ observed' = observed \o (IF call.failed THEN <<>> ELSE call.observations)
    /\ lifecycle' = IF call.failed THEN [phase |-> "Failed", selection |-> {}]
                    ELSE [phase |-> phase, selection |-> selection]

\* The step or the failure that ends a call: both carry its observations, and a
\* failure makes the session's last state.
Conclude(call, phase, selection) ==
    /\ candidates' = call.cands /\ merger' = call.merger /\ client' = call.client
    /\ observed' = observed \o call.observations
    /\ lifecycle' = IF call.failed THEN [phase |-> "Failed", selection |-> {}]
                    ELSE [phase |-> phase, selection |-> selection]

\* commit_selection.
Committed(selection) == <<Observation("ChannelSelectionCommitted", selection)>>

----------------------------------------------------------------------------
(* The calls. *)

FrameSize == BytesPerSample(setup.format) * Count

\* The bytes numbered from "from", each its own number.
Arriving(from, n) == [i \in 1..n |-> from + i]

\* push while the channels are not chosen yet.
PushBuffered(channels) ==
    LET held == Held(candidates, channels)
    IN  IF \E c \in Channels : Len(held[c].pending) < AnalysisWindow
          THEN Conclude(Call(held, <<>>), "Buffering", {})
          ELSE LET selection == SelectPending(held).value
               IN  \E outcome \in ReleasePending(held, selection) :
                     Conclude(After(Call(held, Committed(selection)), outcome,
                                    selection, "Incremental"),
                              "Active", selection)

Push(n) ==
    LET pushed == PushBytes(decoder, Arriving(sent, n))
    IN  /\ lifecycle.phase \in {"Buffering", "Active"}
        /\ sent + n <= Frames * FrameSize
        /\ sent' = sent + n /\ decoder' = pushed.decoder /\ UNCHANGED setup
        /\ \/ /\ ~pushed.result.ok
              /\ Conclude([Call(candidates, <<>>) EXCEPT !.failed = TRUE], "Failed", {})
           \/ /\ pushed.result.ok /\ pushed.result.value = <<>>
              /\ UNCHANGED <<lifecycle, candidates, merger, client, observed>>
           \/ /\ pushed.result.ok /\ pushed.result.value # <<>>
              /\ lifecycle.phase = "Buffering"
              /\ PushBuffered(pushed.result.value)
           \/ /\ pushed.result.ok /\ pushed.result.value # <<>>
              /\ lifecycle.phase = "Active"
              /\ \E outcome \in PushActive(candidates, lifecycle.selection,
                                           pushed.result.value) :
                   Conclude(After(Call(candidates, <<>>), outcome,
                                  lifecycle.selection, "Incremental"),
                            "Active", lifecycle.selection)

\* finish while the channels are not chosen yet: what was held back is released
\* and shown, and only then are the sessions flushed.
FinishBuffered ==
    LET held == FinishAdapters(candidates)
        selection == SelectPending(held).value
    IN  \E released \in ReleasePending(held, selection) :
          LET shown == After(Call(held, Committed(selection)), released,
                             selection, "Incremental")
          IN  \/ shown.failed /\ Conclude(shown, "Finished", selection)
              \/ ~shown.failed /\ \E flushed \in FlushActive(shown.cands, selection) :
                   Conclude(After(shown, flushed, selection, "Terminal"),
                            "Finished", selection)

\* finish consumes the session; an incomplete frame fails it.
Finish ==
    /\ lifecycle.phase \in {"Buffering", "Active"}
    /\ UNCHANGED <<setup, decoder, sent>>
    /\ \/ /\ ~FinishFrames(decoder).ok
          /\ Conclude([Call(candidates, <<>>) EXCEPT !.failed = TRUE], "Finished", {})
       \/ /\ FinishFrames(decoder).ok /\ lifecycle.phase = "Buffering"
          /\ FinishBuffered
       \/ /\ FinishFrames(decoder).ok /\ lifecycle.phase = "Active"
          /\ \E outcome \in FinishActive(candidates, lifecycle.selection) :
               Conclude(After(Call(candidates, <<>>), outcome,
                              lifecycle.selection, "Terminal"),
                        "Finished", lifecycle.selection)

Next == Finish \/ \E n \in Sizes : Push(n)

Spec == Init /\ [][Next]_vars

----------------------------------------------------------------------------
(* Properties. *)

\* The samples of channel c in the frames that have arrived in full, before the
\* first that is refused.
Source(c) ==
    LET Sample(f, d) == DecodeSample(setup.format,
            SampleAt(Arriving(0, sent), BytesPerSample(setup.format), (f - 1) * Count + d))
        good == {f \in 1..(sent \div FrameSize) :
                   \A g \in 1..f, d \in Channels : Sample(g, d).ok}
    IN  [f \in good |-> Sample(f, c).value]

\* However the bytes are cut, whenever the channels are chosen: what a session
\* was fed, with what is held back for it, is what resampling its channel as a
\* whole gives so far, every sample once and in order, and all of it at the end.
\* A channel that is not selected is fed nothing.
FedWhatWasSent ==
    \A c \in Channels :
        LET whole == Process(Plan, Source(c))
            got   == candidates[c].fed \o candidates[c].pending
        IN  /\ lifecycle.phase # "Failed" => IsPrefix(got, whole)
            /\ IsPrefix(candidates[c].fed, whole)
            /\ lifecycle.phase = "Finished" /\ c \in lifecycle.selection =>
                 candidates[c].fed = whole
            /\ lifecycle.phase \in {"Active", "Finished"} /\ c \notin lifecycle.selection =>
                 got = <<>>

Told == {i \in DOMAIN observed : observed[i].kind = "ChannelSelectionCommitted"}

FedChannels == {c \in Channels : candidates[c].fed # <<>>}

\* The caller learns the choice of channels exactly once, even when the call
\* that made it fails, and only channels of that choice are ever fed.
SelectionIsTold ==
    setup.policy = "Deduplicate" =>
        /\ \A i, j \in Told : i = j
        /\ FedChannels # {} => \E i \in Told : FedChannels \subseteq observed[i].selection
        /\ lifecycle.phase \in {"Active", "Finished"} =>
             \E i \in Told : observed[i].selection = lifecycle.selection

\* The patches keep the client's dialogue like the merger's own; the times of
\* an open turn may lag behind, those of a final one only by the tolerance.
ClientHoldsDialogue ==
    /\ Len(client) = Len(merger.last)
    /\ \A i \in DOMAIN client :
         LET t == client[i]
             u == merger.last[i]
         IN  /\ [t EXCEPT !.start = u.start, !.end = u.end] = u
             /\ t.final => SameTurn(t, u)

\* API.md: the dialogue behind the frontier is immutable.  A turn that was final
\* keeps its place, its start and all its words; later words may follow them.
FinalTurnKeepsItsWords ==
    [][\A i \in DOMAIN client : client[i].final =>
         /\ i <= Len(client')
         /\ client'[i].channel = client[i].channel
         /\ client'[i].index = client[i].index
         /\ client'[i].start = client[i].start
         /\ IsPrefix(client[i].text, client'[i].text)]_vars

\* The turns of channel c, put one after the other, are the words of its speech:
\* each begins at a word, its text is that of the words from there, and together, in
\* the order of the dialogue, they take every word once.
TurnsAreTheWords(c) ==
    LET words == Heard(c, Len(candidates[c].fed))
        turns == {i \in DOMAIN client : client[i].channel = c}
    IN  \E first \in [turns -> DOMAIN words] :
          /\ \A i \in turns : \A k \in DOMAIN client[i].text :
               /\ first[i] + k - 1 \in DOMAIN words
               /\ client[i].text[k] = words[first[i] + k - 1].text
          /\ \A i, j \in turns : i < j => first[i] + Len(client[i].text) <= first[j]
          /\ \A p \in DOMAIN words :
               \E i \in turns : p - first[i] + 1 \in DOMAIN client[i].text

\* Once a session has finished, every turn is final and every word of the
\* selected channels is in its turns, as the offline dialogue demands of its
\* result (validate_final_dialogue).
FinishedIsFinal ==
    lifecycle.phase = "Finished" /\ setup.mode # "Words" =>
        /\ \A i \in DOMAIN client : client[i].final /\ client[i].stable
        /\ \A c \in lifecycle.selection : TurnsAreTheWords(c)

\* What the client was sent is the merged dialogue, and in the end all of it.
ClientHoldsAll == ClientHoldsDialogue /\ FinishedIsFinal

\* API.md: "A final word or turn is immutable".
FinalTurnStays ==
    [][\A i \in DOMAIN client : client[i].final =>
         i <= Len(client') /\ client'[i] = client[i]]_vars
================================================================================
