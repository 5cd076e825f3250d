------------------------------- MODULE MultiBatch -------------------------------
(***************************************************************************)
(* All channels of a recording transcribed as a whole, all or nothing       *)
(* (transcription/src/multi_batch.rs), and the dialogue of a recording      *)
(* from streaming sessions (multi_stream.rs transcribe_offline_dialog).     *)
(* Channels are numbered from 0; a recording is a function on them.         *)
(***************************************************************************)
EXTENDS BatchTranscription

CONSTANTS TurnGap, Backchannel, Fuzz, Never

Selection == INSTANCE ChannelSelection
Lines     == INSTANCE Turns
Dialog    == INSTANCE Dialogue

Stages == {"vad", "frontend", "decode"}

\* MultiChannelBatchResult::new and validate_selected_channels.
BatchResult(count, channels, total) ==
    IF \/ channels = <<>>
       \/ \E i \in DOMAIN channels : channels[i].channel >= count
       \/ \E i \in 2..Len(channels) : channels[i].channel <= channels[i - 1].channel
       \/ \E stage \in Stages : total[stage] < 0
      THEN Refused ELSE Ok(channels)

\* ChannelTimingAggregate::record: what one channel adds to the total.
Recorded(aggregate, before, after) ==
    IF before # aggregate.expected \/ \E s \in Stages : after[s] < before[s] THEN Refused
    ELSE Ok([expected |-> after,
             total |-> [s \in Stages |-> aggregate.total[s] + after[s] - before[s]]])

\* What transcribe, transcribe_with_vad and transcribe_scored do with one channel.
TranscribeOne(t, recording, c, way) ==
    CASE way = "plain" -> TranscribeChannel(t, recording.lines[c], recording.length, <<c>>)
      [] way = "vad" -> TranscribeChannelWithVad(t, recording.lines[c], recording.length,
                          recording.probabilities[c], recording.policy, <<c>>)
      [] way \in {"scored", "scored_vad"} ->
           TranscribeScored(t, recording.lines[c], recording.length, recording.probabilities[c],
                            IF way = "scored" THEN <<>> ELSE <<recording.policy>>, <<c>>)

\* One more channel of transcribe_using: what its call returned joins the result.
ChannelDone(state, c, call) ==
    LET line      == Lines!ChannelTranscript(c, call.result.value.words)
        aggregate == Recorded(state.result.value.aggregate, state.transcriber.timings,
                              call.transcriber.timings)
    IN  IF ~call.result.ok THEN call
        ELSE IF Cancelled(call.transcriber) \/ ~aggregate.ok \/ ~line.ok
          THEN Returned(call.transcriber, Err("transcription"))
        ELSE Returned(call.transcriber,
               Ok([aggregate |-> aggregate.value,
                   channels |-> Append(state.result.value.channels, line.value)]))

\* The end of transcribe_using: the channels' result, if it is a valid one.
RecordingDone(recording, duplicate, gap, all) ==
    LET channels == all.result.value.channels
        total    == all.result.value.aggregate.total
        turns    == Lines!DialogTurns(channels, gap)
    IN  IF ~all.result.ok \/ ~BatchResult(recording.count, channels, total).ok \/ ~turns.ok
          THEN Returned(all.transcriber, Err("transcription"))
          ELSE Returned(all.transcriber, Ok(
                 [duplicate |-> duplicate, channels |-> channels, turns |-> turns.value,
                  segments |-> Lines!ChannelSegments(channels, gap), timings |-> total]))

\* transcribe_using: the selected channels in turn on one transcriber.
TranscribeUsing(t, recording, projection, gap, way, alike) ==
    LET chosen == Selection!SelectBatch(recording.count, projection, alike)
        begun  == Returned(t, Ok([channels |-> <<>>, aggregate |->
                                    [expected |-> t.timings, total |-> NoTimings]]))
        One(state, c) ==
          IF ~state.result.ok THEN state
          ELSE ChannelDone(state, c, TranscribeOne(state.transcriber, recording, c, way))
    IN  IF Cancelled(t) THEN Returned(t, Err("transcription"))
        ELSE IF recording.rate # t.setup.rate THEN Returned(t, Err("input"))
        ELSE IF ~chosen.ok THEN Returned(t, Err("selection"))
        ELSE RecordingDone(recording, chosen.value.duplicate, gap,
               FoldLeft(One, begun, SetToSortSeq(chosen.value.selection, <)))

\* transcribe_with_vad looks at the control and the rate first.
Transcribe(t, recording, projection, gap, way, alike) ==
    IF way = "vad" /\ ~Cancelled(t) /\ t.setup.rate # Rate THEN Returned(t, Err("input"))
    ELSE TranscribeUsing(t, recording, projection, gap, way, alike)

----------------------------------------------------------------------------
(* The offline dialogue.                                                     *)

\* create_warmed_session_with_origin.
CreateWarmed(made) ==
    CASE ~made.factory -> Err("Factory")
      [] made.factory /\ (made.changed \/ made.rateDiffers \/ ~made.constructed) ->
           Err("SessionConstruction")
      [] made.factory /\ ~made.changed /\ ~made.rateDiffers /\ made.constructed /\ ~made.warm ->
           Err("SessionWarmup")
      [] made.factory /\ ~made.changed /\ ~made.rateDiffers /\ made.constructed /\ made.warm ->
           Ok(<<>>)

\* A retained channel: created, warmed, pushed, flushed, and its snapshot taken.
\* step is where its session fails, if it does.
OfflineSession(channel, session) ==
    Then(CreateWarmed(session.made), LAMBDA created :
        IF session.step \in {"SessionPush", "SessionFlush", "Snapshot"} THEN Err(session.step)
        ELSE Ok([session.snapshot EXCEPT !.channel = channel]))

\* validate_final_dialogue.
ValidFinalDialogue(dialogue, active, count) ==
    \A i \in DOMAIN dialogue :
      /\ dialogue[i].final /\ dialogue[i].stable
      /\ dialogue[i].channel \in active /\ dialogue[i].channel < count
      /\ dialogue[i].index = Cardinality({j \in 1..(i - 1) : dialogue[j].channel = dialogue[i].channel})
      /\ i > 1 => \/ dialogue[i - 1].start < dialogue[i].start
                  \/ dialogue[i - 1].start = dialogue[i].start
                     /\ dialogue[i - 1].channel <= dialogue[i].channel

\* transcribe_offline_dialog.  A failure carries the observations committed
\* before it: the selection, once there is one.
OfflineDialog(count, policy, empty, sessions, alike) ==
    LET active == Selection!SelectPairwise(count, policy, empty, alike)
        order  == SetToSortSeq(active.value, <)
        taken  == Collected([k \in DOMAIN order |-> OfflineSession(order[k], sessions[order[k]])])
        merged == Dialog!UpdateWith(Dialog!NewMerger, taken.value, "Terminal")
        observed == <<active.value>>
    IN  IF ~active.ok THEN [result |-> Err("ChannelSelection"), observed |-> <<>>]
        ELSE IF ~taken.ok THEN [result |-> taken, observed |-> observed]
        ELSE IF ~merged.ok THEN [result |-> Err("Dialog"), observed |-> observed]
        ELSE IF ~ValidFinalDialogue(merged.value.merger.last, active.value, count)
          THEN [result |-> Err("ResultValidation"), observed |-> observed]
        ELSE [result |-> Ok(merged.value.merger.last), observed |-> observed]
================================================================================
