------------------------------ MODULE StreamSession ------------------------------
(***************************************************************************)
(* One channel of a live transcription (transcription/src/stream.rs): a    *)
(* buffer of audio is decoded again at every step, the words it gives      *)
(* patch the line the client holds, and a prefix of that line becomes      *)
(* final at a pause, at the seam of two windows, or behind the lock.       *)
(*                                                                         *)
(* The decoder is external.  It hears every word that lies inside the      *)
(* buffer, up to Jitter frames off; of a word the buffer's edge cuts it    *)
(* may hear nothing, or something else.                                    *)
(***************************************************************************)
EXTENDS Stitch

CONSTANTS Speeches,         \* what may be said: sequences of words
          Jitter, Edge,     \* the decoder: offsets of whole words, texts of cut ones
          Window, Overlap, Step, Horizon, SeamAfter, KeepSilence,
          AfterSpeech, NoSpeech,        \* StreamConfig and its endpoint rules
          Policies,         \* the StreamLockPolicy values tried
          CutSlack, RepeatTolerance, SameTolerance,     \* 0.06, 0.12, 0.1 s
          Recent,           \* 12 committed words
          Chunks,           \* how much audio arrives at a time
          Silence,          \* a bound on the audio after the last word
          NoWindow          \* no window waits for its seam

ASSUME StreamAssumption ==
    /\ Speeches \subseteq Seq(Word)
    /\ Jitter \subseteq Int /\ Edge \subseteq Texts
    /\ Window \in Nat \ {0} /\ Step \in Nat \ {0} /\ Horizon \in Nat \ {0}
    /\ Overlap \in 0..(Window - 1)
    /\ {SeamAfter, KeepSilence, AfterSpeech, NoSpeech} \subseteq Nat
    /\ Policies \subseteq {"Advisory", "CommitStable"}
    /\ {CutSlack, RepeatTolerance, SameTolerance, Recent, Silence} \subseteq Nat
    /\ Chunks \subseteq Nat \ {0}
    /\ NoWindow \notin [words : Seq(Word), end : Int]

VARIABLES
    speech,     \* what is being said: never changes
    policy,     \* lock_policy: never changes
    start,      \* start_time, the time of the buffer's first frame
    length,     \* frames in the buffer
    decoded,    \* decoded_samples: those of them already decoded
    committed,  \* the words that will not change
    line,       \* emitted: the words the client holds
    finalSent, stableSent,      \* the frontiers the client was told
    previous,   \* the words of a full window waiting for its seam, with its end
    cut,        \* cut_time: words before it are committed
    outcome     \* "live", "flushed" or "failed"

audio == <<start, length, decoded>>
told  == <<line, finalSent, stableSent>>
vars  == <<speech, policy, audio, committed, told, previous, cut, outcome>>

TypeOK ==
    /\ speech \in Speeches /\ policy \in Policies
    /\ start \in Nat /\ length \in 0..Window /\ decoded \in 0..length
    /\ committed \in Seq(Word) /\ line \in Seq(Word)
    /\ finalSent \in 0..Len(line) /\ stableSent \in Nat
    /\ previous \in [words : Seq(Word), end : Int] \union {NoWindow}
    /\ cut \in Int
    /\ outcome \in {"live", "flushed", "failed"}

Init ==
    /\ speech \in Speeches /\ policy \in Policies
    /\ start = 0 /\ length = 0 /\ decoded = 0
    /\ committed = <<>> /\ line = <<>>
    /\ finalSent = 0 /\ stableSent = 0
    /\ previous = NoWindow
    /\ cut = 0
    /\ outcome = "live"

----------------------------------------------------------------------------
(* The decoder and the endpoint detector on the buffer [start, now). *)

Inside(w, now) == w.start >= start /\ w.end <= now
CutByStart(w)  == w.start < start /\ start < w.end
CutByEnd(w, now) == w.start >= start /\ w.start < now /\ now < w.end

\* One decoding of the words inside, each moved by its own offset.
Moved(ws, offset) ==
    [i \in DOMAIN ws |-> WordAt(ws[i].text, Max({start, ws[i].start + offset[i]}),
                                ws[i].end + offset[i])]

Ordered(ws) == \A i \in 2..Len(ws) : ws[i - 1].start <= ws[i].start

Whole(now) == Chosen(speech, {i \in DOMAIN speech : Inside(speech[i], now)})

\* What is made of the word the buffer's start cuts, and of the one its end does.
Heads == {<<WordAt(t, start, speech[i].end)>> :
            t \in Edge, i \in {j \in DOMAIN speech : CutByStart(speech[j])}}
Tails(now) == {<<WordAt(t, speech[i].start, speech[i].end)>> :
                 t \in Edge, i \in {j \in DOMAIN speech : CutByEnd(speech[j], now)}}

Hearings(now) ==
    {h \o Moved(Whole(now), o) \o t :
       h \in Heads \union {<<>>}, o \in [DOMAIN Whole(now) -> Jitter],
       t \in Tails(now) \union {<<>>}}

\* tick keeps the words that start in the buffer and caps their ends.
InBuffer(raw, now) ==
    LET kept == Chosen(raw, {i \in DOMAIN raw : raw[i].start < now})
    IN  [i \in DOMAIN kept |-> WordAt(kept[i].text, kept[i].start, Min({kept[i].end, now}))]

\* The silent frames at the end of the buffer.
TrailingSilence(now) ==
    LET spoken == {i \in DOMAIN speech : speech[i].start < now /\ start < speech[i].end}
    IN  now - Max({start} \union {Min({now, speech[i].end}) : i \in spoken})

\* endpoint.rs, detect.
Endpoint(now, present) ==
    IF present
      THEN IF TrailingSilence(now) >= AfterSpeech THEN "AfterSpeech" ELSE "None"
      ELSE IF TrailingSilence(now) >= NoSpeech THEN "NoSpeech" ELSE "None"

----------------------------------------------------------------------------
(* The parts of a tick. *)

\* Mutated form of OpenWords: words already committed are not looked for.
OpenWordsRepeating(heard, done, cutTime) ==
    Chosen(heard, {i \in DOMAIN heard : heard[i].start >= cutTime - CutSlack})

\* open_words: what the cut leaves of the current window, without the leading
\* words that repeat one of the last committed.
OpenWords(heard, done, cutTime) ==
    LET kept == Chosen(heard,
                       {i \in DOMAIN heard : heard[i].start >= cutTime - CutSlack})
        last == {i \in DOMAIN done : i > Len(done) - Recent}
        repeats == {i \in DOMAIN kept : \E j \in last :
                      /\ Near(done[j].start, kept[i].start, RepeatTolerance)
                      /\ SameSpoken(done[j], kept[i])}
    IN  SubSeq(kept, Leading(Len(kept), repeats) + 1, Len(kept))

\* Mutated form of AfterSeam: the seam replaces what was committed.
AfterSeamReplacing(heard, now) ==
    LET current == OpenWords(heard, committed, cut)
        seam    == Seam(previous.words, previous.end, current, start)
    IN  [done |-> SubSeq(previous.words, 1, seam.count),
         cut  |-> IF seam.skip < Len(current) THEN current[seam.skip + 1].start ELSE now,
         waiting |-> NoWindow]

\* resolve_seam: the waiting window is committed up to the seam.
AfterSeam(heard, now) ==
    LET current == OpenWords(heard, committed, cut)
        seam    == Seam(previous.words, previous.end, current, start)
    IN  [done |-> committed \o SubSeq(previous.words, 1, seam.count),
         cut  |-> IF seam.skip < Len(current) THEN current[seam.skip + 1].start ELSE now,
         waiting |-> NoWindow]

\* Under CommitStable, open words behind the horizon are committed.
AfterLock(s, heard, now) ==
    LET open   == OpenWords(heard, s.done, s.cut)
        locked == Leading(Len(open),
                          {i \in DOMAIN open : open[i].start < now - Horizon})
    IN  IF policy = "CommitStable" /\ s.waiting = NoWindow /\ locked > 0
          THEN [done |-> s.done \o SubSeq(open, 1, locked),
                cut  |-> Max({s.cut, now - Horizon}),
                waiting |-> NoWindow]
          ELSE s

\* open_line: the open words, behind those of a waiting window.
OpenLine(s, heard) ==
    LET open == OpenWords(heard, s.done, s.cut)
    IN  IF s.waiting = NoWindow THEN open
        ELSE Join(s.waiting.words, s.waiting.end, open, start)

\* "same": a word this close to the client's is not sent again.
Same(v, w) == /\ v.text = w.text
              /\ Near(v.start, w.start, SameTolerance)
              /\ Near(v.end, w.end, SameTolerance)

\* revise_from: the client keeps its words up to the first that differs.
Kept(target) ==
    LET shared == Min({Len(line), Len(target)})
    IN  Leading(shared, {i \in 1..shared : Same(line[i], target[i])})

\* Mutated form of Emit: the final frontier follows the stable one.
EmitFinalEarly(done, open, now) ==
    LET target == done \o open
        kept   == Kept(target)
        stable == Leading(Len(target),
                          {i \in DOMAIN target : \/ i <= Len(done)
                                                 \/ target[i].start < now - Horizon})
    IN  /\ line' = SubSeq(line, 1, kept) \o SubSeq(target, kept + 1, Len(target))
        /\ stableSent' = Max({stableSent, stable})
        /\ finalSent' = stableSent'
        /\ committed' = done

\* emit: the patch, then the frontiers, which only advance.
Emit(done, open, now) ==
    LET target == done \o open
        kept   == Kept(target)
        stable == Leading(Len(target),
                          {i \in DOMAIN target : \/ i <= Len(done)
                                                 \/ target[i].start < now - Horizon})
    IN  /\ line' = SubSeq(line, 1, kept) \o SubSeq(target, kept + 1, Len(target))
        /\ stableSent' = Max({stableSent, stable})
        /\ finalSent' = Max({finalSent, Len(done)})
        /\ committed' = done

\* reset_buffer: the last frames of the buffer stay, as if not yet decoded.
ResetBuffer(now, retained) ==
    LET retain == Min({retained, now - start})
    IN  start' = now - retain /\ length' = retain /\ decoded' = retain

KeepBuffer(now) ==
    start' = start /\ length' = now - start /\ decoded' = now - start

----------------------------------------------------------------------------
(* One decoding of the whole buffer, to the time now. *)

\* What the seam and the lock commit before the tick decides.
Settled(heard, now, resolves) ==
    AfterLock(IF previous # NoWindow /\ resolves
                THEN AfterSeam(heard, now)
                ELSE [done |-> committed, cut |-> cut, waiting |-> previous],
              heard, now)

\* Mutated form of EndUtterance: the cut is taken before the buffer moves.
EndUtteranceStale(s, heard, now, retained) ==
    /\ Emit(s.done \o OpenLine(s, heard), <<>>, now)
    /\ ResetBuffer(now, retained)
    /\ cut' = start /\ previous' = s.waiting

\* The utterance ends: everything open is committed.
EndUtterance(s, heard, now, retained) ==
    /\ Emit(s.done \o OpenLine(s, heard), <<>>, now)
    /\ ResetBuffer(now, retained)
    /\ cut' = start' /\ previous' = s.waiting

\* Nothing was said: the buffer is dropped.
DropSilence(s, heard, now, retained) ==
    /\ Emit(s.done, OpenLine(s, heard), now)
    /\ ResetBuffer(now, retained)
    /\ cut' = start' /\ previous' = s.waiting

\* The window is full: its open words wait for the next one's.
NextWindow(s, heard, now) ==
    /\ Emit(s.done, OpenLine(s, heard), now)
    /\ previous' = [words |-> OpenLine(s, heard), end |-> now]
    /\ ResetBuffer(now, Overlap)
    /\ cut' = s.cut

GoOn(s, heard, now) ==
    /\ Emit(s.done, OpenLine(s, heard), now)
    /\ KeepBuffer(now)
    /\ cut' = s.cut /\ previous' = s.waiting

Advance(now) ==
    \E raw \in Hearings(now) :
      LET heard    == InBuffer(raw, now)
          present  == previous # NoWindow \/ heard # <<>>
          endpoint == Endpoint(now, present)
          full     == now - start >= Window
          s == Settled(heard, now, \/ now - start >= Overlap + SeamAfter
                                   \/ endpoint # "None" \/ full)
      IN  \/ endpoint = "AfterSpeech" /\ EndUtterance(s, heard, now, KeepSilence)
          \/ endpoint = "NoSpeech" /\ DropSilence(s, heard, now, KeepSilence)
          \/ endpoint = "None" /\ full /\ NextWindow(s, heard, now)
          \/ endpoint = "None" /\ ~full /\ GoOn(s, heard, now)

Finish(now) ==
    \E raw \in Hearings(now) :
      LET heard == InBuffer(raw, now)
          s     == Settled(heard, now, TRUE)
      IN  \/ /\ previous # NoWindow \/ heard # <<>>
             /\ EndUtterance(s, heard, now, 0)
          \/ /\ previous = NoWindow /\ heard = <<>>
             /\ DropSilence(s, heard, now, 0)

----------------------------------------------------------------------------
(* What the session is asked. *)

Untouched == UNCHANGED <<committed, told, previous, cut>>

Ending == Max({0} \union {speech[i].end : i \in DOMAIN speech}) + Silence

\* One round of push's loop: audio up to the next step or the window's end,
\* and a tick there.  A window that is full and did not shrink is an error,
\* and so is a decoding that fails.
Push(n) ==
    LET take  == Min({n, Window - length, Max({0, Step - (length - decoded)})})
        grown == length + take
        now   == start + grown
    IN  /\ outcome = "live" /\ now <= Ending
        /\ UNCHANGED <<speech, policy>>
        /\ \/ /\ grown < Window /\ grown - decoded < Step
              /\ length' = grown
              /\ Untouched /\ UNCHANGED <<start, decoded, outcome>>
           \/ /\ grown >= Window \/ grown - decoded >= Step
              /\ Advance(now)
              /\ outcome' = IF take = 0 /\ length' >= Window THEN "failed" ELSE "live"
           \/ /\ grown >= Window \/ grown - decoded >= Step
              /\ length' = grown /\ outcome' = "failed"
              /\ Untouched /\ UNCHANGED <<start, decoded>>

\* flush: an empty buffer is not looked at again.
Flush ==
    /\ outcome = "live"
    /\ UNCHANGED <<speech, policy>>
    /\ \/ /\ length = 0 /\ outcome' = "flushed"
          /\ Untouched /\ UNCHANGED audio
       \/ /\ length > 0 /\ outcome' = "flushed"
          /\ Finish(start + length)
       \/ /\ length > 0 /\ outcome' = "failed"
          /\ Untouched /\ UNCHANGED audio

Next == Flush \/ \E n \in Chunks : Push(n)

Spec == Init /\ [][Next]_vars

----------------------------------------------------------------------------
(* Properties. *)

\* API.md: a final word is immutable.  Nothing the client was told is final
\* is ever patched, whatever the decoder says afterwards.
FinalIsImmutable ==
    [][/\ finalSent' >= finalSent /\ finalSent <= Len(line')
       /\ \A i \in 1..finalSent : line'[i] = line[i]]_vars

\* The client's final prefix is what the session has committed, word for
\* word, up to the differences a patch does not send.
FinalIsCommitted ==
    /\ finalSent = Len(committed) /\ finalSent <= Len(line)
    /\ \A i \in 1..finalSent : Same(line[i], committed[i])
    /\ finalSent <= stableSent

\* API.md: in the stable part of the line "order is settled".  With a decoder
\* that is reliable away from the edges of its buffer, no stable word is taken
\* back or replaced, even before it is final.
StableIsSettled ==
    \A i \in 1..stableSent :
        i <= Len(line) => i <= Len(line') /\ line'[i].text = line[i].text

\* Once all has been said and the session flushed, each word was committed
\* exactly once and in its order: no seam, endpoint or lock loses or repeats
\* one.
HeardOnce ==
    outcome = "flushed" /\ start >= Ending - Silence =>
       /\ Len(committed) = Len(speech)
       /\ \A i \in DOMAIN speech : SameSpoken(committed[i], speech[i])

\* The dialogue merger refuses a line that is out of order (dialog.rs,
\* validate_channels) and the session with it.
LineInOrder == Ordered(line)

\* The cut is the channel's vote on the immutable dialogue frontier: but for
\* the slack it never moves back, and no word comes into being before it: of
\* the words there, the client holds only those it held.
CutIsFrontier ==
    /\ cut' >= cut - CutSlack
    /\ \A i \in DOMAIN line' :
         \/ line'[i].start >= cut - CutSlack
         \/ \E j \in DOMAIN line : line[j] = line'[i]

\* stream.rs says of flush: "Ends the stream by decoding and committing its
\* remaining tail."  After a flush no word the client holds is still open.
FlushedWhole == outcome = "flushed" => finalSent = Len(line)

\* What a flush does not look at: when windows do not overlap, the words of a
\* window that was exactly full stand behind an empty buffer.
Unlooked ==
    IF Overlap = 0 /\ length = 0 /\ previous # NoWindow THEN previous.words ELSE <<>>

\* A flush leaves open no more, and no less, than that.
FlushLeavesUnlooked ==
    outcome = "flushed" => Len(line) = finalSent + Len(Unlooked)

\* The line the client holds is the speech: in order at every moment, and in
\* the end every word once, with nothing left uncommitted by the flush.
LineIsTheSpeech == HeardOnce /\ LineInOrder /\ FlushedWhole

\* What the client was told is settled, and what may still come, never cross.
FrontiersHold == [][StableIsSettled /\ CutIsFrontier]_vars
=============================================================================
