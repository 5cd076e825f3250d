--------------------------------- MODULE Dialogue ---------------------------------
(***************************************************************************)
(* The dialogue of several channels (transcription/src/dialog.rs): each     *)
(* channel's words are cut into turns at the pauses, the turns of all       *)
(* channels are put in order, and the client is sent the tail that changed. *)
(* Times are integers in units of APPROXIMATE_TIMESTAMP_SECONDS.            *)
(***************************************************************************)
EXTENDS Outcome, FiniteSets, FiniteSetsExt, SequencesExt

CONSTANTS TurnGap,              \* a pause that ends a turn
          Backchannel,          \* the longest backchannel: <<>> if they are not marked
          Fuzz,                 \* APPROXIMATE_TIMESTAMP_SECONDS
          Never                 \* a time before all others

\* DialogMerger::new: no turns, and frontiers before all time.
NewMerger == [last |-> <<>>, final |-> Never, stable |-> Never]

\* validate_channels: distinct channels, each with its words in order.
ValidChannels(snapshots) ==
    /\ \A i, j \in DOMAIN snapshots :
         snapshots[i].channel = snapshots[j].channel => i = j
    /\ \A i \in DOMAIN snapshots : \A k \in 2..Len(snapshots[i].words) :
         snapshots[i].words[k - 1].start <= snapshots[i].words[k].start

\* Mutated form of AdvanceFrontiers: the channel that is furthest ahead decides.
AdvanceFrontiersEagerly(merger, snapshots, mode) ==
    LET fuzz == IF mode = "Incremental" THEN Fuzz ELSE 0
        cuts == {snapshots[i].cut - fuzz : i \in DOMAIN snapshots}
        stables == {snapshots[i].stable : i \in DOMAIN snapshots}
    IN  IF snapshots = <<>> THEN merger
        ELSE [merger EXCEPT !.final = Max({@, Max(cuts)}),
                            !.stable = Max({@, Min(stables)})]

\* advance_frontiers: as far as every channel has come, and never back.
AdvanceFrontiers(merger, snapshots, mode) ==
    LET fuzz == IF mode = "Incremental" THEN Fuzz ELSE 0
        cuts == {snapshots[i].cut - fuzz : i \in DOMAIN snapshots}
        stables == {snapshots[i].stable : i \in DOMAIN snapshots}
    IN  IF snapshots = <<>> THEN merger
        ELSE [merger EXCEPT !.final = Max({@, Min(cuts)}),
                            !.stable = Max({@, Min(stables)})]

\* DialogTurn::new; what the turns of a dialogue are made of.
DialogTurn(channel, index, start, end, words, final, stable) ==
    [channel |-> channel, index |-> index, start |-> start, end |-> end,
     text    |-> [i \in DOMAIN words |-> words[i].text],
     final   |-> final, stable |-> stable, backchannel |-> FALSE]

\* TurnsPatch::new: the turns that replace the dialogue from a place on.
TurnsPatch(from, turns, frontier) == [from |-> from, turns |-> turns, frontier |-> frontier]

\* finish_turn: a turn is final when all its words are and it ends behind the
\* frontier, and stable likewise.
FinishTurn(merger, channel, index, words) ==
    LET start == words[1].start
        end   == Max({start} \union {words[i].end : i \in DOMAIN words})
        final == (\A i \in DOMAIN words : words[i].final) /\ end <= merger.final
        stable == (\A i \in DOMAIN words : words[i].stable) /\ end <= merger.stable
    IN  DialogTurn(channel, index, start, end, words, final, final \/ stable)

\* A finite set of numbers as a sequence.
Ascending(S) ==
    [k \in 1..Cardinality(S) |-> CHOOSE x \in S : Cardinality({y \in S : y < x}) = k - 1]

\* segment: a turn begins at the first word and after every long enough pause.
Segment(merger, snapshot) ==
    LET words  == snapshot.words
        starts == {i \in DOMAIN words :
                     i > 1 => words[i].start - words[i - 1].end >= TurnGap}
        first  == Ascending(starts)
        Last_(k) == IF k = Len(first) THEN Len(words) ELSE first[k + 1] - 1
    IN  [k \in DOMAIN first |->
           FinishTurn(merger, snapshot.channel, k - 1, SubSeq(words, first[k], Last_(k)))]

\* The order of a dialogue: by start, then channel, then place in the channel.
Before(a, b) ==
    \/ a.start < b.start
    \/ a.start = b.start /\ a.channel < b.channel
    \/ a.start = b.start /\ a.channel = b.channel /\ a.index < b.index

\* sort_by: no two turns of a dialogue have the same place in this order.
Sorted(turns) ==
    [k \in 1..Cardinality(turns) |->
       CHOOSE t \in turns : Cardinality({u \in turns : Before(u, t)}) = k - 1]

\* mark_backchannels: a short turn inside a longer one of another channel.
MarkBackchannels(dialogue) ==
    LET Length(turn) == turn.end - turn.start
        Overlapped(turn) == \E peer \in ToSet(dialogue) :
            /\ peer.channel # turn.channel
            /\ peer.start <= turn.start /\ peer.end >= turn.end
            /\ Length(peer) > Length(turn)
    IN  IF Backchannel = <<>> THEN dialogue
        ELSE [i \in DOMAIN dialogue |->
                [dialogue[i] EXCEPT !.backchannel =
                    Length(dialogue[i]) <= Backchannel[1] /\ Overlapped(dialogue[i])]]

\* same_turn: times may differ by less than a client can see.
SameTurn(a, b) ==
    /\ a.channel = b.channel /\ a.index = b.index /\ a.text = b.text
    /\ a.start - b.start \in -Fuzz..Fuzz
    /\ a.end - b.end \in -Fuzz..Fuzz
    /\ a.stable = b.stable /\ a.final = b.final
    /\ a.backchannel = b.backchannel

\* first_difference: how many leading turns the client may keep.
FirstDifference(previous, current) ==
    LET shared == 1..Min({Len(previous), Len(current)})
        differ == {i \in shared : ~SameTurn(previous[i], current[i])}
    IN  IF differ = {} THEN Cardinality(shared) ELSE Min(differ) - 1

\* update_with: the merger after an update, and the patch if there is one.  The
\* frontiers stay advanced even when nothing is sent.
UpdateWith(merger, snapshots, mode) ==
    LET ahead    == AdvanceFrontiers(merger, snapshots, mode)
        turns    == UNION {ToSet(Segment(ahead, snapshots[i])) : i \in DOMAIN snapshots}
        dialogue == MarkBackchannels(Sorted(turns))
        revise   == FirstDifference(merger.last, dialogue)
    IN  IF ~ValidChannels(snapshots) THEN Refused
        ELSE IF revise = Len(dialogue) /\ Len(dialogue) = Len(merger.last)
          THEN Ok([merger |-> ahead, patch |-> <<>>])
          ELSE Ok([merger |-> [ahead EXCEPT !.last = dialogue],
                   patch  |-> <<TurnsPatch(revise, SubSeq(dialogue, revise + 1, Len(dialogue)),
                                           ahead.final)>>])

\* What the client's dialogue becomes when it replaces its tail by a patch.
Patched(dialogue, patch) == SubSeq(dialogue, 1, patch.from) \o patch.turns
================================================================================
