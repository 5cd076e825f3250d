-------------------------- MODULE MultiStream_proofs --------------------------
(***************************************************************************)
(* A session of several channels, for any number of channels, any speech,   *)
(* any formats, rates and policies, and any cutting of the bytes; and, of   *)
(* the algorithms under it, the resampler, for every input.                 *)
(*                                                                         *)
(* The choice of channels is told once, also by the call that fails, and    *)
(* only what was chosen is fed (SelectionIsToldHolds).  Of the candidates   *)
(* this argument needs the audio alone: what was fed, and what is held      *)
(* back.  A call goes through the channels of a selection and leaves the    *)
(* others as they were (OutcomesTouch), and it reports at most a dialogue   *)
(* patch besides the choice (AfterKeeps).                                   *)
(*                                                                         *)
(* What a session is fed is what resampling its channel as a whole gives    *)
(* (FedWhatWasSentHolds).  The argument goes up the layers of the code:     *)
(*   - resampling.rs: a resampler that was pushed some samples has given    *)
(*     the outputs whose window they fill, whatever the cutting, and its    *)
(*     end gives the others (IsStream, Gave, ResamplerPush,                 *)
(*     ResamplerFinish);                                                    *)
(*   - the frame decoder: what has arrived of a channel depends on the      *)
(*     number of complete frames alone, and each push gives those that are  *)
(*     new (HasArrived, PushArrives);                                       *)
(*   - the session: a candidate waits, is fed, or was fed all there is      *)
(*     (StreamInv).                                                         *)
(*                                                                         *)
(* The client's dialogue is the merger's, and in the end all that was said  *)
(* (ClientHoldsAllHolds), and a turn that was final keeps its words         *)
(* (FinalTurnKeepsItsWordsHolds).  The argument is that the frontier stays  *)
(* behind every word that is still open (FrontierAdvances), so that the     *)
(* turns that are final keep their place among the turns of all channels    *)
(* (PrecedingStays) and their words (TurnCarries); the patch that is made   *)
(* of the first difference then leaves them as they were (UpdateMerges).    *)
(*                                                                         *)
(* A waveform resampled in pieces is the waveform resampled as a whole      *)
(* (PiecesResampleLikeTheWhole).                                            *)
(***************************************************************************)
EXTENDS MultiStream, FiniteSetTheorems, SequenceTheorems, WellFoundedInduction, TLAPS

\* A sequence, of whatever it holds.
IsSequence(s) == s \in Seq({s[i] : i \in DOMAIN s})


ToldIn(s) == {i \in DOMAIN s : s[i].kind = "ChannelSelectionCommitted"}

Silent(s) == ToldIn(s) = {}

TellsOnce(s, selection) ==
    \E i \in DOMAIN s : ToldIn(s) = {i} /\ s[i].selection = selection

HasAudio(candidate) == {"fed", "pending"} \subseteq DOMAIN candidate

AllHaveAudio(cands) == \A c \in Channels : HasAudio(cands[c])

NoneFed(cands) == \A c \in Channels : cands[c].fed = <<>>

\* Outside of a selection nothing was fed and nothing is held back.
OnlyFed(cands, selection) ==
    \A c \in Channels : c \notin selection => cands[c].fed = <<>> /\ cands[c].pending = <<>>

Chosen == lifecycle.phase \in {"Active", "Finished"}

ShapeInv == IsSequence(observed) /\ AllHaveAudio(candidates)

PhaseInv == lifecycle.phase \in {"Buffering", "Active", "Finished", "Failed"}

FedInv == /\ lifecycle.phase = "Buffering" => NoneFed(candidates)
          /\ Chosen => OnlyFed(candidates, lifecycle.selection)

\* A session that failed had either not chosen yet, or has told its choice.
ToldInv ==
    setup.policy = "Deduplicate" =>
        /\ lifecycle.phase = "Buffering" => Silent(observed)
        /\ Chosen => TellsOnce(observed, lifecycle.selection)
        /\ lifecycle.phase = "Failed" =>
             \/ Silent(observed) /\ NoneFed(candidates)
             \/ \E i \in DOMAIN observed :
                   /\ TellsOnce(observed, observed[i].selection)
                   /\ OnlyFed(candidates, observed[i].selection)

IInv == ShapeInv /\ PhaseInv /\ FedInv /\ ToldInv

----------------------------------------------------------------------------
(* Sequences of observations. *)

LEMMA JoinedSequences ==
    ASSUME NEW s, NEW t, IsSequence(s), IsSequence(t)
    PROVE  /\ IsSequence(s \o t)
           /\ DOMAIN s = 1..Len(s) /\ DOMAIN t = 1..Len(t)
           /\ DOMAIN (s \o t) = 1..(Len(s) + Len(t))
           /\ Len(s) \in Nat /\ Len(t) \in Nat
           /\ \A i \in 1..Len(s) : (s \o t)[i] = s[i]
           /\ \A i \in 1..Len(t) : (s \o t)[Len(s) + i] = t[i]
<1> DEFINE S == {s[i] : i \in DOMAIN s} \union {t[i] : i \in DOMAIN t}
           r == s \o t
<1>1. s \in Seq(S) /\ t \in Seq(S)
  BY DEF IsSequence
<1> HIDE DEF S
<1>2. /\ r \in Seq(S) /\ Len(r) = Len(s) + Len(t)
      /\ \A i \in 1..Len(s) : r[i] = s[i]
      /\ \A i \in 1..Len(t) : r[Len(s) + i] = t[i]
  BY <1>1
<1> HIDE DEF r
<1>3. /\ DOMAIN s = 1..Len(s) /\ DOMAIN t = 1..Len(t) /\ DOMAIN r = 1..Len(r)
      /\ Len(s) \in Nat /\ Len(t) \in Nat
  BY <1>1, <1>2
<1>4. IsSequence(r)
  BY <1>2, <1>3, SMTT(30) DEF IsSequence
<1> QED BY <1>2, <1>3, <1>4 DEF r

\* What two sequences tell together.
LEMMA JoinedTells ==
    ASSUME NEW s, NEW t, IsSequence(s), IsSequence(t)
    PROVE  /\ Silent(s) /\ Silent(t) => Silent(s \o t)
           /\ \A x : Silent(s) /\ TellsOnce(t, x) => TellsOnce(s \o t, x)
           /\ \A x : TellsOnce(s, x) /\ Silent(t) => TellsOnce(s \o t, x)
<1> DEFINE r == s \o t
<1>1. /\ DOMAIN s = 1..Len(s) /\ DOMAIN t = 1..Len(t)
      /\ DOMAIN r = 1..(Len(s) + Len(t))
      /\ Len(s) \in Nat /\ Len(t) \in Nat
      /\ \A i \in 1..Len(s) : r[i] = s[i]
      /\ \A i \in 1..Len(t) : r[Len(s) + i] = t[i]
  BY JoinedSequences
<1> HIDE DEF r
<1>2. \A i \in DOMAIN r : \/ i \in DOMAIN s /\ r[i] = s[i]
                          \/ i - Len(s) \in DOMAIN t /\ r[i] = t[i - Len(s)]
  <2> TAKE i \in DOMAIN r
  <2>1. CASE i <= Len(s)
    BY <1>1, <2>1
  <2>2. CASE i > Len(s)
    <3> DEFINE j == i - Len(s)
    <3>1. j \in 1..Len(t) /\ Len(s) + j = i
      BY <1>1, <2>2
    <3>2. r[Len(s) + j] = t[j]
      BY <1>1, <3>1
    <3> QED BY <1>1, <3>1, <3>2
  <2> QED BY <1>1, <2>1, <2>2
<1>3. Silent(s) /\ Silent(t) => Silent(r)
  BY <1>2 DEF Silent, ToldIn
<1>4. ASSUME NEW x, Silent(s), TellsOnce(t, x) PROVE TellsOnce(r, x)
  <2>1. PICK i \in DOMAIN t : ToldIn(t) = {i} /\ t[i].selection = x
    BY <1>4 DEF TellsOnce
  <2>2. Len(s) + i \in DOMAIN r /\ r[Len(s) + i] = t[i]
    BY <1>1, <2>1
  <2>3. Len(s) + i \in ToldIn(r)
    BY <2>1, <2>2 DEF ToldIn
  <2>4. ASSUME NEW j \in ToldIn(r) PROVE j = Len(s) + i
    <3>1. j \in DOMAIN r /\ r[j].kind = "ChannelSelectionCommitted"
      BY DEF ToldIn
    <3>2. j - Len(s) \in ToldIn(t)
      BY <1>2, <1>4, <3>1 DEF Silent, ToldIn
    <3>3. j - Len(s) = i
      BY <2>1, <3>2
    <3> QED BY <1>1, <2>1, <3>1, <3>3
  <2> QED BY <2>1, <2>2, <2>3, <2>4 DEF TellsOnce
<1>5. ASSUME NEW x, TellsOnce(s, x), Silent(t) PROVE TellsOnce(r, x)
  <2>1. PICK i \in DOMAIN s : ToldIn(s) = {i} /\ s[i].selection = x
    BY <1>5 DEF TellsOnce
  <2>2. i \in DOMAIN r /\ r[i] = s[i]
    BY <1>1, <2>1
  <2>3. i \in ToldIn(r)
    BY <2>1, <2>2 DEF ToldIn
  <2>4. ASSUME NEW j \in ToldIn(r) PROVE j = i
    <3>1. j \in DOMAIN r /\ r[j].kind = "ChannelSelectionCommitted"
      BY DEF ToldIn
    <3>2. j \in ToldIn(s)
      BY <1>2, <1>5, <3>1 DEF Silent, ToldIn
    <3> QED BY <2>1, <3>2
  <2> QED BY <2>1, <2>2, <2>3, <2>4 DEF TellsOnce
<1> QED BY <1>3, <1>4, <1>5 DEF r

LEMMA EmptyTells == IsSequence(<<>>) /\ Silent(<<>>)
BY DEF IsSequence, Silent, ToldIn

\* A patch of the dialogue tells nothing of the choice.
LEMMA PatchTells ==
    LET patch == <<Observation("DialogPatchGenerated", {})>>
    IN  IsSequence(patch) /\ Silent(patch)
BY DEF IsSequence, Silent, ToldIn, Observation

LEMMA CommittedTells ==
    ASSUME NEW selection
    PROVE  IsSequence(Committed(selection)) /\ TellsOnce(Committed(selection), selection)
BY DEF IsSequence, TellsOnce, ToldIn, Committed, Observation

LEMMA AppendIsJoin ==
    ASSUME NEW s, NEW e, IsSequence(s)
    PROVE  Append(s, e) = s \o <<e>>
<1> DEFINE S == {s[i] : i \in DOMAIN s} \union {e}
<1>1. s \in Seq(S) /\ e \in S
  BY DEF IsSequence
<1> HIDE DEF S
<1> QED BY <1>1

----------------------------------------------------------------------------
(* What a call makes of the candidates. *)

\* Pushing and flushing leave a candidate that has its audio.
LEMMA PushesKeepAudio ==
    ASSUME NEW c, NEW candidate, NEW audio, HasAudio(candidate),
           NEW pushed \in Pushes(c, candidate, audio)
    PROVE  HasAudio(pushed) /\ HasAudio(Flushed(c, pushed))
<1>1. DOMAIN pushed = DOMAIN candidate
  BY DEF Pushes
<1>2. DOMAIN Flushed(c, pushed) = DOMAIN pushed
  BY DEF Flushed
<1> QED BY <1>1, <1>2 DEF HasAudio

\* A channel that is not gone through stays as it was; another is as it was, as
\* its operation left it, or as its failure did.
LEMMA OutcomesTouch ==
    ASSUME NEW cands, NEW does, NEW failing,
           NEW outcome \in Outcomes(cands, does, failing), NEW c \in Channels
    PROVE  /\ c \notin DOMAIN does => outcome.cands[c] = cands[c]
           /\ c \in DOMAIN does => outcome.cands[c] \in does[c] \union {failing[c], cands[c]}
<1> DEFINE touched == DOMAIN does
           results == {g \in [touched -> UNION {does[d] : d \in touched}] :
                         \A d \in touched : g[d] \in does[d]}
           UpTo(g, limit) == [d \in Channels |->
             IF d \notin touched \/ d > limit THEN cands[d]
             ELSE IF d = limit THEN failing[d] ELSE g[d]]
<1>1. PICK g, limit : g \in results /\ outcome.cands = UpTo(g, limit)
  <2>1. outcome \in {[failed |-> FALSE, cands |-> UpTo(g, Count)] : g \in results}
                      \union {[failed |-> TRUE, cands |-> UpTo(g, f)] : g \in results, f \in touched}
    BY DEF Outcomes
  <2> HIDE DEF results, UpTo, touched
  <2> QED BY <2>1
<1>2. c \in touched => g[c] \in does[c]
  BY <1>1
<1>3. outcome.cands[c] =
        IF c \notin touched \/ c > limit THEN cands[c]
        ELSE IF c = limit THEN failing[c] ELSE g[c]
  BY <1>1
<1> QED BY <1>2, <1>3

\* Going through a selection with operations that keep the audio.
LEMMA OutcomesKeep ==
    ASSUME NEW cands, NEW does, NEW failing, AllHaveAudio(cands),
           \A c \in Channels : c \in DOMAIN does =>
               HasAudio(failing[c]) /\ \A x \in does[c] : HasAudio(x),
           NEW outcome \in Outcomes(cands, does, failing)
    PROVE  /\ AllHaveAudio(outcome.cands)
           /\ OnlyFed(cands, DOMAIN does) => OnlyFed(outcome.cands, DOMAIN does)
BY OutcomesTouch DEF AllHaveAudio, OnlyFed

LEMMA ReleaseKeeps ==
    ASSUME NEW cands, NEW selection, AllHaveAudio(cands), NoneFed(cands),
           NEW outcome \in ReleasePending(cands, selection)
    PROVE  AllHaveAudio(outcome.cands) /\ OnlyFed(outcome.cands, selection)
<1> DEFINE Cleared(candidate) == [candidate EXCEPT !.pending = <<>>]
           dropped == [c \in Channels |-> IF c \in selection THEN cands[c] ELSE Cleared(cands[c])]
           cleared == [c \in Channels |-> Cleared(cands[c])]
           does == [c \in selection |-> Pushes(c, cleared[c], cands[c].pending)]
<1>1. ASSUME NEW c \in Channels
      PROVE  /\ HasAudio(Cleared(cands[c]))
             /\ Cleared(cands[c]).fed = <<>> /\ Cleared(cands[c]).pending = <<>>
  BY DEF AllHaveAudio, HasAudio, NoneFed
<1>2. AllHaveAudio(dropped) /\ OnlyFed(dropped, selection)
  BY <1>1 DEF AllHaveAudio, OnlyFed
<1>3. ASSUME NEW c \in Channels, c \in DOMAIN does
      PROVE  HasAudio(cleared[c]) /\ \A x \in does[c] : HasAudio(x)
  BY <1>1, <1>3, PushesKeepAudio
<1>4. outcome \in Outcomes(dropped, does, cleared) /\ DOMAIN does = selection
  BY DEF ReleasePending
<1> HIDE DEF dropped, cleared, does
<1> QED BY <1>2, <1>3, <1>4, OutcomesKeep

LEMMA PushActiveKeeps ==
    ASSUME NEW cands, NEW selection, NEW channels, AllHaveAudio(cands),
           OnlyFed(cands, selection), NEW outcome \in PushActive(cands, selection, channels)
    PROVE  AllHaveAudio(outcome.cands) /\ OnlyFed(outcome.cands, selection)
<1> DEFINE Through(c) == PushSamples(cands[c].adapter, channels[c + 1])
           With(c) == [cands[c] EXCEPT !.adapter = Through(c).state]
           does == [c \in selection |-> Pushes(c, With(c), Through(c).output)]
<1>1. ASSUME NEW c \in Channels PROVE HasAudio(With(c)) /\ HasAudio(cands[c])
  BY DEF AllHaveAudio, HasAudio
<1>2. ASSUME NEW c \in Channels, c \in DOMAIN does
      PROVE  \A x \in does[c] : HasAudio(x)
  BY <1>1, <1>2, PushesKeepAudio
<1>3. outcome \in Outcomes(cands, does, cands) /\ DOMAIN does = selection
  BY DEF PushActive
<1> HIDE DEF does
<1> QED BY <1>1, <1>2, <1>3, OutcomesKeep

LEMMA FinishActiveKeeps ==
    ASSUME NEW cands, NEW selection, AllHaveAudio(cands),
           OnlyFed(cands, selection), NEW outcome \in FinishActive(cands, selection)
    PROVE  AllHaveAudio(outcome.cands) /\ OnlyFed(outcome.cands, selection)
<1> DEFINE does == [c \in selection |->
             {Flushed(c, pushed) : pushed \in Pushes(c, cands[c], FinishSamples(cands[c].adapter))}]
<1>1. ASSUME NEW c \in Channels PROVE HasAudio(cands[c])
  BY DEF AllHaveAudio
<1>2. ASSUME NEW c \in Channels, c \in DOMAIN does
      PROVE  \A x \in does[c] : HasAudio(x)
  BY <1>1, <1>2, PushesKeepAudio
<1>3. outcome \in Outcomes(cands, does, cands) /\ DOMAIN does = selection
  BY DEF FinishActive
<1> HIDE DEF does
<1> QED BY <1>1, <1>2, <1>3, OutcomesKeep

LEMMA FlushActiveKeeps ==
    ASSUME NEW cands, NEW selection, AllHaveAudio(cands),
           OnlyFed(cands, selection), NEW outcome \in FlushActive(cands, selection)
    PROVE  AllHaveAudio(outcome.cands) /\ OnlyFed(outcome.cands, selection)
<1> DEFINE does == [c \in selection |-> {Flushed(c, cands[c])}]
<1>1. ASSUME NEW c \in Channels PROVE HasAudio(cands[c]) /\ HasAudio(Flushed(c, cands[c]))
  BY DEF AllHaveAudio, HasAudio, Flushed
<1>2. ASSUME NEW c \in Channels, c \in DOMAIN does
      PROVE  \A x \in does[c] : HasAudio(x)
  BY <1>1, <1>2
<1>3. outcome \in Outcomes(cands, does, cands) /\ DOMAIN does = selection
  BY DEF FlushActive
<1> HIDE DEF does
<1> QED BY <1>1, <1>2, <1>3, OutcomesKeep

\* What is held back is not fed.
LEMMA HeldKeeps ==
    ASSUME NEW cands, NEW channels, AllHaveAudio(cands), NoneFed(cands)
    PROVE  /\ AllHaveAudio(Held(cands, channels)) /\ NoneFed(Held(cands, channels))
           /\ AllHaveAudio(FinishAdapters(cands)) /\ NoneFed(FinishAdapters(cands))
BY DEF AllHaveAudio, NoneFed, HasAudio, Held, FinishAdapters

----------------------------------------------------------------------------
(* What a call reports. *)

IsCall(call) == /\ {"failed", "cands", "merger", "client", "observations"} \subseteq DOMAIN call
                /\ IsSequence(call.observations)

LEMMA CallIsCall ==
    ASSUME NEW cands, NEW observations, IsSequence(observations)
    PROVE  LET call == Call(cands, observations)
           IN  /\ IsCall(call) /\ call.cands = cands
               /\ call.observations = observations /\ call.failed = FALSE
BY DEF Call, IsCall

LEMMA RefusalIsCall ==
    LET call == [Call(candidates, <<>>) EXCEPT !.failed = TRUE]
    IN  /\ IsCall(call) /\ call.cands = candidates
        /\ call.observations = <<>> /\ call.failed
BY EmptyTells DEF Call, IsCall

\* A call goes on with the candidates of its outcome, and adds no choice to what
\* it reports.
LEMMA AfterKeeps ==
    ASSUME NEW call, IsCall(call), NEW outcome, NEW selection, NEW mode
    PROVE  LET next == After(call, outcome, selection, mode)
           IN  /\ IsCall(next) /\ next.cands = outcome.cands
               /\ Silent(call.observations) => Silent(next.observations)
               /\ \A x : TellsOnce(call.observations, x) => TellsOnce(next.observations, x)
<1> DEFINE with  == [call EXCEPT !.cands = outcome.cands]
           next  == After(call, outcome, selection, mode)
           patch == Observation("DialogPatchGenerated", {})
<1>1. /\ IsCall(with) /\ with.cands = outcome.cands
      /\ with.observations = call.observations
  BY DEF IsCall
<1>2. /\ {"failed", "cands", "merger", "client", "observations"} \subseteq DOMAIN next
      /\ next.cands = outcome.cands
      /\ next.observations \in {call.observations, Append(call.observations, patch)}
  <2>1. CASE outcome.failed
    BY <1>1, <2>1 DEF After, IsCall
  <2>2. CASE ~outcome.failed
    <3>1. next = Merged(with, selection, mode)
      BY <2>2, SMTT(30) DEF After
    <3> HIDE DEF with, next
    <3>2. \/ next = with
          \/ next = [with EXCEPT !.failed = TRUE]
          \/ \E m : next = [with EXCEPT !.merger = m]
          \/ \E m, d : next = [with EXCEPT !.merger = m, !.client = d,
                                           !.observations = Append(@, patch)]
      BY <3>1 DEF Merged
    <3> QED BY <1>1, <3>2 DEF IsCall
  <2> QED BY <2>1, <2>2
<1> HIDE DEF next
<1>3. /\ IsSequence(call.observations \o <<patch>>)
      /\ Silent(call.observations) => Silent(call.observations \o <<patch>>)
      /\ \A x : TellsOnce(call.observations, x) => TellsOnce(call.observations \o <<patch>>, x)
  BY PatchTells, JoinedSequences, JoinedTells DEF IsCall
<1>4. Append(call.observations, patch) = call.observations \o <<patch>>
  BY AppendIsJoin DEF IsCall
<1>5. IsCall(next)
  BY <1>2, <1>3, <1>4 DEF IsCall
<1> QED BY <1>2, <1>3, <1>4, <1>5 DEF next

\* A call that chose nothing, in a session that had not chosen.
LEMMA UnchosenConcludes ==
    ASSUME IInv, lifecycle.phase = "Buffering", UNCHANGED setup,
           NEW call, IsCall(call), call.failed \in BOOLEAN,
           Silent(call.observations), AllHaveAudio(call.cands), NoneFed(call.cands),
           NEW phase, NEW selection, Conclude(call, phase, selection),
           ~call.failed => phase = "Buffering"
    PROVE  IInv'
<1>1. IsSequence(observed') /\ (setup.policy = "Deduplicate" => Silent(observed'))
  BY JoinedSequences, JoinedTells DEF Conclude, IInv, ShapeInv, ToldInv, IsCall
<1>2. lifecycle'.phase \in {"Buffering", "Failed"} /\ candidates' = call.cands
  BY DEF Conclude
<1> QED BY <1>1, <1>2 DEF IInv, ShapeInv, PhaseInv, FedInv, ToldInv, Chosen,
                          AllHaveAudio, NoneFed, OnlyFed

\* A call of a session whose choice is told, now or before.
LEMMA ChosenConcludes ==
    ASSUME IInv, UNCHANGED setup, NEW call, IsCall(call), NEW phase, NEW selection,
           AllHaveAudio(call.cands), OnlyFed(call.cands, selection),
           setup.policy = "Deduplicate" =>
               \/ Silent(observed) /\ TellsOnce(call.observations, selection)
               \/ TellsOnce(observed, selection) /\ Silent(call.observations),
           Conclude(call, phase, selection),
           ~call.failed => phase \in {"Active", "Finished"}
    PROVE  IInv'
<1>1. IsSequence(observed') /\ (setup.policy = "Deduplicate" => TellsOnce(observed', selection))
  BY JoinedSequences, JoinedTells DEF Conclude, IInv, ShapeInv, IsCall
<1>2. /\ candidates' = call.cands
      /\ \/ lifecycle'.phase = "Failed"
         \/ lifecycle'.phase \in {"Active", "Finished"} /\ lifecycle'.selection = selection
  BY DEF Conclude
<1>3. ShapeInv' /\ PhaseInv' /\ FedInv'
  BY <1>1, <1>2 DEF ShapeInv, PhaseInv, FedInv, Chosen, AllHaveAudio, OnlyFed
<1>4. ToldInv'
  BY <1>1, <1>2 DEF ToldInv, Chosen, TellsOnce, OnlyFed
<1> QED BY <1>3, <1>4 DEF IInv

\* A call that is refused changes nothing but the phase.
LEMMA RefusalConcludes ==
    ASSUME IInv, UNCHANGED setup, lifecycle.phase \in {"Buffering", "Active"}, NEW phase,
           Conclude([Call(candidates, <<>>) EXCEPT !.failed = TRUE], phase, {})
    PROVE  IInv'
<1> DEFINE call == [Call(candidates, <<>>) EXCEPT !.failed = TRUE]
<1>1. /\ IsCall(call) /\ call.cands = candidates /\ call.observations = <<>> /\ call.failed
  BY RefusalIsCall
<1> HIDE DEF call
<1>2. CASE lifecycle.phase = "Buffering"
  BY <1>1, <1>2, EmptyTells, UnchosenConcludes DEF call, IInv, ShapeInv, FedInv
<1>3. CASE lifecycle.phase = "Active"
  <2>1. Conclude(call, "Active", lifecycle.selection)
    BY <1>1 DEF call, Conclude
  <2> QED BY <1>1, <1>3, <2>1, EmptyTells, ChosenConcludes
          DEF IInv, ShapeInv, FedInv, ToldInv, Chosen
<1> QED BY <1>2, <1>3

----------------------------------------------------------------------------
(* The calls. *)

LEMMA InitEstablishes == Init => IInv
<1> SUFFICES ASSUME Init PROVE IInv
  OBVIOUS
<1>1. ShapeInv /\ NoneFed(candidates)
  BY EmptyTells DEF Init, ShapeInv, AllHaveAudio, HasAudio, NoneFed
<1>2. CASE setup.policy = "AllChannels"
  BY <1>1, <1>2 DEF Init, IInv, PhaseInv, FedInv, ToldInv, Chosen, OnlyFed
<1>3. CASE setup.policy # "AllChannels"
  BY <1>1, <1>3, EmptyTells DEF Init, IInv, PhaseInv, FedInv, ToldInv, Chosen
<1> QED BY <1>2, <1>3

\* The channels are chosen, told, and what was held back of them is released:
\* also when the release fails, or the update of the dialogue after it.
LEMMA ReleaseTells ==
    ASSUME NEW held, NEW selection, AllHaveAudio(held), NoneFed(held),
           NEW outcome \in ReleasePending(held, selection), NEW mode
    PROVE  LET call == After(Call(held, Committed(selection)), outcome, selection, mode)
           IN  /\ IsCall(call) /\ TellsOnce(call.observations, selection)
               /\ AllHaveAudio(call.cands) /\ OnlyFed(call.cands, selection)
<1> DEFINE first == Call(held, Committed(selection))
<1>1. IsCall(first) /\ TellsOnce(first.observations, selection)
  <2>1. IsSequence(Committed(selection)) /\ TellsOnce(Committed(selection), selection)
    BY CommittedTells
  <2>2. IsCall(first) /\ first.observations = Committed(selection)
    BY <2>1, CallIsCall
  <2> QED BY <2>1, <2>2
<1>2. AllHaveAudio(outcome.cands) /\ OnlyFed(outcome.cands, selection)
  BY ReleaseKeeps
<1> HIDE DEF first
<1>3. /\ IsCall(After(first, outcome, selection, mode))
      /\ After(first, outcome, selection, mode).cands = outcome.cands
      /\ TellsOnce(After(first, outcome, selection, mode).observations, selection)
  BY <1>1, AfterKeeps
<1> QED BY <1>2, <1>3 DEF first

LEMMA PushBufferedPreserves ==
    ASSUME IInv, UNCHANGED setup, lifecycle.phase = "Buffering",
           NEW channels, PushBuffered(channels)
    PROVE  IInv'
<1> DEFINE held == Held(candidates, channels)
<1>1. AllHaveAudio(held) /\ NoneFed(held)
  BY HeldKeeps DEF IInv, ShapeInv, FedInv
<1> HIDE DEF held
<1>2. CASE Conclude(Call(held, <<>>), "Buffering", {})
  <2> DEFINE call == Call(held, <<>>)
  <2>1. IsCall(call) /\ call.cands = held /\ call.observations = <<>> /\ call.failed = FALSE
    BY CallIsCall, EmptyTells, ZenonT(60)
  <2> HIDE DEF call
  <2> QED BY <1>1, <1>2, <2>1, EmptyTells, UnchosenConcludes DEF call
<1>3. ASSUME NEW selection, NEW outcome \in ReleasePending(held, selection),
             Conclude(After(Call(held, Committed(selection)), outcome, selection, "Incremental"),
                      "Active", selection)
      PROVE  IInv'
  <2> DEFINE call == After(Call(held, Committed(selection)), outcome, selection, "Incremental")
  <2>1. /\ IsCall(call) /\ TellsOnce(call.observations, selection)
        /\ AllHaveAudio(call.cands) /\ OnlyFed(call.cands, selection)
    BY <1>1, ReleaseTells
  <2> HIDE DEF call
  <2>2. Conclude(call, "Active", selection)
    BY <1>3 DEF call
  <2>3. setup.policy = "Deduplicate" => Silent(observed)
    BY DEF IInv, ToldInv
  <2> QED BY <2>1, <2>2, <2>3, ChosenConcludes
<1>4. \/ Conclude(Call(held, <<>>), "Buffering", {})
      \/ \E outcome \in ReleasePending(held, SelectPending(held).value) :
           Conclude(After(Call(held, Committed(SelectPending(held).value)), outcome,
                          SelectPending(held).value, "Incremental"),
                    "Active", SelectPending(held).value)
  BY DEF PushBuffered, held
<1> QED BY <1>2, <1>3, <1>4

\* A call of a session that has chosen goes through the selection and reports.
LEMMA ActivePreserves ==
    ASSUME IInv, UNCHANGED setup, lifecycle.phase = "Active", NEW outcome, NEW mode,
           AllHaveAudio(outcome.cands), OnlyFed(outcome.cands, lifecycle.selection),
           NEW phase \in {"Active", "Finished"},
           Conclude(After(Call(candidates, <<>>), outcome, lifecycle.selection, mode),
                    phase, lifecycle.selection)
    PROVE  IInv'
<1> DEFINE first == Call(candidates, <<>>)
           call == After(first, outcome, lifecycle.selection, mode)
<1>1. IsCall(first) /\ first.observations = <<>>
  BY CallIsCall, EmptyTells, ZenonT(60)
<1> HIDE DEF first
<1>2. IsCall(call) /\ call.cands = outcome.cands /\ Silent(call.observations)
  BY <1>1, EmptyTells, AfterKeeps
<1> HIDE DEF call
<1>3. Conclude(call, phase, lifecycle.selection)
  BY DEF call, first
<1>4. setup.policy = "Deduplicate" => TellsOnce(observed, lifecycle.selection)
  BY DEF IInv, ToldInv, Chosen
<1> QED BY <1>2, <1>3, <1>4, ChosenConcludes

LEMMA PushPreserves == ASSUME IInv, NEW n, Push(n) PROVE IInv'
<1> DEFINE pushed == PushBytes(decoder, Arriving(sent, n))
<1>1. /\ UNCHANGED setup /\ lifecycle.phase \in {"Buffering", "Active"}
      /\ \/ Conclude([Call(candidates, <<>>) EXCEPT !.failed = TRUE], "Failed", {})
         \/ UNCHANGED <<lifecycle, candidates, merger, client, observed>>
         \/ lifecycle.phase = "Buffering" /\ PushBuffered(pushed.result.value)
         \/ /\ lifecycle.phase = "Active"
            /\ \E outcome \in PushActive(candidates, lifecycle.selection, pushed.result.value) :
                 Conclude(After(Call(candidates, <<>>), outcome,
                                lifecycle.selection, "Incremental"),
                          "Active", lifecycle.selection)
  BY DEF Push
<1> HIDE DEF pushed
<1>2. CASE UNCHANGED <<lifecycle, candidates, merger, client, observed>>
  BY <1>1, <1>2 DEF IInv, ShapeInv, PhaseInv, FedInv, ToldInv, Chosen
<1>3. ASSUME lifecycle.phase = "Active",
             NEW outcome \in PushActive(candidates, lifecycle.selection, pushed.result.value),
             Conclude(After(Call(candidates, <<>>), outcome,
                            lifecycle.selection, "Incremental"),
                      "Active", lifecycle.selection)
      PROVE  IInv'
  <2>1. AllHaveAudio(outcome.cands) /\ OnlyFed(outcome.cands, lifecycle.selection)
    BY <1>3, PushActiveKeeps DEF IInv, ShapeInv, FedInv, Chosen
  <2> QED BY <1>1, <1>3, <2>1, ActivePreserves
<1> QED BY <1>1, <1>2, <1>3, RefusalConcludes, PushBufferedPreserves

LEMMA FinishBufferedPreserves ==
    ASSUME IInv, UNCHANGED setup, lifecycle.phase = "Buffering", FinishBuffered
    PROVE  IInv'
<1> DEFINE held == FinishAdapters(candidates)
           selection == SelectPending(held).value
<1>1. AllHaveAudio(held) /\ NoneFed(held)
  BY HeldKeeps DEF IInv, ShapeInv, FedInv
<1>2. setup.policy = "Deduplicate" => Silent(observed)
  BY DEF IInv, ToldInv
<1> HIDE DEF held, selection
<1>3. PICK released \in ReleasePending(held, selection) :
        LET shown == After(Call(held, Committed(selection)), released, selection, "Incremental")
        IN  \/ shown.failed /\ Conclude(shown, "Finished", selection)
            \/ ~shown.failed /\ \E flushed \in FlushActive(shown.cands, selection) :
                 Conclude(After(shown, flushed, selection, "Terminal"), "Finished", selection)
  BY DEF FinishBuffered, held, selection
<1> DEFINE shown == After(Call(held, Committed(selection)), released, selection, "Incremental")
<1>4. /\ IsCall(shown) /\ TellsOnce(shown.observations, selection)
      /\ AllHaveAudio(shown.cands) /\ OnlyFed(shown.cands, selection)
  BY <1>1, ReleaseTells
<1>5. \/ Conclude(shown, "Finished", selection)
      \/ \E flushed \in FlushActive(shown.cands, selection) :
           Conclude(After(shown, flushed, selection, "Terminal"), "Finished", selection)
  BY <1>3
<1> HIDE DEF shown
<1>6. CASE Conclude(shown, "Finished", selection)
  BY <1>2, <1>4, <1>6, ChosenConcludes
<1>7. ASSUME NEW flushed \in FlushActive(shown.cands, selection),
             Conclude(After(shown, flushed, selection, "Terminal"), "Finished", selection)
      PROVE  IInv'
  <2> DEFINE call == After(shown, flushed, selection, "Terminal")
  <2>1. AllHaveAudio(flushed.cands) /\ OnlyFed(flushed.cands, selection)
    BY <1>4, FlushActiveKeeps
  <2>2. IsCall(call) /\ call.cands = flushed.cands /\ TellsOnce(call.observations, selection)
    BY <1>4, AfterKeeps
  <2> HIDE DEF call
  <2>3. Conclude(call, "Finished", selection)
    BY <1>7 DEF call
  <2> QED BY <1>2, <2>1, <2>2, <2>3, ChosenConcludes
<1> QED BY <1>5, <1>6, <1>7

LEMMA FinishPreserves == ASSUME IInv, Finish PROVE IInv'
<1>1. /\ UNCHANGED setup /\ lifecycle.phase \in {"Buffering", "Active"}
      /\ \/ Conclude([Call(candidates, <<>>) EXCEPT !.failed = TRUE], "Finished", {})
         \/ lifecycle.phase = "Buffering" /\ FinishBuffered
         \/ /\ lifecycle.phase = "Active"
            /\ \E outcome \in FinishActive(candidates, lifecycle.selection) :
                 Conclude(After(Call(candidates, <<>>), outcome,
                                lifecycle.selection, "Terminal"),
                          "Finished", lifecycle.selection)
  BY DEF Finish
<1>2. ASSUME lifecycle.phase = "Active",
             NEW outcome \in FinishActive(candidates, lifecycle.selection),
             Conclude(After(Call(candidates, <<>>), outcome,
                            lifecycle.selection, "Terminal"),
                      "Finished", lifecycle.selection)
      PROVE  IInv'
  <2>1. AllHaveAudio(outcome.cands) /\ OnlyFed(outcome.cands, lifecycle.selection)
    BY <1>2, FinishActiveKeeps DEF IInv, ShapeInv, FedInv, Chosen
  <2> QED BY <1>1, <1>2, <2>1, ActivePreserves
<1> QED BY <1>1, <1>2, RefusalConcludes, FinishBufferedPreserves

\* What was fed and what was told, in every reachable state.
THEOREM MultiStreamInvariant == Spec => []IInv
<1>1. IInv /\ [Next]_vars => IInv'
  <2> SUFFICES ASSUME IInv, [Next]_vars PROVE IInv'
    OBVIOUS
  <2>1. CASE UNCHANGED vars
    BY <2>1 DEF vars, IInv, ShapeInv, PhaseInv, FedInv, ToldInv, Chosen
  <2>2. CASE Next
    BY <2>2, PushPreserves, FinishPreserves DEF Next
  <2> QED BY <2>1, <2>2
<1> QED BY <1>1, InitEstablishes, PTL DEF Spec

\* The choice of channels is told exactly once, also by a call that then fails,
\* and nothing but what was chosen is fed: for any number of channels, any
\* speech and any cutting of the bytes (multi_stream.rs commit_selection).
THEOREM SelectionIsToldHolds == Spec => []SelectionIsTold
<1>1. IInv => SelectionIsTold
  <2> SUFFICES ASSUME IInv, setup.policy = "Deduplicate"
               PROVE  /\ \A i, j \in Told : i = j
                      /\ FedChannels # {} =>
                           \E i \in Told : FedChannels \subseteq observed[i].selection
                      /\ Chosen => \E i \in Told : observed[i].selection = lifecycle.selection
    BY DEF SelectionIsTold, Chosen
  <2>1. Told = ToldIn(observed)
    BY DEF Told, ToldIn
  <2>2. CASE lifecycle.phase = "Buffering"
    BY <2>1, <2>2 DEF IInv, FedInv, ToldInv, Silent, NoneFed, FedChannels, Chosen
  <2>3. CASE Chosen
    BY <2>1, <2>3 DEF IInv, FedInv, ToldInv, TellsOnce, OnlyFed, FedChannels
  <2>4. CASE lifecycle.phase = "Failed"
    BY <2>1, <2>4 DEF IInv, ToldInv, Silent, TellsOnce, NoneFed, OnlyFed, FedChannels, Chosen
  <2> QED BY <2>2, <2>3, <2>4 DEF IInv, PhaseInv, Chosen
<1> QED BY <1>1, MultiStreamInvariant, PTL

\* Once the channels are chosen, nothing of another is ever fed or held back: the
\* last part of FedWhatWasSent (release_pending drops what was buffered).
UnselectedHoldsNothing == Chosen => OnlyFed(candidates, lifecycle.selection)

THEOREM UnselectedHoldsNothingHolds == Spec => []UnselectedHoldsNothing
<1>1. IInv => UnselectedHoldsNothing
  BY DEF IInv, FedInv, UnselectedHoldsNothing
<1> QED BY <1>1, MultiStreamInvariant, PTL

----------------------------------------------------------------------------
(* Arithmetic. *)

LEMMA TimesGrows ==
    ASSUME NEW a \in Int, NEW b \in Int, NEW m \in Nat, a <= b
    PROVE  a * m <= b * m
<1>1. (b - a) * m >= 0
  <2>1. b - a \in Nat
    OBVIOUS
  <2> QED BY <2>1, SMT
<1>2. (b - a) * m = b * m - a * m
  BY SMT
<1>3. a * m \in Int /\ b * m \in Int
  OBVIOUS
<1> QED BY <1>1, <1>2, <1>3

LEMMA Quotient ==
    ASSUME NEW a \in Nat, NEW m \in Nat \ {0}
    PROVE  /\ a \div m \in Nat /\ a % m \in 0..(m - 1)
           /\ a = (a \div m) * m + (a % m)
BY SMT

LEMMA QuotientBelow ==
    ASSUME NEW a \in Nat, NEW m \in Nat \ {0}, NEW n \in Int
    PROVE  a \div m < n <=> a < n * m
<1> DEFINE q == a \div m
           l == a % m
<1>1. q \in Nat /\ l \in 0..(m - 1) /\ a = q * m + l
  BY Quotient
<1> HIDE DEF q, l
<1>2. CASE q < n
  <2>1. (q + 1) * m <= n * m
    BY <1>1, <1>2, TimesGrows
  <2>2. (q + 1) * m = q * m + m
    BY <1>1, SMT
  <2>3. q * m \in Int /\ n * m \in Int
    BY <1>1
  <2> QED BY <1>1, <1>2, <2>1, <2>2, <2>3
<1>3. CASE ~(q < n)
  <2>1. n * m <= q * m
    BY <1>1, <1>3, TimesGrows
  <2>2. q * m \in Int /\ n * m \in Int
    BY <1>1
  <2> QED BY <1>1, <1>3, <2>1, <2>2
<1> QED BY <1>2, <1>3 DEF q

LEMMA QuotientIs ==
    ASSUME NEW q \in Nat, NEW m \in Nat \ {0}, NEW l \in 0..(m - 1)
    PROVE  (q * m + l) \div m = q
<1> DEFINE a == q * m + l
<1>1. q * m \in Nat
  BY SMT
<1>2. a \in Nat
  BY <1>1
<1>3. (q + 1) * m = q * m + m
  BY SMT
<1>4. q \in Int /\ q + 1 \in Int
  OBVIOUS
<1>5. a \div m < q + 1 <=> a < (q + 1) * m
  <2> HIDE DEF a
  <2> QED BY <1>2, <1>4, QuotientBelow
<1>6. a \div m < q <=> a < q * m
  <2> HIDE DEF a
  <2> QED BY <1>2, <1>4, QuotientBelow
<1>7. a < (q + 1) * m /\ ~ (a < q * m)
  BY <1>1, <1>3
<1>8. a \div m \in Nat
  <2> HIDE DEF a
  <2> QED BY <1>2, Quotient
<1> HIDE DEF a
<1>9. a \div m = q
  BY <1>5, <1>6, <1>7, <1>8
<1> QED BY <1>9 DEF a

LEMMA CeilAbove ==
    ASSUME NEW a \in Nat, NEW m \in Nat \ {0}, NEW k \in Nat
    PROVE  CeilDiv(a, m) \in Nat /\ (k < CeilDiv(a, m) <=> k * m < a)
<1> DEFINE q == (a + m - 1) \div m
<1>1. a + m - 1 \in Nat /\ k + 1 \in Int
  OBVIOUS
<1>2. q \in Nat /\ (q < k + 1 <=> a + m - 1 < (k + 1) * m)
  BY <1>1, Quotient, QuotientBelow
<1>3. (k + 1) * m = k * m + m /\ k * m \in Int
  BY SMT
<1> HIDE DEF q
<1>4. k < q <=> k * m < a
  BY <1>2, <1>3
<1> QED BY <1>2, <1>4 DEF CeilDiv, q

\* A set of naturals has a least element.
LEMMA LeastExists ==
    ASSUME NEW T \in SUBSET Nat, T # {}
    PROVE  \E x \in T : \A y \in T : x <= y
<1> DEFINE R == {ss \in Nat \X Nat : ss[1] < ss[2]}
<1>1. IsWellFoundedOn(R, Nat)
  BY NatLessThanWellFounded, Zenon DEF OpToRel
<1> HIDE DEF R
<1>2. PICK x \in T : \A y \in T : ~ (<<y, x>> \in R)
  BY <1>1, WFMin
<1>3. \A y \in T : ~ (y < x)
  BY <1>2 DEF R
<1> QED BY <1>3

LEMMA OfTwo ==
    ASSUME NEW a \in Int, NEW b \in Int
    PROVE  /\ Max({a, b}) \in {a, b} /\ Max({a, b}) >= a /\ Max({a, b}) >= b
           /\ Min({a, b}) \in {a, b} /\ Min({a, b}) <= a /\ Min({a, b}) <= b
<1>1. \E x \in {a, b} : \A y \in {a, b} : x >= y
  OBVIOUS
<1>2. \E x \in {a, b} : \A y \in {a, b} : x <= y
  OBVIOUS
<1> QED BY <1>1, <1>2 DEF Max, Min

----------------------------------------------------------------------------
(* Sequences, of whatever they hold. *)

LEMMA OfSetIsSequence ==
    ASSUME NEW S, NEW s \in Seq(S)
    PROVE  IsSequence(s)
<1> DEFINE V == {s[i] : i \in DOMAIN s}
<1>1. Len(s) \in Nat /\ s \in [1..Len(s) -> S]
  BY LenProperties
<1>2. s \in [1..Len(s) -> V]
  BY <1>1
<1> HIDE DEF V
<1>3. s \in Seq(V)
  BY <1>1, <1>2, SeqDef
<1> QED BY <1>3 DEF IsSequence, V

LEMMA SequenceShape ==
    ASSUME NEW s, IsSequence(s)
    PROVE  Len(s) \in Nat /\ DOMAIN s = 1..Len(s)
BY LenProperties DEF IsSequence

LEMMA FunctionIsSequence ==
    ASSUME NEW n \in Nat, NEW f, DOMAIN f = 1..n, f = [i \in DOMAIN f |-> f[i]]
    PROVE  IsSequence(f) /\ Len(f) = n
<1> DEFINE S == {f[i] : i \in DOMAIN f}
<1>1. f \in [1..n -> S]
  OBVIOUS
<1> HIDE DEF S
<1>2. f \in Seq(S) /\ Len(f) = n
  BY <1>1, SeqDef
<1> QED BY <1>2 DEF IsSequence, S

LEMMA SameSequence ==
    ASSUME NEW s, NEW t, IsSequence(s), IsSequence(t), Len(s) = Len(t),
           \A i \in 1..Len(s) : s[i] = t[i]
    PROVE  s = t
<1> DEFINE S == {s[i] : i \in DOMAIN s} \union {t[i] : i \in DOMAIN t}
<1>1. s \in Seq(S) /\ t \in Seq(S)
  BY SeqMonotonic DEF IsSequence
<1> HIDE DEF S
<1> QED BY <1>1, SeqEqual

LEMMA Joined ==
    ASSUME NEW s, NEW t, IsSequence(s), IsSequence(t)
    PROVE  /\ IsSequence(s \o t) /\ Len(s \o t) = Len(s) + Len(t)
           /\ \A i \in 1..(Len(s) + Len(t)) :
                (s \o t)[i] = IF i <= Len(s) THEN s[i] ELSE t[i - Len(s)]
<1> DEFINE S == {s[i] : i \in DOMAIN s} \union {t[i] : i \in DOMAIN t}
           r == s \o t
<1>1. s \in Seq(S) /\ t \in Seq(S)
  BY SeqMonotonic DEF IsSequence
<1> HIDE DEF S
<1>2. /\ r \in Seq(S) /\ Len(r) = Len(s) + Len(t)
      /\ \A i \in 1..(Len(s) + Len(t)) : r[i] = IF i <= Len(s) THEN s[i] ELSE t[i - Len(s)]
  BY <1>1, ConcatProperties
<1> HIDE DEF r
<1>3. IsSequence(r)
  BY <1>2, OfSetIsSequence
<1> QED BY <1>2, <1>3 DEF r

LEMMA JoinedThrice ==
    ASSUME NEW s, NEW t, NEW u, IsSequence(s), IsSequence(t), IsSequence(u)
    PROVE  (s \o t) \o u = s \o (t \o u)
<1> DEFINE S == {s[i] : i \in DOMAIN s} \union {t[i] : i \in DOMAIN t}
                  \union {u[i] : i \in DOMAIN u}
<1>1. s \in Seq(S) /\ t \in Seq(S) /\ u \in Seq(S)
  BY SeqMonotonic DEF IsSequence
<1> HIDE DEF S
<1> QED BY <1>1, ConcatAssociative

LEMMA JoinedEmpty ==
    /\ IsSequence(<<>>) /\ Len(<<>>) = 0
    /\ \A s : IsSequence(s) => s \o <<>> = s /\ <<>> \o s = s
BY ConcatEmptySeq DEF IsSequence

\* The values of a function on the naturals, from one to the one before another.
Slice(g, from, to) == [i \in 1..(to - from) |-> g[from + i - 1]]

LEMMA SliceShape ==
    ASSUME NEW g, NEW from \in Nat, NEW to \in Nat, from <= to
    PROVE  /\ IsSequence(Slice(g, from, to)) /\ Len(Slice(g, from, to)) = to - from
           /\ \A i \in 1..(to - from) : Slice(g, from, to)[i] = g[from + i - 1]
<1> DEFINE all == [i \in 1..(to - from) |-> g[from + i - 1]]
<1>1. /\ DOMAIN all = 1..(to - from) /\ all = [i \in DOMAIN all |-> all[i]]
      /\ \A i \in 1..(to - from) : all[i] = g[from + i - 1]
  OBVIOUS
<1>2. to - from \in Nat
  OBVIOUS
<1> HIDE DEF all
<1>3. IsSequence(all) /\ Len(all) = to - from
  BY <1>1, <1>2, FunctionIsSequence
<1> QED BY <1>1, <1>3 DEF all, Slice

LEMMA SlicesJoin ==
    ASSUME NEW g, NEW from \in Nat, NEW to \in Nat, from <= to
    PROVE  /\ IsSequence(Slice(g, 0, from)) /\ IsSequence(Slice(g, from, to))
           /\ Slice(g, 0, from) \o Slice(g, from, to) = Slice(g, 0, to)
<1> DEFINE first  == Slice(g, 0, from)
           second == Slice(g, from, to)
           all    == Slice(g, 0, to)
<1>1. /\ IsSequence(first) /\ Len(first) = from
      /\ \A i \in 1..from : first[i] = g[0 + i - 1]
  <2>1. from - 0 = from /\ 0 <= from /\ 0 \in Nat
    OBVIOUS
  <2>2. /\ IsSequence(first) /\ Len(first) = from - 0
        /\ \A i \in 1..(from - 0) : first[i] = g[0 + i - 1]
    BY <2>1, SliceShape, ZenonT(60)
  <2> HIDE DEF first
  <2> QED BY <2>1, <2>2
<1>2. /\ IsSequence(second) /\ Len(second) = to - from
      /\ \A i \in 1..(to - from) : second[i] = g[from + i - 1]
  BY SliceShape, ZenonT(60)
<1>3. /\ IsSequence(all) /\ Len(all) = to
      /\ \A i \in 1..to : all[i] = g[0 + i - 1]
  <2>1. to - 0 = to /\ 0 <= to /\ 0 \in Nat
    OBVIOUS
  <2>2. /\ IsSequence(all) /\ Len(all) = to - 0
        /\ \A i \in 1..(to - 0) : all[i] = g[0 + i - 1]
    BY <2>1, SliceShape, ZenonT(60)
  <2> HIDE DEF all
  <2> QED BY <2>1, <2>2
<1> HIDE DEF first, second, all
<1>4. /\ IsSequence(first \o second) /\ Len(first \o second) = to
      /\ \A i \in 1..to :
           (first \o second)[i] = IF i <= from THEN first[i] ELSE second[i - from]
  <2>1. /\ IsSequence(first \o second) /\ Len(first \o second) = Len(first) + Len(second)
        /\ \A i \in 1..(Len(first) + Len(second)) :
             (first \o second)[i] = IF i <= Len(first) THEN first[i] ELSE second[i - Len(first)]
    BY <1>1, <1>2, Joined
  <2>2. Len(first) = from /\ Len(first) + Len(second) = to
    BY <1>1, <1>2
  <2> QED BY <2>1, <2>2
<1>5. ASSUME NEW i \in 1..to PROVE (first \o second)[i] = all[i]
  <2>1. CASE i <= from
    <3>1. i \in 1..from
      BY <2>1
    <3>2. (first \o second)[i] = first[i]
      BY <1>4, <2>1
    <3>3. first[i] = g[0 + i - 1] /\ all[i] = g[0 + i - 1]
      BY <1>1, <1>3, <3>1
    <3> QED BY <3>2, <3>3
  <2>2. CASE ~ (i <= from)
    <3>1. i - from \in 1..(to - from) /\ from + (i - from) - 1 = 0 + i - 1
      BY <2>2
    <3>2. second[i - from] = g[from + (i - from) - 1]
      BY <1>2, <3>1
    <3> QED BY <1>3, <1>4, <2>2, <3>1, <3>2
  <2> QED BY <2>1, <2>2
<1>6. first \o second = all
  BY <1>3, <1>4, <1>5, SameSequence
<1> QED BY <1>1, <1>2, <1>6 DEF first, second, all

\* A part of a sequence, behind its first elements.
LEMMA Part ==
    ASSUME NEW s, IsSequence(s), NEW to \in 0..Len(s), NEW n \in 0..to
    PROVE  LET part == SubSeq(s, n + 1, to)
           IN  /\ IsSequence(part) /\ Len(part) = to - n
               /\ \A i \in 1..(to - n) : part[i] = s[n + i]
<1> DEFINE S == {s[i] : i \in DOMAIN s}
           part == SubSeq(s, n + 1, to)
<1>1. Len(s) \in Nat /\ DOMAIN s = 1..Len(s)
  BY SequenceShape
<1>2. to \in Nat /\ to <= Len(s) /\ n \in Nat /\ n <= to
  BY <1>1
<1>3. \A i \in (n + 1)..to : s[i] \in S
  BY <1>1, <1>2
<1>4. /\ part \in Seq(S)
      /\ Len(part) = IF n + 1 <= to THEN to - (n + 1) + 1 ELSE 0
      /\ \A i \in 1..(to - (n + 1) + 1) : part[i] = s[(n + 1) + i - 1]
  <2> HIDE DEF S
  <2> QED BY <1>2, <1>3, SubSeqProperties
<1> HIDE DEF part, S
<1>5. to - (n + 1) + 1 = to - n
  BY <1>2
<1>6. Len(part) = to - n
  <2>1. CASE n = to
    BY <1>2, <1>4, <2>1
  <2>2. CASE n < to
    BY <1>2, <1>4, <1>5, <2>2
  <2> QED BY <1>2, <2>1, <2>2
<1>7. \A i \in 1..(to - n) : part[i] = s[n + i]
  <2> TAKE i \in 1..(to - n)
  <2>1. (n + 1) + i - 1 = n + i
    BY <1>2
  <2> QED BY <1>4, <1>5, <2>1
<1>8. IsSequence(part)
  BY <1>4, OfSetIsSequence
<1> QED BY <1>6, <1>7, <1>8 DEF part

----------------------------------------------------------------------------
(* The resampler. *)

GoodPlan(r) ==
    /\ r.pair.num \in Nat \ {0} /\ r.pair.den \in Nat \ {0}
    /\ r.length \in Nat /\ r.center \in Nat /\ r.perPhase \in Nat

\* Where the window of output k ends, on the line of the input.
LEMMA BaseBelow ==
    ASSUME NEW r, GoodPlan(r), NEW k \in Nat
    PROVE  /\ Base(r, k) \in Nat
           /\ \A n \in Int : Base(r, k) < n <=> k * r.pair.den + r.center < n * r.pair.num
<1> DEFINE a == k * r.pair.den + r.center
<1>1. a \in Nat /\ r.pair.num \in Nat \ {0}
  BY SMT DEF GoodPlan
<1> HIDE DEF a
<1>2. a \div r.pair.num \in Nat
  BY <1>1, Quotient
<1>3. \A n \in Int : a \div r.pair.num < n <=> a < n * r.pair.num
  BY <1>1, QuotientBelow
<1> QED BY <1>2, <1>3 DEF a, Base

LEMMA BaseGrows ==
    ASSUME NEW r, GoodPlan(r), NEW k \in Nat, NEW l \in Nat, k <= l
    PROVE  Base(r, k) <= Base(r, l)
<1> DEFINE n == Base(r, l) + 1
<1>1. /\ Base(r, k) \in Nat /\ Base(r, l) \in Nat /\ n \in Int /\ Base(r, l) < n
  BY BaseBelow
<1>2. l * r.pair.den + r.center < n * r.pair.num
  <2> HIDE DEF n
  <2> QED BY <1>1, BaseBelow
<1>3. k * r.pair.den <= l * r.pair.den
  BY TimesGrows DEF GoodPlan
<1>4. k * r.pair.den \in Int /\ l * r.pair.den \in Int /\ r.center \in Int /\ n * r.pair.num \in Int
  BY <1>1 DEF GoodPlan
<1> HIDE DEF n
<1>5. k * r.pair.den + r.center < n * r.pair.num
  BY <1>2, <1>3, <1>4
<1>6. Base(r, k) < n
  BY <1>1, <1>5, BaseBelow
<1> QED BY <1>1, <1>6 DEF n

\* An output whose window has ended is one of those the length promises.
LEMMA CountCovers ==
    ASSUME NEW r, GoodPlan(r), NEW n \in Nat
    PROVE  /\ OutputCount(r, n) \in Nat
           /\ \A k \in Nat : Base(r, k) < n => k < OutputCount(r, n)
<1> DEFINE a == n * r.pair.num
<1>1. a \in Nat /\ r.pair.den \in Nat \ {0} /\ r.center \in Nat
  BY SMT DEF GoodPlan
<1>2. ASSUME NEW k \in Nat, Base(r, k) < n PROVE k * r.pair.den < a
  <2>1. k * r.pair.den + r.center < a
    BY <1>2, BaseBelow
  <2>2. k * r.pair.den \in Nat
    BY <1>1, SMT
  <2> HIDE DEF a
  <2> QED BY <1>1, <2>1, <2>2
<1>3. OutputCount(r, n) = CeilDiv(a, r.pair.den)
  BY DEF OutputCount
<1> HIDE DEF a
<1> QED BY <1>1, <1>2, <1>3, CeilAbove

\* After n samples the outputs before e, and no others, may be given.
IsDue(r, n, e) == e \in Nat /\ \A k \in Nat : k < e <=> Base(r, k) < n

LEMMA DueExists ==
    ASSUME NEW r, GoodPlan(r), NEW n \in Nat
    PROVE  \E e \in 0..OutputCount(r, n) : IsDue(r, n, e)
<1> DEFINE T == {k \in Nat : ~ (Base(r, k) < n)}
           count == OutputCount(r, n)
<1>1. count \in Nat /\ \A k \in Nat : Base(r, k) < n => k < count
  BY CountCovers
<1>2. count \in T
  BY <1>1
<1>3. PICK e \in T : \A y \in T : e <= y
  BY <1>2, LeastExists
<1>4. e \in 0..count
  BY <1>1, <1>2, <1>3
<1>5. ASSUME NEW k \in Nat, k < e PROVE Base(r, k) < n
  BY <1>3, <1>5
<1>6. ASSUME NEW k \in Nat, Base(r, k) < n PROVE k < e
  <2>1. SUFFICES ASSUME e <= k PROVE FALSE
    BY <1>3
  <2>2. Base(r, e) <= Base(r, k) /\ Base(r, e) \in Nat /\ Base(r, k) \in Nat
    BY <1>3, <2>1, BaseGrows, BaseBelow
  <2> QED BY <1>3, <1>6, <2>2
<1> QED BY <1>3, <1>4, <1>5, <1>6 DEF IsDue

LEMMA DueIsUnique ==
    ASSUME NEW r, GoodPlan(r), NEW n \in Nat, NEW e, IsDue(r, n, e)
    PROVE  e \in 0..OutputCount(r, n)
<1>1. PICK d \in 0..OutputCount(r, n) : IsDue(r, n, d)
  BY DueExists
<1>2. d \in Nat /\ e \in Nat
  BY <1>1 DEF IsDue
<1>3. ~ (d < e) /\ ~ (e < d)
  BY <1>1, <1>2 DEF IsDue
<1> QED BY <1>1, <1>2, <1>3

\* Counting the outputs that are due finds the next one.
LEMMA DueIsCounted ==
    ASSUME NEW s, GoodPlan(s.plan), s.emitted \in Nat, TotalInput(s) \in Nat,
           NEW e, IsDue(s.plan, TotalInput(s), e), s.emitted <= e
    PROVE  s.emitted + Cardinality(Due(s)) = e
<1> DEFINE count == OutputCount(s.plan, TotalInput(s))
           from  == s.emitted
<1>1. e \in 0..count /\ count \in Nat
  BY DueIsUnique, CountCovers
<1>2. Due(s) = from..(e - 1)
  <2>1. ASSUME NEW k PROVE k \in Due(s) <=> k \in from..(e - 1)
    <3>1. k \in Due(s) <=> k \in from..(from + count) /\ Base(s.plan, k) < TotalInput(s)
      BY DEF Due
    <3>2. k \in Nat => (k < e <=> Base(s.plan, k) < TotalInput(s))
      BY DEF IsDue
    <3> HIDE DEF count
    <3> QED BY <1>1, <3>1, <3>2
  <2> QED BY <2>1
<1>3. from \in Int /\ e - 1 \in Int
  BY <1>1
<1>4. Cardinality(from..(e - 1)) = IF from > e - 1 THEN 0 ELSE (e - 1) - from + 1
  BY <1>3, FS_Interval
<1> HIDE DEF count, from
<1>5. from + Cardinality(Due(s)) = e
  <2>1. from \in Nat /\ from <= e
    BY DEF from
  <2>2. CASE from > e - 1
    BY <1>1, <1>2, <1>4, <2>1, <2>2
  <2>3. CASE ~ (from > e - 1)
    BY <1>1, <1>2, <1>4, <2>1, <2>3
  <2> QED BY <2>2, <2>3
<1> QED BY <1>5 DEF from

\* A buffer that holds the samples behind the first "from" of w.
IsWindow(buffer, from, w) ==
    /\ IsSequence(buffer) /\ IsSequence(w)
    /\ from \in 0..Len(w) /\ Len(buffer) = Len(w) - from
    /\ \A i \in 1..(Len(w) - from) : buffer[i] = w[from + i]

\* No output from k on reaches back behind "from".
ReachesBack(r, from, k) == from = 0 \/ from + r.perPhase - 1 <= Base(r, k)

LEMMA OutputFromWindow ==
    ASSUME NEW r, GoodPlan(r), NEW buffer, NEW from, NEW w, IsWindow(buffer, from, w),
           NEW k \in Nat, ReachesBack(r, from, k)
    PROVE  OutputAt(r, buffer, from, k) = OutputAt(r, w, 0, k)
<1> DEFINE base == Base(r, k)
           Fits(tap) == tap * r.pair.num + Phase(r, k) < r.length
           Used(n, at) == {tap \in 0..(r.perPhase - 1) :
                             /\ tap <= base
                             /\ base - tap \in at..(at + n - 1)
                             /\ tap * r.pair.num + Phase(r, k) < r.length}
<1>1. /\ base \in Nat /\ from \in Nat /\ Len(w) \in Nat /\ Len(buffer) = Len(w) - from
      /\ r.perPhase \in Nat /\ Len(buffer) \in Nat
      /\ from = 0 \/ from + r.perPhase - 1 <= base
  <2>1. base \in Nat
    BY BaseBelow
  <2>2. Len(w) \in Nat /\ Len(buffer) \in Nat
    BY SequenceShape DEF IsWindow
  <2>3. from \in 0..Len(w) /\ Len(buffer) = Len(w) - from
    BY DEF IsWindow
  <2>4. from \in Nat
    BY <2>2, <2>3
  <2>5. from = 0 \/ from + r.perPhase - 1 <= base
    BY DEF ReachesBack
  <2> QED BY <2>1, <2>2, <2>3, <2>4, <2>5 DEF GoodPlan
<1>2. ASSUME NEW tap \in 0..(r.perPhase - 1), tap <= base
      PROVE  base - tap \in from..(from + Len(buffer) - 1) <=> base - tap \in 0..(0 + Len(w) - 1)
  <2> HIDE DEF base
  <2>1. base - tap >= from \/ from = 0
    BY <1>1, <1>2
  <2>2. from + Len(buffer) - 1 = 0 + Len(w) - 1
    BY <1>1
  <2> QED BY <1>1, <1>2, <2>1, <2>2
<1>3. Used(Len(buffer), from) = Used(Len(w), 0)
  <2> HIDE DEF base
  <2> QED BY <1>2
<1>4. ASSUME NEW tap \in Used(Len(buffer), from)
      PROVE  buffer[base - tap - from + 1] = w[base - tap - 0 + 1]
  <2>1. tap \in Int /\ base - tap \in from..(from + Len(buffer) - 1)
    OBVIOUS
  <2> DEFINE i == base - tap - from + 1
  <2> HIDE DEF base
  <2>2. i \in 1..(Len(w) - from) /\ from + i = base - tap - 0 + 1
    BY <1>1, <2>1
  <2> QED BY <2>2, SMTT(30) DEF IsWindow
<1>5. OutputAt(r, buffer, from, k) =
        {<<tap * r.pair.num + Phase(r, k), buffer[base - tap - from + 1]>> :
           tap \in Used(Len(buffer), from)}
  BY DEF OutputAt
<1>6. OutputAt(r, w, 0, k) =
        {<<tap * r.pair.num + Phase(r, k), w[base - tap - 0 + 1]>> : tap \in Used(Len(w), 0)}
  BY DEF OutputAt
<1> HIDE DEF base, Used
<1> QED BY <1>3, <1>4, <1>5, <1>6

\* An output that is due stays what it is, whatever arrives later.
LEMMA OutputStays ==
    ASSUME NEW r, GoodPlan(r), NEW w, NEW v, IsSequence(w), IsSequence(v),
           NEW k \in Nat, Base(r, k) < Len(w)
    PROVE  OutputAt(r, w \o v, 0, k) = OutputAt(r, w, 0, k)
<1> DEFINE base == Base(r, k)
           Used(n) == {tap \in 0..(r.perPhase - 1) :
                         /\ tap <= base
                         /\ base - tap \in 0..(0 + n - 1)
                         /\ tap * r.pair.num + Phase(r, k) < r.length}
           u == w \o v
<1>1. /\ base \in Nat /\ Len(w) \in Nat /\ Len(v) \in Nat /\ Len(u) = Len(w) + Len(v)
      /\ base < Len(w) /\ r.perPhase \in Nat
      /\ \A i \in 1..(Len(w) + Len(v)) : u[i] = IF i <= Len(w) THEN w[i] ELSE v[i - Len(w)]
  BY BaseBelow, SequenceShape, Joined DEF GoodPlan
<1>2. OutputAt(r, u, 0, k) =
        {<<tap * r.pair.num + Phase(r, k), u[base - tap - 0 + 1]>> : tap \in Used(Len(u))}
  BY DEF OutputAt
<1>3. OutputAt(r, w, 0, k) =
        {<<tap * r.pair.num + Phase(r, k), w[base - tap - 0 + 1]>> : tap \in Used(Len(w))}
  BY DEF OutputAt
<1> HIDE DEF u, base
<1>4. Used(Len(u)) = Used(Len(w))
  <2>1. ASSUME NEW tap \in 0..(r.perPhase - 1), tap <= base
        PROVE  base - tap \in 0..(0 + Len(u) - 1) <=> base - tap \in 0..(0 + Len(w) - 1)
    BY <1>1, <2>1, SMTT(30)
  <2> QED BY <2>1
<1>5. ASSUME NEW tap \in Used(Len(w))
      PROVE  u[base - tap - 0 + 1] = w[base - tap - 0 + 1]
  <2> DEFINE i == base - tap - 0 + 1
  <2>1. i \in 1..(Len(w) + Len(v)) /\ i <= Len(w)
    BY <1>1
  <2> HIDE DEF i
  <2>2. u[i] = w[i]
    BY <1>1, <2>1
  <2> QED BY <2>2 DEF i
<1> HIDE DEF Used
<1>6. OutputAt(r, u, 0, k) = OutputAt(r, w, 0, k)
  BY <1>2, <1>3, <1>4, <1>5
<1> QED BY <1>6 DEF u

----------------------------------------------------------------------------
(* What a resampler has given for the samples it was pushed. *)

\* The outputs of w as a whole, from one to the one before another.
Outputs(r, w, from, to) == Slice([k \in Nat |-> OutputAt(r, w, 0, k)], from, to)

LEMMA OutputsAre ==
    ASSUME NEW r, NEW w, NEW from \in Nat, NEW to
    PROVE  Outputs(r, w, from, to) = [i \in 1..(to - from) |-> OutputAt(r, w, 0, from + i - 1)]
<1>1. \A i \in 1..(to - from) : from + i - 1 \in Nat
  OBVIOUS
<1> QED BY <1>1 DEF Outputs, Slice

\* A resampler that was given the samples w, however they were cut.
IsStream(s, w) ==
    /\ DOMAIN s = {"plan", "buffer", "from", "emitted"}
    /\ GoodPlan(s.plan) /\ IsSequence(w)
    /\ ~IsIdentity(s.plan.pair) =>
         /\ IsWindow(s.buffer, s.from, w)
         /\ IsDue(s.plan, Len(w), s.emitted)
         /\ ReachesBack(s.plan, s.from, s.emitted)

\* What it has given for them.
Gave(s, w) ==
    IF IsIdentity(s.plan.pair) THEN w
    ELSE Outputs(s.plan, w, 0, s.emitted)

LEMMA NewStreamGaveNothing ==
    ASSUME NEW r, GoodPlan(r)
    PROVE  /\ IsStream(NewStreamResampler(r), <<>>)
           /\ Gave(NewStreamResampler(r), <<>>) = <<>>
           /\ NewStreamResampler(r).plan = r
<1> DEFINE s == NewStreamResampler(r)
<1>1. /\ DOMAIN s = {"plan", "buffer", "from", "emitted"}
      /\ s.plan = r /\ s.buffer = <<>> /\ s.from = 0 /\ s.emitted = 0
  BY DEF NewStreamResampler
<1> HIDE DEF s
<1>2. IsSequence(<<>>) /\ Len(<<>>) = 0
  BY JoinedEmpty
<1>3. IsWindow(<<>>, 0, <<>>)
  <2>1. 0 \in 0..Len(<<>>) /\ 1..(Len(<<>>) - 0) = {} /\ Len(<<>>) = Len(<<>>) - 0
    BY <1>2
  <2> QED BY <1>2, <2>1 DEF IsWindow
<1>4. IsDue(r, 0, 0)
  BY BaseBelow DEF IsDue
<1>5. IsStream(s, <<>>)
  BY <1>1, <1>2, <1>3, <1>4 DEF IsStream, ReachesBack
<1>6. Gave(s, <<>>) = <<>>
  <2>1. CASE ~IsIdentity(r.pair)
    <3> DEFINE g == Outputs(r, <<>>, 0, 0)
    <3>1. Gave(s, <<>>) = g
      BY <1>1, <2>1 DEF Gave
    <3>2. IsSequence(g) /\ Len(g) = 0 - 0
      BY SliceShape DEF Outputs
    <3> HIDE DEF g
    <3>3. g = <<>>
      BY <1>2, <3>2, SameSequence
    <3> QED BY <3>1, <3>3
  <2> QED BY <1>1, <2>1 DEF Gave
<1> QED BY <1>1, <1>5, <1>6 DEF s

\* Forgetting the history leaves what later outputs reach back to.
LEMMA ForgetKeeps ==
    ASSUME NEW s, GoodPlan(s.plan), DOMAIN s = {"plan", "buffer", "from", "emitted"},
           NEW w, IsWindow(s.buffer, s.from, w), IsDue(s.plan, Len(w), s.emitted),
           ReachesBack(s.plan, s.from, s.emitted)
    PROVE  LET t == Forget(s)
           IN  /\ DOMAIN t = {"plan", "buffer", "from", "emitted"}
               /\ t.plan = s.plan /\ t.emitted = s.emitted
               /\ IsWindow(t.buffer, t.from, w) /\ ReachesBack(s.plan, t.from, t.emitted)
<1> DEFINE keepFrom == Max({0, Base(s.plan, s.emitted) - (s.plan.perPhase - 1)})
           behind == Max({0, keepFrom - s.from})
           drop == Min({Len(s.buffer), behind})
           t == Forget(s)
           base == Base(s.plan, s.emitted)
           m == s.plan.perPhase
<1>1. /\ base \in Nat /\ m \in Nat
      /\ s.from \in Nat /\ Len(w) \in Nat /\ Len(s.buffer) \in Nat
      /\ Len(s.buffer) = Len(w) - s.from
      /\ s.from = 0 \/ s.from + m - 1 <= base
  <2>1. base \in Nat
    BY BaseBelow DEF IsDue
  <2>2. Len(w) \in Nat /\ Len(s.buffer) \in Nat
    BY SequenceShape DEF IsWindow
  <2>3. s.from \in 0..Len(w) /\ Len(s.buffer) = Len(w) - s.from
    BY DEF IsWindow
  <2>4. s.from \in Nat
    BY <2>2, <2>3
  <2>5. s.from = 0 \/ s.from + m - 1 <= base
    BY DEF ReachesBack
  <2> QED BY <2>1, <2>2, <2>3, <2>4, <2>5 DEF GoodPlan
<1>2. /\ t = [s EXCEPT !.buffer = SubSeq(@, drop + 1, Len(@)), !.from = @ + drop]
  BY DEF Forget
<1> HIDE DEF t, base, m
<1>3. keepFrom \in Int /\ keepFrom \in {0, base - (m - 1)} /\ keepFrom >= 0
  <2> DEFINE x == base - (m - 1)
  <2>1. x \in Int /\ 0 \in Int
    BY <1>1
  <2>2. keepFrom = Max({0, x})
    BY DEF base, m
  <2> HIDE DEF keepFrom, x
  <2>3. Max({0, x}) \in {0, x} /\ Max({0, x}) >= 0
    BY <2>1, OfTwo, Zenon
  <2>4. keepFrom \in {0, x} /\ keepFrom >= 0
    BY <2>2, <2>3
  <2> QED BY <2>1, <2>4 DEF x
<1> HIDE DEF keepFrom
<1>4. behind \in Int /\ behind \in {0, keepFrom - s.from} /\ behind >= 0
  <2> DEFINE x == keepFrom - s.from
  <2>1. x \in Int /\ 0 \in Int
    BY <1>1, <1>3
  <2> HIDE DEF x
  <2>2. Max({0, x}) \in {0, x} /\ Max({0, x}) >= 0
    BY <2>1, OfTwo, Zenon
  <2>3. behind \in {0, x} /\ behind >= 0
    BY <2>2 DEF x
  <2> HIDE DEF behind
  <2> QED BY <2>1, <2>3 DEF x
<1> HIDE DEF behind
<1>5. drop \in {Len(s.buffer), behind} /\ drop <= behind /\ drop <= Len(s.buffer)
  <2> DEFINE x == Len(s.buffer)
  <2>1. x \in Int /\ behind \in Int
    BY <1>1, <1>4
  <2> HIDE DEF x
  <2>2. Min({x, behind}) \in {x, behind} /\ Min({x, behind}) <= x /\ Min({x, behind}) <= behind
    BY <2>1, OfTwo, Zenon
  <2> QED BY <2>2 DEF x
<1> HIDE DEF drop
<1>6. drop \in 0..Len(s.buffer)
  BY <1>1, <1>4, <1>5
<1>7. s.from + drop = 0 \/ s.from + drop + m - 1 <= base
  <2>1. CASE drop = 0
    BY <1>1, <2>1
  <2>2. CASE drop # 0
    <3>1. behind = keepFrom - s.from /\ drop <= keepFrom - s.from
      BY <1>1, <1>4, <1>5, <2>2
    <3>2. drop \in Int /\ s.from + drop <= keepFrom
      BY <1>1, <1>3, <1>6, <3>1
    <3> QED BY <1>1, <1>3, <1>6, <3>2
  <2> QED BY <2>1, <2>2
<1>8. /\ DOMAIN t = {"plan", "buffer", "from", "emitted"}
      /\ t.plan = s.plan /\ t.emitted = s.emitted
      /\ t.buffer = SubSeq(s.buffer, drop + 1, Len(s.buffer)) /\ t.from = s.from + drop
  BY <1>2
<1>9. IsWindow(t.buffer, t.from, w)
  <2>1. /\ IsSequence(t.buffer) /\ Len(t.buffer) = Len(s.buffer) - drop
        /\ \A i \in 1..(Len(s.buffer) - drop) : t.buffer[i] = s.buffer[drop + i]
    <3>1. IsSequence(s.buffer)
      BY DEF IsWindow
    <3> QED BY <1>1, <1>6, <1>8, <3>1, Part, SMTT(30)
  <2>2. t.from \in 0..Len(w) /\ Len(t.buffer) = Len(w) - t.from
    BY <1>1, <1>6, <1>8, <2>1, SMTT(30)
  <2>3. ASSUME NEW i \in 1..(Len(w) - t.from) PROVE t.buffer[i] = w[t.from + i]
    <3>1. i \in 1..(Len(s.buffer) - drop) /\ drop + i \in 1..(Len(w) - s.from)
      BY <1>1, <1>6, <1>8, <2>3, SMTT(30)
    <3>2. s.from + (drop + i) = t.from + i
      BY <1>1, <1>6, <1>8, <3>1
    <3>3. t.buffer[i] = s.buffer[drop + i] /\ s.buffer[drop + i] = w[s.from + (drop + i)]
      BY <2>1, <3>1 DEF IsWindow
    <3> QED BY <3>2, <3>3
  <2> QED BY <2>1, <2>2, <2>3 DEF IsWindow
<1>10. ReachesBack(s.plan, t.from, t.emitted)
  BY <1>7, <1>8 DEF ReachesBack, base, m
<1> QED BY <1>8, <1>9, <1>10 DEF t

LEMMA JoinedWindow ==
    ASSUME NEW buffer, NEW from, NEW w, NEW v, IsWindow(buffer, from, w), IsSequence(v)
    PROVE  IsWindow(buffer \o v, from, w \o v)
<1>1. /\ IsSequence(buffer) /\ IsSequence(w) /\ Len(w) \in Nat /\ Len(v) \in Nat
      /\ Len(buffer) = Len(w) - from /\ from \in 0..Len(w)
  BY SequenceShape DEF IsWindow
<1> DEFINE n == Len(w)
           l == Len(v)
           b == Len(buffer)
<1>2. /\ IsSequence(buffer \o v) /\ Len(buffer \o v) = b + l
      /\ \A i \in 1..(b + l) : (buffer \o v)[i] = IF i <= b THEN buffer[i] ELSE v[i - b]
  BY <1>1, Joined
<1>3. /\ IsSequence(w \o v) /\ Len(w \o v) = n + l
      /\ \A i \in 1..(n + l) : (w \o v)[i] = IF i <= n THEN w[i] ELSE v[i - n]
  BY <1>1, Joined
<1>4. \A i \in 1..(n - from) : buffer[i] = w[from + i]
  BY DEF IsWindow
<1>5. n \in Nat /\ l \in Nat /\ b = n - from /\ from \in 0..n
  BY <1>1
<1> HIDE DEF n, l, b
<1>6. from \in 0..(n + l) /\ b + l = n + l - from
  BY <1>5
<1>7. ASSUME NEW i \in 1..(n + l - from) PROVE (buffer \o v)[i] = (w \o v)[from + i]
  <2>1. i \in 1..(b + l) /\ from + i \in 1..(n + l) /\ (i <= b <=> from + i <= n)
    BY <1>5
  <2>2. CASE i <= b
    <3>1. i \in 1..(n - from)
      BY <1>5, <2>2
    <3> QED BY <1>2, <1>3, <1>4, <2>1, <2>2, <3>1
  <2>3. CASE ~ (i <= b)
    <3>1. i - b = (from + i) - n
      BY <1>5
    <3> QED BY <1>2, <1>3, <2>1, <2>3, <3>1
  <2> QED BY <2>2, <2>3
<1>8. /\ from \in 0..Len(w \o v) /\ Len(buffer \o v) = Len(w \o v) - from
      /\ \A i \in 1..(Len(w \o v) - from) : (buffer \o v)[i] = (w \o v)[from + i]
  <2>1. Len(buffer \o v) = n + l - from /\ Len(w \o v) = n + l
    BY <1>2, <1>3, <1>6
  <2> DEFINE x == buffer \o v
             y == w \o v
  <2>2. \A i \in 1..(n + l - from) : x[i] = y[from + i]
    BY <1>7
  <2> HIDE DEF x, y
  <2>3. Len(x) = n + l - from /\ Len(y) = n + l
    BY <2>1 DEF x, y
  <2>4. /\ from \in 0..Len(y) /\ Len(x) = Len(y) - from
        /\ \A i \in 1..(Len(y) - from) : x[i] = y[from + i]
    BY <1>5, <1>6, <2>2, <2>3, SMTT(30)
  <2> QED BY <2>4 DEF x, y
<1> QED BY <1>2, <1>3, <1>8 DEF IsWindow

LEMMA IdentityPush ==
    ASSUME NEW s, NEW w, NEW v, IsStream(s, w), IsSequence(v), IsIdentity(s.plan.pair)
    PROVE  LET pushed == PushSamples(s, v)
           IN  /\ IsStream(pushed.state, w \o v) /\ pushed.state.plan = s.plan
               /\ IsSequence(pushed.output) /\ IsSequence(Gave(s, w))
               /\ Gave(pushed.state, w \o v) = Gave(s, w) \o pushed.output
<1>1. PushSamples(s, v).state = s /\ PushSamples(s, v).output = v
  BY DEF PushSamples
<1>2. IsStream(s, w \o v)
  BY Joined DEF IsStream
<1>3. Gave(s, w) = w /\ Gave(s, w \o v) = w \o v /\ IsSequence(w)
  BY DEF Gave, IsStream
<1> QED BY <1>1, <1>2, <1>3

\* The outputs that a resampler gives from its buffer are those of the whole.
LEMMA OutputsOfWhole ==
    ASSUME NEW s, GoodPlan(s.plan), NEW w, IsWindow(s.buffer, s.from, w),
           s.emitted \in Nat, ReachesBack(s.plan, s.from, s.emitted), NEW to \in Nat
    PROVE  OutputsTo(s, to) = Outputs(s.plan, w, s.emitted, to)
<1>1. ASSUME NEW i \in 1..(to - s.emitted)
      PROVE  OutputAt(s.plan, s.buffer, s.from, s.emitted + i - 1)
               = OutputAt(s.plan, w, 0, s.emitted + i - 1)
  <2> DEFINE k == s.emitted + i - 1
  <2>1. k \in Nat /\ s.emitted <= k
    OBVIOUS
  <2> HIDE DEF k
  <2>2. Base(s.plan, s.emitted) <= Base(s.plan, k)
    BY <2>1, BaseGrows
  <2>3. /\ Base(s.plan, s.emitted) \in Nat /\ Base(s.plan, k) \in Nat
        /\ s.from \in Int /\ s.plan.perPhase \in Nat
    <3>1. s.from \in Int
      BY SequenceShape DEF IsWindow
    <3>2. Base(s.plan, s.emitted) \in Nat /\ Base(s.plan, k) \in Nat
      BY <2>1, BaseBelow
    <3> QED BY <3>1, <3>2 DEF GoodPlan
  <2>4. ReachesBack(s.plan, s.from, k)
    BY <2>2, <2>3 DEF ReachesBack
  <2>5. OutputAt(s.plan, s.buffer, s.from, k) = OutputAt(s.plan, w, 0, k)
    BY <2>1, <2>4, OutputFromWindow
  <2> QED BY <2>5 DEF k
<1> QED BY <1>1, OutputsAre DEF OutputsTo

LEMMA TotalIsArrived ==
    ASSUME NEW s, NEW w, IsWindow(s.buffer, s.from, w)
    PROVE  TotalInput(s) = Len(w) /\ Len(w) \in Nat
<1>1. Len(w) \in Nat
  BY SequenceShape DEF IsWindow
<1>2. s.from \in 0..Len(w) /\ Len(s.buffer) = Len(w) - s.from
  BY DEF IsWindow
<1>3. s.from + (Len(w) - s.from) = Len(w)
  BY <1>1, <1>2
<1> QED BY <1>1, <1>2, <1>3 DEF TotalInput

\* Outputs that are due stay what they were when more arrives.
LEMMA GaveStays ==
    ASSUME NEW r, GoodPlan(r), NEW w, NEW v, IsSequence(w), IsSequence(v),
           NEW e, IsDue(r, Len(w), e)
    PROVE  Outputs(r, w, 0, e) = Outputs(r, w \o v, 0, e)
<1>1. ASSUME NEW i \in 1..(e - 0)
      PROVE  OutputAt(r, w, 0, 0 + i - 1) = OutputAt(r, w \o v, 0, 0 + i - 1)
  <2> DEFINE k == 0 + i - 1
  <2>1. e \in Nat
    BY DEF IsDue
  <2>2. k \in Nat /\ k < e
    BY <2>1
  <2> HIDE DEF k
  <2>3. Base(r, k) < Len(w)
    BY <2>2 DEF IsDue
  <2>4. OutputAt(r, w \o v, 0, k) = OutputAt(r, w, 0, k)
    BY <2>2, <2>3, OutputStays
  <2> QED BY <2>4 DEF k
<1>2. /\ Outputs(r, w, 0, e) = [i \in 1..(e - 0) |-> OutputAt(r, w, 0, 0 + i - 1)]
      /\ Outputs(r, w \o v, 0, e) = [i \in 1..(e - 0) |-> OutputAt(r, w \o v, 0, 0 + i - 1)]
  BY OutputsAre
<1> QED BY <1>1, <1>2

\* push: however the samples are cut, what was given grows by the output, and
\* depends on the samples alone.
LEMMA ResamplerPush ==
    ASSUME NEW s, NEW w, NEW v, IsStream(s, w), IsSequence(v)
    PROVE  LET pushed == PushSamples(s, v)
           IN  /\ IsStream(pushed.state, w \o v) /\ pushed.state.plan = s.plan
               /\ IsSequence(pushed.output) /\ IsSequence(Gave(s, w))
               /\ Gave(pushed.state, w \o v) = Gave(s, w) \o pushed.output
<1>1. CASE IsIdentity(s.plan.pair)
  BY <1>1, IdentityPush
<1>2. CASE ~IsIdentity(s.plan.pair)
  <2> DEFINE r    == s.plan
             u    == w \o v
             held == [s EXCEPT !.buffer = @ \o v]
             upto == s.emitted + Cardinality(Due(held))
             more == [held EXCEPT !.emitted = upto]
             pushed == PushSamples(s, v)
  <2>1. /\ GoodPlan(r) /\ IsSequence(w) /\ IsWindow(s.buffer, s.from, w)
        /\ IsDue(r, Len(w), s.emitted) /\ ReachesBack(r, s.from, s.emitted)
        /\ DOMAIN s = {"plan", "buffer", "from", "emitted"}
    BY <1>2 DEF IsStream
  <2>2. /\ DOMAIN held = {"plan", "buffer", "from", "emitted"}
        /\ held.plan = r /\ held.from = s.from /\ held.emitted = s.emitted
        /\ held.buffer = s.buffer \o v
    BY <2>1
  <2>3. IsWindow(held.buffer, held.from, u) /\ IsSequence(u)
    BY <2>1, <2>2, JoinedWindow, Joined
  <2>4. pushed.state = Forget(more) /\ pushed.output = OutputsTo(held, upto)
    BY <1>2 DEF PushSamples
  <2>5. /\ DOMAIN more = {"plan", "buffer", "from", "emitted"}
        /\ more.plan = r /\ more.from = s.from /\ more.emitted = upto
        /\ more.buffer = held.buffer
    BY <2>2
  <2> HIDE DEF more, pushed
  <2>6. TotalInput(held) = Len(u) /\ Len(u) \in Nat
    <3> HIDE DEF held, u
    <3> QED BY <2>3, TotalIsArrived
  <2>7. Len(w) \in Nat /\ Len(v) \in Nat /\ Len(u) = Len(w) + Len(v)
    BY <2>1, SequenceShape, Joined
  <2>8. PICK e \in Nat : IsDue(r, Len(u), e)
    <3> HIDE DEF u
    <3> QED BY <2>1, <2>6, DueExists DEF IsDue
  <2>9. s.emitted \in Nat /\ s.emitted <= e
    <3>1. s.emitted \in Nat
      BY <2>1 DEF IsDue
    <3>2. SUFFICES ASSUME e < s.emitted PROVE FALSE
      BY <2>8, <3>1
    <3>3. Base(r, e) < Len(w) /\ ~ (Base(r, e) < Len(u))
      <4> HIDE DEF u
      <4> QED BY <2>1, <2>8, <3>2 DEF IsDue
    <3>4. Base(r, e) \in Nat
      BY <2>1, <2>8, BaseBelow
    <3> HIDE DEF u
    <3> QED BY <2>7, <3>3, <3>4
  <2>10. upto = e
    <3> HIDE DEF held, u
    <3>1. GoodPlan(held.plan) /\ held.emitted \in Nat /\ TotalInput(held) \in Nat
      BY <2>1, <2>2, <2>6, <2>9
    <3>2. IsDue(held.plan, TotalInput(held), e) /\ held.emitted <= e
      BY <2>2, <2>6, <2>8, <2>9
    <3>3. held.emitted + Cardinality(Due(held)) = e
      BY <3>1, <3>2, DueIsCounted
    <3> QED BY <2>2, <3>3
  <2> HIDE DEF upto
  <2>11. ReachesBack(r, s.from, upto)
    <3>1. Base(r, s.emitted) <= Base(r, upto)
      BY <2>1, <2>9, <2>10, BaseGrows
    <3>2. Base(r, s.emitted) \in Nat /\ Base(r, upto) \in Nat
      BY <2>1, <2>9, <2>10, BaseBelow
    <3>3. s.from \in Int /\ r.perPhase \in Nat
      BY <2>1, <2>7 DEF IsWindow, GoodPlan
    <3> HIDE DEF r
    <3> QED BY <2>1, <3>1, <3>2, <3>3 DEF ReachesBack
  <2>12. /\ DOMAIN pushed.state = {"plan", "buffer", "from", "emitted"}
         /\ pushed.state.plan = r /\ pushed.state.emitted = upto
         /\ IsWindow(pushed.state.buffer, pushed.state.from, u)
         /\ ReachesBack(r, pushed.state.from, upto)
    <3>1. /\ GoodPlan(more.plan) /\ IsWindow(more.buffer, more.from, u)
          /\ IsDue(more.plan, Len(u), more.emitted)
          /\ ReachesBack(more.plan, more.from, more.emitted)
      <4> HIDE DEF held, u
      <4> QED BY <2>1, <2>2, <2>3, <2>5, <2>8, <2>10, <2>11
    <3> HIDE DEF held, u, r
    <3> QED BY <2>4, <2>5, <3>1, ForgetKeeps
  <2>13. IsStream(pushed.state, u)
    <3> HIDE DEF held, u
    <3> QED BY <2>1, <2>3, <2>8, <2>10, <2>12 DEF IsStream
  <2>14. pushed.output = Outputs(r, u, s.emitted, e)
    <3> HIDE DEF held, u
    <3>1. /\ GoodPlan(held.plan) /\ held.emitted \in Nat
          /\ ReachesBack(held.plan, held.from, held.emitted)
      BY <2>1, <2>2, <2>9
    <3>2. OutputsTo(held, e) = Outputs(held.plan, u, held.emitted, e)
      BY <2>3, <2>8, <3>1, OutputsOfWhole
    <3> QED BY <2>2, <2>4, <2>10, <3>2
  <2>15. Gave(s, w) = Outputs(r, u, 0, s.emitted)
    <3>1. Gave(s, w) = Outputs(r, w, 0, s.emitted)
      BY <1>2 DEF Gave
    <3> QED BY <2>1, <3>1, GaveStays
  <2>16. Gave(pushed.state, u) = Outputs(r, u, 0, e)
    BY <1>2, <2>10, <2>12 DEF Gave
  <2>17. /\ IsSequence(Gave(s, w)) /\ IsSequence(pushed.output)
         /\ Gave(s, w) \o pushed.output = Gave(pushed.state, u)
    <3> HIDE DEF held, u, r
    <3> QED BY <2>8, <2>9, <2>14, <2>15, <2>16, SlicesJoin DEF Outputs
  <2> QED BY <2>12, <2>13, <2>17 DEF pushed
<1> QED BY <1>1, <1>2

\* finish: with the tail, what was given is what the whole gives at once.
LEMMA ResamplerFinish ==
    ASSUME NEW s, NEW w, IsStream(s, w)
    PROVE  /\ IsSequence(Gave(s, w)) /\ IsSequence(FinishSamples(s))
           /\ Gave(s, w) \o FinishSamples(s) = Process(s.plan, w)
<1>1. CASE IsIdentity(s.plan.pair)
  <2>1. Gave(s, w) = w /\ FinishSamples(s) = <<>> /\ Process(s.plan, w) = w /\ IsSequence(w)
    BY <1>1 DEF Gave, FinishSamples, Process, IsStream
  <2> QED BY <2>1, JoinedEmpty
<1>2. CASE ~IsIdentity(s.plan.pair)
  <2> DEFINE r == s.plan
             e == s.emitted
             count == OutputCount(r, Len(w))
  <2>1. /\ GoodPlan(r) /\ IsSequence(w) /\ IsWindow(s.buffer, s.from, w)
        /\ IsDue(r, Len(w), e) /\ ReachesBack(r, s.from, e)
    BY <1>2 DEF IsStream
  <2>2. TotalInput(s) = Len(w) /\ Len(w) \in Nat
    BY <2>1, TotalIsArrived
  <2>3. e \in Nat /\ count \in Nat /\ e <= count
    <3>1. count \in Nat /\ e \in 0..count
      BY <2>1, <2>2, DueIsUnique, CountCovers
    <3> HIDE DEF count
    <3> QED BY <3>1
  <2>4. FinishSamples(s) = Outputs(r, w, e, count)
    <3>1. FinishSamples(s) = OutputsTo(s, count)
      BY <1>2, <2>2 DEF FinishSamples
    <3> HIDE DEF count
    <3> QED BY <2>1, <2>3, <3>1, OutputsOfWhole
  <2>5. Gave(s, w) = Outputs(r, w, 0, e)
    BY <1>2 DEF Gave
  <2>6. Process(r, w) = Outputs(r, w, 0, count)
    <3>1. Process(r, w) = [i \in 1..count |-> OutputAt(r, w, 0, i - 1)]
      BY <1>2 DEF Process
    <3> HIDE DEF count, r
    <3>2. count - 0 = count /\ \A i \in 1..count : i - 1 = 0 + i - 1
      BY <2>3
    <3>3. Outputs(r, w, 0, count) = [i \in 1..(count - 0) |-> OutputAt(r, w, 0, 0 + i - 1)]
      BY OutputsAre
    <3> QED BY <3>1, <3>2, <3>3
  <2> HIDE DEF count, r, e
  <2>7. /\ IsSequence(Gave(s, w)) /\ IsSequence(FinishSamples(s))
        /\ Gave(s, w) \o FinishSamples(s) = Process(r, w)
    BY <2>3, <2>4, <2>5, <2>6, SlicesJoin DEF Outputs
  <2> QED BY <2>7 DEF r
<1> QED BY <1>1, <1>2

\* Whatever arrives later, what was given is a beginning of what the whole gives.
LEMMA GaveBegins ==
    ASSUME NEW s, NEW w, NEW v, IsStream(s, w), IsSequence(v)
    PROVE  \E rest : IsSequence(rest) /\ Process(s.plan, w \o v) = Gave(s, w) \o rest
<1> DEFINE pushed == PushSamples(s, v)
<1>1. /\ IsStream(pushed.state, w \o v) /\ pushed.state.plan = s.plan
      /\ IsSequence(pushed.output) /\ IsSequence(Gave(s, w))
      /\ Gave(pushed.state, w \o v) = Gave(s, w) \o pushed.output
  BY ResamplerPush
<1> HIDE DEF pushed
<1> DEFINE tail == FinishSamples(pushed.state)
<1>2. /\ IsSequence(tail)
      /\ Gave(pushed.state, w \o v) \o tail = Process(pushed.state.plan, w \o v)
  BY <1>1, ResamplerFinish
<1> HIDE DEF tail
<1>3. (Gave(s, w) \o pushed.output) \o tail = Gave(s, w) \o (pushed.output \o tail)
  <2> DEFINE gave == Gave(s, w)
             next == pushed.output
  <2>1. IsSequence(gave) /\ IsSequence(next) /\ IsSequence(tail)
    BY <1>1, <1>2
  <2> HIDE DEF gave, next
  <2>2. (gave \o next) \o tail = gave \o (next \o tail)
    BY <2>1, JoinedThrice
  <2> QED BY <2>2 DEF gave, next
<1>4. IsSequence(pushed.output \o tail)
  BY <1>1, <1>2, Joined
<1> QED BY <1>1, <1>2, <1>3, <1>4

----------------------------------------------------------------------------
(* Every pair of rates has a plan. *)

\* A set of numbers from 1 to n has a greatest element.
LEMMA GreatestExists ==
    ASSUME NEW n \in Nat, NEW T \in SUBSET (1..n), T # {}
    PROVE  Max(T) \in T /\ \A y \in T : y <= Max(T)
<1> DEFINE U == {n - d : d \in T}
<1>1. U \in SUBSET Nat /\ U # {}
  <2>1. \A d \in T : n - d \in Nat
    OBVIOUS
  <2> QED BY <2>1
<1>2. PICK x \in U : \A y \in U : x <= y
  <2> HIDE DEF U
  <2> QED BY <1>1, LeastExists
<1>3. PICK m \in T : x = n - m
  BY <1>2
<1>4. ASSUME NEW y \in T PROVE m >= y
  <2>1. n - y \in U
    OBVIOUS
  <2>2. x <= n - y
    BY <1>2, <2>1
  <2>3. m \in Int /\ y \in Int
    OBVIOUS
  <2> QED BY <1>3, <2>2, <2>3
<1>5. \E z \in T : \A y \in T : z >= y
  BY <1>4
<1>6. Max(T) \in T /\ \A y \in T : Max(T) >= y
  BY <1>5, Zenon DEF Max
<1>7. \A y \in T : y \in Int
  OBVIOUS
<1> QED BY <1>6, <1>7

\* The reduced pair of two rates that can be paired.
LEMMA RatePairIsPositive ==
    ASSUME NEW a \in Nat \ {0}, NEW b \in Nat \ {0}, RatePair(a, b).ok
    PROVE  /\ RatePair(a, b).value.num \in Nat \ {0}
           /\ RatePair(a, b).value.den \in Nat \ {0}
<1> DEFINE m == Min({a, b})
           T == {d \in 1..m : (a % d) = 0 /\ (b % d) = 0}
           g == GcdOf(a, b)
           pair == [num |-> b \div g, den |-> a \div g]
<1>1. m \in Nat \ {0} /\ m <= a /\ m <= b
  <2>1. a \in Int /\ b \in Int
    OBVIOUS
  <2>2. m \in {a, b} /\ m <= a /\ m <= b
    BY <2>1, OfTwo, Zenon
  <2> HIDE DEF m
  <2> QED BY <2>2
<1>2. 1 \in T
  <2>1. (a % 1) = 0 /\ (b % 1) = 0
    OBVIOUS
  <2> HIDE DEF m
  <2> QED BY <1>1, <2>1
<1>3. g = Max(T)
  BY DEF GcdOf
<1>4. g \in T
  <2>1. T \in SUBSET (1..m) /\ T # {}
    BY <1>2
  <2> HIDE DEF T, m
  <2> QED BY <1>1, <1>3, <2>1, GreatestExists
<1>5. g \in Nat \ {0} /\ g <= a /\ g <= b
  <2> HIDE DEF m, g
  <2>1. g \in 1..m
    BY <1>4
  <2> QED BY <1>1, <2>1
<1> HIDE DEF g
<1>6. a \div g \in Nat \ {0} /\ b \div g \in Nat \ {0}
  <2>1. a \div g \in Nat /\ b \div g \in Nat
    BY <1>5, Quotient
  <2>2. ~ (a \div g < 1) /\ ~ (b \div g < 1)
    <3>1. 1 * g = g /\ 1 \in Int
      BY <1>5
    <3>2. a \div g < 1 <=> a < 1 * g
      BY <1>5, <3>1, QuotientBelow
    <3>3. b \div g < 1 <=> b < 1 * g
      BY <1>5, <3>1, QuotientBelow
    <3> QED BY <1>5, <3>1, <3>2, <3>3
  <2> QED BY <2>1, <2>2
<1>7. RatePair(a, b) = IF pair.num > MaxFactor \/ pair.den > MaxFactor THEN Refused ELSE Ok(pair)
  BY DEF RatePair, g
<1>8. ~ Refused.ok
  BY DEF Refused, Err
<1>9. RatePair(a, b) = Ok(pair)
  <2> HIDE DEF pair
  <2> QED BY <1>7, <1>8
<1>10. RatePair(a, b).value = pair
  <2> HIDE DEF pair
  <2> QED BY <1>9 DEF Ok
<1> QED BY <1>6, <1>10

LEMMA ResamplerIsGood ==
    ASSUME NEW pair, pair.num \in Nat \ {0}, pair.den \in Nat \ {0},
           NEW taps \in Nat, taps >= 2
    PROVE  GoodPlan(Resampler(pair, taps).value)
<1> DEFINE factor == Max({pair.num, pair.den})
           unrounded == taps * factor
           odd    == unrounded % 2
           length == unrounded + 1 - odd
<1>1. factor \in Nat /\ factor >= 1
  <2> DEFINE x == pair.num
             y == pair.den
  <2>1. x \in Int /\ y \in Int /\ x >= 1 /\ y >= 1
    OBVIOUS
  <2> HIDE DEF x, y
  <2>2. Max({x, y}) \in {x, y}
    BY <2>1, OfTwo, Zenon
  <2>3. factor \in {x, y}
    BY <2>2 DEF x, y
  <2> HIDE DEF factor
  <2> QED BY <2>1, <2>3
<1> HIDE DEF factor
<1>2. unrounded \in Nat /\ unrounded >= 2
  <2>1. 2 * factor <= taps * factor
    BY <1>1, TimesGrows
  <2>2. taps * factor \in Int
    BY <1>1
  <2> QED BY <1>1, <2>1, <2>2
<1> HIDE DEF unrounded
<1>3. odd \in 0..1 /\ unrounded = (unrounded \div 2) * 2 + odd /\ unrounded \div 2 \in Nat
  BY <1>2, Quotient
<1> HIDE DEF odd
<1>4. length \in Nat /\ length >= 3
  <2>1. CASE odd = 0
    BY <1>2, <2>1
  <2>2. CASE odd = 1
    <3>1. unrounded # 2
      BY <1>3, <2>2
    <3> QED BY <1>2, <2>2, <3>1
  <2> QED BY <1>3, <2>1, <2>2
<1>5. Resampler(pair, taps) =
        IF length < 3 THEN Refused
        ELSE Ok([pair |-> pair, length |-> length, center |-> (length - 1) \div 2,
                 perPhase |-> CeilDiv(length, pair.num)])
  BY DEF Resampler, factor, unrounded, odd
<1> HIDE DEF length
<1>6. Resampler(pair, taps).value =
        [pair |-> pair, length |-> length, center |-> (length - 1) \div 2,
         perPhase |-> CeilDiv(length, pair.num)]
  BY <1>4, <1>5 DEF Ok
<1>7. (length - 1) \div 2 \in Nat
  <2>1. length - 1 \in Nat /\ 2 \in Nat \ {0}
    BY <1>4
  <2> QED BY <2>1, Quotient
<1>8. CeilDiv(length, pair.num) \in Nat
  <2>1. 0 \in Nat
    OBVIOUS
  <2> QED BY <1>4, <2>1, CeilAbove
<1> QED BY <1>4, <1>6, <1>7, <1>8 DEF GoodPlan

\* Pieces pushed one after another: what the resampler is after each of them,
\* what has arrived, and what was given.
InPieces(r, n, piece, state, arrived, given) ==
    /\ state[0] = NewStreamResampler(r) /\ arrived[0] = <<>> /\ given[0] = <<>>
    /\ \A i \in 1..n :
          /\ IsSequence(piece[i])
          /\ arrived[i] = arrived[i - 1] \o piece[i]
          /\ state[i] = PushSamples(state[i - 1], piece[i]).state
          /\ given[i] = given[i - 1] \o PushSamples(state[i - 1], piece[i]).output

\* A stream resamples like the whole: for every pair of rates, every filter
\* length and every cutting of any samples, what the pushes gave, with the tail
\* that finish gives, is what process gives for all the samples at once: no
\* output is lost, doubled or computed from a history already dropped
\* (resampling.rs StreamResampler::push, finish).
THEOREM PiecesResampleLikeTheWhole ==
    ASSUME NEW pair, pair.num \in Nat \ {0}, pair.den \in Nat \ {0},
           NEW taps \in Nat, taps >= 2, NEW n \in Nat,
           NEW piece, NEW state, NEW arrived, NEW given,
           InPieces(Resampler(pair, taps).value, n, piece, state, arrived, given)
    PROVE  given[n] \o FinishSamples(state[n])
             = Process(Resampler(pair, taps).value, arrived[n])
<1> DEFINE r == Resampler(pair, taps).value
           Tracks(i) == /\ IsStream(state[i], arrived[i]) /\ state[i].plan = r
                        /\ Gave(state[i], arrived[i]) = given[i]
           strays == {i \in 0..n : ~Tracks(i)}
<1>1. GoodPlan(r)
  BY ResamplerIsGood
<1>2. InPieces(r, n, piece, state, arrived, given)
  OBVIOUS
<1> HIDE DEF r
<1>3. Tracks(0)
  BY <1>1, <1>2, NewStreamGaveNothing DEF InPieces
<1>4. ASSUME NEW i \in 1..n, Tracks(i - 1) PROVE Tracks(i)
  <2> DEFINE pushed == PushSamples(state[i - 1], piece[i])
             whole  == arrived[i - 1] \o piece[i]
  <2>1. IsSequence(piece[i])
    BY <1>2 DEF InPieces
  <2>2. /\ IsStream(pushed.state, whole) /\ pushed.state.plan = state[i - 1].plan
        /\ Gave(pushed.state, whole) = Gave(state[i - 1], arrived[i - 1]) \o pushed.output
    <3> DEFINE s == state[i - 1]
               p == piece[i]
               a == arrived[i - 1]
    <3>1. IsStream(s, a) /\ IsSequence(p)
      BY <1>4, <2>1
    <3> HIDE DEF s, p, a
    <3>2. LET next == PushSamples(s, p)
          IN  /\ IsStream(next.state, a \o p) /\ next.state.plan = s.plan
              /\ Gave(next.state, a \o p) = Gave(s, a) \o next.output
      BY <3>1, ResamplerPush, Zenon
    <3> QED BY <3>2, Zenon DEF s, p, a
  <2>3. state[i] = pushed.state /\ arrived[i] = whole /\ given[i] = given[i - 1] \o pushed.output
    BY <1>2 DEF InPieces
  <2> HIDE DEF pushed, whole
  <2> QED BY <1>4, <2>2, <2>3
<1> HIDE DEF Tracks
<1>5. strays = {}
  <2> SUFFICES ASSUME strays # {} PROVE FALSE
    OBVIOUS
  <2>1. strays \in SUBSET Nat
    OBVIOUS
  <2>2. PICK i \in strays : \A j \in strays : i <= j
    <3> HIDE DEF strays
    <3> QED BY <2>1, LeastExists
  <2>3. i \in 0..n /\ ~Tracks(i) /\ i # 0
    BY <1>3
  <2>4. i - 1 \in 0..n /\ i \in 1..n /\ ~(i <= i - 1)
    BY <2>3
  <2>5. Tracks(i - 1)
    BY <2>2, <2>4
  <2> QED BY <1>4, <2>3, <2>4, <2>5
<1>6. Tracks(n)
  BY <1>5
<1>7. Gave(state[n], arrived[n]) \o FinishSamples(state[n]) = Process(state[n].plan, arrived[n])
  BY <1>6, ResamplerFinish DEF Tracks
<1> QED BY <1>6, <1>7 DEF Tracks, r

----------------------------------------------------------------------------
(* The frame decoder. *)

Width == BytesPerSample(setup.format)

FormatKnown == setup.format \in {"Pcm16", "F32", "Alaw", "Ulaw"}

LEMMA SizesArePositive ==
    ASSUME FormatKnown, Count \in Nat \ {0}
    PROVE  Width \in Nat \ {0} /\ FrameSize \in Nat \ {0} /\ FrameSize = Width * Count
<1>1. Width \in {1, 2, 4}
  BY DEF FormatKnown, Width, BytesPerSample
<1>2. FrameSize = Width * Count
  BY DEF FrameSize, Width
<1> HIDE DEF Width
<1>3. Width * Count \in Nat /\ 1 * Count <= Width * Count
  BY <1>1, TimesGrows
<1> QED BY <1>1, <1>2, <1>3

LEMMA ArrivingShape ==
    ASSUME NEW from, NEW n \in Nat
    PROVE  /\ IsSequence(Arriving(from, n)) /\ Len(Arriving(from, n)) = n
           /\ \A i \in 1..n : Arriving(from, n)[i] = from + i
<1> DEFINE a == [i \in 1..n |-> from + i]
<1>1. DOMAIN a = 1..n /\ a = [i \in DOMAIN a |-> a[i]] /\ \A i \in 1..n : a[i] = from + i
  OBVIOUS
<1> HIDE DEF a
<1>2. IsSequence(a) /\ Len(a) = n
  BY <1>1, FunctionIsSequence
<1> QED BY <1>1, <1>2 DEF a, Arriving

LEMMA ArrivingJoined ==
    ASSUME NEW from \in Nat, NEW m \in Nat, NEW n \in Nat
    PROVE  Arriving(from, m) \o Arriving(from + m, n) = Arriving(from, m + n)
<1> DEFINE a == Arriving(from, m)
           b == Arriving(from + m, n)
           c == Arriving(from, m + n)
<1>1. IsSequence(a) /\ Len(a) = m /\ \A i \in 1..m : a[i] = from + i
  BY ArrivingShape
<1>2. IsSequence(b) /\ Len(b) = n /\ \A i \in 1..n : b[i] = (from + m) + i
  BY ArrivingShape
<1>3. IsSequence(c) /\ Len(c) = m + n /\ \A i \in 1..(m + n) : c[i] = from + i
  <2>1. m + n \in Nat
    OBVIOUS
  <2> QED BY <2>1, ArrivingShape
<1> HIDE DEF a, b, c
<1>4. /\ IsSequence(a \o b) /\ Len(a \o b) = m + n
      /\ \A i \in 1..(m + n) : (a \o b)[i] = IF i <= m THEN a[i] ELSE b[i - m]
  BY <1>1, <1>2, Joined, SMTT(30)
<1>5. ASSUME NEW i \in 1..(m + n) PROVE (a \o b)[i] = c[i]
  <2>1. CASE i <= m
    BY <1>1, <1>3, <1>4, <2>1
  <2>2. CASE ~ (i <= m)
    <3>1. i - m \in 1..n /\ (from + m) + (i - m) = from + i
      BY <2>2
    <3> QED BY <1>2, <1>3, <1>4, <2>2, <3>1
  <2> QED BY <2>1, <2>2
<1>6. a \o b = c
  BY <1>3, <1>4, <1>5, SameSequence
<1> QED BY <1>6 DEF a, b, c

LEMMA ArrivingPart ==
    ASSUME NEW from \in Nat, NEW n \in Nat, NEW to \in 0..n, NEW k \in 0..to
    PROVE  SubSeq(Arriving(from, n), k + 1, to) = Arriving(from + k, to - k)
<1> DEFINE a == Arriving(from, n)
           p == SubSeq(a, k + 1, to)
           c == Arriving(from + k, to - k)
<1>1. IsSequence(a) /\ Len(a) = n /\ \A i \in 1..n : a[i] = from + i
  BY ArrivingShape
<1>2. IsSequence(c) /\ Len(c) = to - k /\ \A i \in 1..(to - k) : c[i] = (from + k) + i
  <2>1. to - k \in Nat
    OBVIOUS
  <2> QED BY <2>1, ArrivingShape
<1> HIDE DEF a, c
<1>3. IsSequence(p) /\ Len(p) = to - k /\ \A i \in 1..(to - k) : p[i] = a[k + i]
  BY <1>1, Part
<1> HIDE DEF p
<1>4. ASSUME NEW i \in 1..(to - k) PROVE p[i] = c[i]
  <2>1. k + i \in 1..n /\ (from + k) + i = from + (k + i)
    OBVIOUS
  <2> QED BY <1>1, <1>2, <1>3, <2>1
<1>5. p = c
  BY <1>2, <1>3, <1>4, SameSequence
<1> QED BY <1>5 DEF a, p, c

\* One of the interleaved samples, counted from 0 among all that arrive.
SampleNo(k) == DecodeSample(setup.format, Arriving(k * Width, Width))

\* A sample's bytes are the same wherever the stream was cut.
LEMMA SampleBytes ==
    ASSUME Width \in Nat \ {0}, NEW from \in Nat, NEW n \in Nat, NEW k \in Nat,
           (k + 1) * Width <= n
    PROVE  SampleAt(Arriving(from * Width, n), Width, k) = Arriving((from + k) * Width, Width)
<1> DEFINE first == k * Width
           last  == (k + 1) * Width
<1>1. first \in Nat /\ from * Width \in Nat
  BY SMT
<1>2. last = first + Width
  BY SMT
<1>3. SampleAt(Arriving(from * Width, n), Width, k)
        = SubSeq(Arriving(from * Width, n), first + 1, last)
  BY DEF SampleAt
<1>4. from * Width + first = (from + k) * Width
  BY SMT
<1>5. last \in 0..n /\ first \in 0..last /\ last - first = Width
  <2> HIDE DEF first
  <2>1. last <= n
    OBVIOUS
  <2> HIDE DEF last
  <2> QED BY <1>1, <1>2, <2>1
<1> HIDE DEF first, last
<1>6. SubSeq(Arriving(from * Width, n), first + 1, last)
        = Arriving(from * Width + first, last - first)
  <2> DEFINE b == from * Width
  <2>1. b \in Nat
    BY <1>1
  <2> HIDE DEF b
  <2>2. SubSeq(Arriving(b, n), first + 1, last) = Arriving(b + first, last - first)
    BY <1>5, <2>1, ArrivingPart
  <2> QED BY <2>2 DEF b
<1> QED BY <1>3, <1>4, <1>5, <1>6

\* The first n frames hold no sample that is refused.
FramesOk(n) ==
    \A f \in 1..n, d \in Channels : SampleNo((f - 1) * Count + d).ok

\* The samples of channel c in the frames behind the first "from".
ChannelPart(c, from, to) == Slice([f \in Nat |-> SampleNo(f * Count + c).value], from, to)

\* The frames before the first that is refused.
LEMMA GoodFrames ==
    ASSUME NEW n \in Nat
    PROVE  \E h \in 0..n : /\ {f \in 1..n : FramesOk(f)} = 1..h
                           /\ \A f \in 0..n : FramesOk(f) => f <= h
<1> DEFINE T == {f \in 1..(n + 1) : f = n + 1 \/ ~FramesOk(f)}
<1>1. n + 1 \in T /\ T \in SUBSET Nat
  OBVIOUS
<1>2. PICK m \in T : \A y \in T : m <= y
  <2> HIDE DEF T
  <2> QED BY <1>1, LeastExists
<1>3. m \in 1..(n + 1) /\ (m = n + 1 \/ ~FramesOk(m))
  BY <1>2
<1>4. ASSUME NEW f \in 1..n, f < m PROVE FramesOk(f)
  BY <1>2, <1>3, <1>4
<1>5. ASSUME NEW f \in 1..n, m <= f PROVE ~FramesOk(f)
  <2>1. ~FramesOk(m)
    BY <1>3, <1>5
  <2>2. ASSUME FramesOk(f) PROVE FramesOk(m)
    <3>1. \A g \in 1..m : g \in 1..f
      BY <1>3, <1>5
    <3> QED BY <2>2, <3>1 DEF FramesOk
  <2> QED BY <2>1, <2>2
<1> HIDE DEF T
<1> DEFINE h == m - 1
<1>6. h \in 0..n /\ \A f \in 1..n : f \in 1..h <=> f < m
  BY <1>3
<1>7. {f \in 1..n : FramesOk(f)} = 1..h
  <2>1. ASSUME NEW f \in 1..n PROVE FramesOk(f) <=> f \in 1..h
    BY <1>3, <1>4, <1>5, <1>6
  <2>2. \A f \in 1..h : f \in 1..n
    BY <1>6
  <2> HIDE DEF h
  <2> QED BY <2>1, <2>2
<1>8. ASSUME NEW f \in 0..n, FramesOk(f) PROVE f <= h
  <2>1. CASE f = 0
    BY <1>6, <2>1
  <2>2. CASE f # 0
    <3>1. f \in 1..n
      BY <2>2
    <3>2. f < m
      BY <1>3, <1>5, <1>8, <3>1
    <3> QED BY <1>3, <3>1, <3>2
  <2> QED BY <2>1, <2>2
<1> QED BY <1>6, <1>7, <1>8

\* A sample of a frame that has arrived, among all the bytes.
LEMMA SampleArrived ==
    ASSUME Width \in Nat \ {0}, Count \in Nat \ {0}, NEW total \in Nat,
           NEW f \in 1..(total \div (Width * Count)), NEW d \in Channels
    PROVE  SampleAt(Arriving(0, total), Width, (f - 1) * Count + d)
             = Arriving(((f - 1) * Count + d) * Width, Width)
<1> DEFINE k == (f - 1) * Count + d
           size == Width * Count
           n == total \div size
<1>1. size \in Nat \ {0}
  <2>1. 1 * Count <= Width * Count /\ size \in Nat
    BY TimesGrows
  <2> QED BY <2>1
<1>2. n \in Nat /\ n * size <= total
  <2> HIDE DEF size
  <2>1. n \in Nat /\ (total % size) \in 0..(size - 1) /\ total = n * size + (total % size)
    BY <1>1, Quotient
  <2>2. n * size \in Nat
    BY <1>1, <2>1
  <2> HIDE DEF n
  <2> QED BY <1>1, <2>1, <2>2
<1>3. d \in 0..(Count - 1) /\ (f - 1) * Count \in Nat
  BY SMT DEF Channels, AllChannels
<1>4. k \in Nat /\ k + 1 <= f * Count
  <2>1. f * Count = (f - 1) * Count + Count
    BY SMT
  <2>2. f * Count \in Int
    OBVIOUS
  <2> QED BY <1>3, <2>1, <2>2
<1> HIDE DEF k
<1>5. (k + 1) * Width <= total
  <2>1. (k + 1) * Width <= (f * Count) * Width
    BY <1>4, TimesGrows
  <2>2. (f * Count) * Width = f * size
    BY SMT
  <2>3. f * size <= n * size
    BY <1>1, <1>2, TimesGrows
  <2>4. (k + 1) * Width \in Int /\ f * size \in Int /\ n * size \in Int
    BY <1>1, <1>2, <1>4
  <2> HIDE DEF size, n
  <2> QED BY <1>2, <2>1, <2>2, <2>3, <2>4
<1>6. 0 * Width = 0 /\ 0 + k = k /\ 0 \in Nat
  BY <1>4
<1>7. SampleAt(Arriving(0 * Width, total), Width, k) = Arriving((0 + k) * Width, Width)
  BY <1>4, <1>5, <1>6, SampleBytes
<1> QED BY <1>6, <1>7 DEF k

\* Source, of the first bytes.
SourceAt(c, total) ==
    LET Sample(f, d) == DecodeSample(setup.format,
            SampleAt(Arriving(0, total), BytesPerSample(setup.format), (f - 1) * Count + d))
        good == {f \in 1..(total \div FrameSize) :
                   \A g \in 1..f, d \in Channels : Sample(g, d).ok}
    IN  [f \in good |-> Sample(f, c).value]

\* What has arrived of a channel depends on the number of good frames alone.
LEMMA SourceIs ==
    ASSUME FormatKnown, Count \in Nat \ {0}, NEW total \in Nat
    PROVE  \E h \in 0..(total \div FrameSize) :
              /\ \A f \in 0..(total \div FrameSize) : FramesOk(f) => f <= h
              /\ \A c \in Channels : SourceAt(c, total) = ChannelPart(c, 0, h)
<1> DEFINE n == total \div FrameSize
           Sample(f, d) == DecodeSample(setup.format,
               SampleAt(Arriving(0, total), BytesPerSample(setup.format), (f - 1) * Count + d))
           good == {f \in 1..n : \A g \in 1..f, d \in Channels : Sample(g, d).ok}
<1>1. /\ Width \in Nat \ {0} /\ FrameSize \in Nat \ {0} /\ FrameSize = Width * Count
      /\ n \in Nat
  BY SizesArePositive, Quotient
<1>2. ASSUME NEW f \in 1..n, NEW d \in Channels
      PROVE  Sample(f, d) = SampleNo((f - 1) * Count + d)
  <2>1. SampleAt(Arriving(0, total), Width, (f - 1) * Count + d)
          = Arriving(((f - 1) * Count + d) * Width, Width)
    BY <1>1, SampleArrived
  <2> QED BY <2>1 DEF SampleNo, Width
<1>3. PICK h \in 0..n : /\ {f \in 1..n : FramesOk(f)} = 1..h
                        /\ \A f \in 0..n : FramesOk(f) => f <= h
  BY <1>1, GoodFrames
<1>4. good = 1..h
  <2>1. ASSUME NEW f \in 1..n
        PROVE  (\A g \in 1..f, d \in Channels : Sample(g, d).ok) <=> FramesOk(f)
    <3>1. \A g \in 1..f : g \in 1..n
      BY <1>1
    <3> HIDE DEF Sample
    <3> QED BY <1>2, <3>1 DEF FramesOk
  <2> HIDE DEF Sample, n
  <2> QED BY <1>3, <2>1
<1>5. ASSUME NEW c \in Channels PROVE SourceAt(c, total) = ChannelPart(c, 0, h)
  <2>1. SourceAt(c, total) = [f \in good |-> Sample(f, c).value]
    BY DEF SourceAt
  <2>2. ASSUME NEW f \in 1..h
        PROVE  /\ Sample(f, c).value = SampleNo((0 + f - 1) * Count + c).value
               /\ 0 + f - 1 \in Nat
    <3>1. f \in 1..n /\ 0 + f - 1 = f - 1
      BY <1>1, <1>3
    <3> HIDE DEF Sample
    <3> QED BY <1>2, <3>1
  <2>3. ChannelPart(c, 0, h) = [f \in 1..(h - 0) |-> SampleNo((0 + f - 1) * Count + c).value]
    <3>1. \A f \in 1..(h - 0) : 0 + f - 1 \in Nat
      OBVIOUS
    <3> QED BY <3>1 DEF ChannelPart, Slice
  <2>4. h - 0 = h
    BY <1>1, <1>3
  <2> HIDE DEF Sample, good
  <2> QED BY <1>4, <2>1, <2>2, <2>3, <2>4
<1> QED BY <1>3, <1>5

\* An iterator of results gives its values when all are there, and else an error.
LEMMA CollectedShape ==
    ASSUME NEW results, DOMAIN results \subseteq Nat
    PROVE  \/ /\ \A i \in DOMAIN results : results[i].ok
              /\ Collected(results) = Ok([i \in DOMAIN results |-> results[i].value])
           \/ ~Collected(results).ok
<1> DEFINE failing == {i \in DOMAIN results : ~results[i].ok}
<1>1. CASE failing = {}
  <2>1. \A i \in DOMAIN results : results[i].ok
    BY <1>1
  <2>2. Collected(results) = Ok([i \in DOMAIN results |-> results[i].value])
    BY <1>1 DEF Collected
  <2> QED BY <2>1, <2>2
<1>2. CASE failing # {}
  <2> DEFINE first == CHOOSE i \in failing : \A j \in failing : i <= j
  <2>1. \E i \in failing : \A j \in failing : i <= j
    <3>1. failing \in SUBSET Nat
      OBVIOUS
    <3> HIDE DEF failing
    <3> QED BY <1>2, <3>1, LeastExists
  <2>2. first \in failing
    <3> HIDE DEF failing
    <3> QED BY <2>1
  <2>3. Collected(results) = results[first]
    BY <1>2 DEF Collected
  <2> HIDE DEF first
  <2> QED BY <2>2, <2>3
<1> QED BY <1>1, <1>2

\* A decoder that was given the first "total" bytes.
HasArrived(dec, total) ==
    /\ DOMAIN dec = {"format", "channels", "remainder"}
    /\ dec.format = setup.format /\ dec.channels = Count
    /\ dec.remainder = Arriving((total \div FrameSize) * FrameSize,
                                total - (total \div FrameSize) * FrameSize)

LEMMA NewHasArrived ==
    ASSUME FormatKnown, Count \in Nat \ {0}
    PROVE  HasArrived(NewFrameDecoder(setup.format, Count), 0)
<1>1. FrameSize \in Nat \ {0}
  BY SizesArePositive
<1>2. 0 \div FrameSize = 0 /\ 0 * FrameSize = 0
  <2>1. 0 * FrameSize + 0 = 0 /\ 0 \in Nat /\ 0 \in 0..(FrameSize - 1) /\ 0 * FrameSize = 0
    BY <1>1
  <2> QED BY <1>1, <2>1, QuotientIs
<1>3. Arriving(0, 0) = <<>>
  <2>1. IsSequence(Arriving(0, 0)) /\ Len(Arriving(0, 0)) = 0
    BY ArrivingShape
  <2>2. IsSequence(<<>>) /\ Len(<<>>) = 0
    BY JoinedEmpty
  <2> HIDE DEF Arriving
  <2> QED BY <2>1, <2>2, SameSequence
<1>4. 0 - 0 = 0
  OBVIOUS
<1> QED BY <1>2, <1>3, <1>4 DEF HasArrived, NewFrameDecoder

\* How many frames there are, and what is left, when n more bytes arrive.
LEMMA FramesArrive ==
    ASSUME NEW size \in Nat \ {0}, NEW total \in Nat, NEW n \in Nat
    PROVE  LET old   == total \div size
               left  == total - old * size
               new   == (left + n) \div size
               rest  == (left + n) - new * size
           IN  /\ old \in Nat /\ left \in Nat /\ new \in Nat /\ rest \in Nat
               /\ (total + n) \div size = old + new
               /\ (total + n) - (old + new) * size = rest
               /\ (old + new) * size = old * size + new * size
               /\ old * size \in Nat /\ new * size \in Nat
<1> DEFINE old   == total \div size
           left  == total - old * size
           new   == (left + n) \div size
           rest  == (left + n) - new * size
<1>1. old \in Nat /\ left \in Nat /\ old * size \in Nat
  <2>1. old \in Nat /\ (total % size) \in 0..(size - 1) /\ total = old * size + (total % size)
    BY Quotient
  <2>2. old * size \in Nat
    BY <2>1, SMT
  <2> HIDE DEF old
  <2> QED BY <2>1, <2>2
<1>2. new \in Nat /\ rest \in 0..(size - 1) /\ new * size \in Nat
  <2> DEFINE a == left + n
  <2>1. a \in Nat
    BY <1>1
  <2> HIDE DEF a
  <2>2. a \div size \in Nat /\ (a % size) \in 0..(size - 1) /\ a = (a \div size) * size + (a % size)
    BY <2>1, Quotient
  <2>3. (a \div size) * size \in Nat
    BY <2>2, SMT
  <2>4. a - (a \div size) * size \in 0..(size - 1)
    BY <2>1, <2>2, <2>3
  <2> QED BY <2>2, <2>3, <2>4 DEF a
<1>3. (old + new) * size = old * size + new * size
  <2> HIDE DEF old, new
  <2> QED BY <1>1, <1>2, SMT
<1>4. total + n = (old + new) * size + rest
  <2> DEFINE p == old * size
             q == new * size
  <2>1. p \in Nat /\ q \in Nat /\ left = total - p /\ rest = (left + n) - q
    BY <1>1, <1>2
  <2>2. total + n = (p + q) + rest
    <3> HIDE DEF p, q, left, rest
    <3> QED BY <2>1
  <2> QED BY <1>3, <2>2
<1> HIDE DEF old, left, new, rest
<1>5. (total + n) \div size = old + new
  <2>1. old + new \in Nat
    BY <1>1, <1>2
  <2>2. ((old + new) * size + rest) \div size = old + new
    BY <1>2, <2>1, QuotientIs
  <2> QED BY <1>4, <2>2
<1>6. (total + n) - (old + new) * size = rest
  BY <1>1, <1>2, <1>3, <1>4
<1>7. rest \in Nat
  BY <1>2
<1> QED BY <1>1, <1>2, <1>3, <1>5, <1>6, <1>7 DEF old, left, new, rest

\* Bytes arrive: the frames that are complete now, by channel, or a refusal; and
\* the bytes behind them are kept.
Arrives(pushed, total, n) ==
    LET old == total \div FrameSize
        all == (total + n) \div FrameSize
    IN  /\ HasArrived(pushed.decoder, total + n)
        /\ old \in Nat /\ all \in Nat /\ old <= all
        /\ \/ ~pushed.result.ok
           \/ pushed.result.ok /\ pushed.result.value = <<>> /\ old = all
           \/ /\ pushed.result.ok /\ pushed.result.value # <<>>
              /\ FramesOk(old) => FramesOk(all)
              /\ \A c \in Channels : pushed.result.value[c + 1] = ChannelPart(c, old, all)

LEMMA PushArrives ==
    ASSUME NEW dec, NEW total \in Nat, NEW n \in Nat, FormatKnown, Count \in Nat \ {0},
           HasArrived(dec, total)
    PROVE  Arrives(PushBytes(dec, Arriving(total, n)), total, n)
<1> DEFINE pushed == PushBytes(dec, Arriving(total, n))
           old    == total \div FrameSize
           left   == total - old * FrameSize
           new    == (left + n) \div FrameSize
           rest   == (left + n) - new * FrameSize
           all    == (total + n) \div FrameSize
           combined == Arriving(old * FrameSize, left + n)
           results == [i \in 1..(new * Count) |->
                         DecodeSample(dec.format,
                            SampleAt(combined, BytesPerSample(dec.format), i - 1))]
           samples == Collected(results)
           Split(s) == [c \in 1..Count |-> [f \in 1..new |-> s[(f - 1) * Count + c]]]
<1>1. Width \in Nat \ {0} /\ FrameSize \in Nat \ {0} /\ FrameSize = Width * Count
  BY SizesArePositive
<1>2. /\ old \in Nat /\ left \in Nat /\ new \in Nat /\ rest \in Nat
      /\ all = old + new
      /\ (total + n) - all * FrameSize = rest
      /\ all * FrameSize = old * FrameSize + new * FrameSize
      /\ old * FrameSize \in Nat /\ new * FrameSize \in Nat
  <2>1. FrameSize \in Nat \ {0}
    BY <1>1
  <2>2. /\ all = old + new
        /\ (total + n) - (old + new) * FrameSize = rest
        /\ (old + new) * FrameSize = old * FrameSize + new * FrameSize
    BY <2>1, FramesArrive, ZenonT(60)
  <2>3. /\ old \in Nat /\ left \in Nat /\ new \in Nat /\ rest \in Nat
        /\ old * FrameSize \in Nat /\ new * FrameSize \in Nat
    BY <2>1, FramesArrive, Zenon
  <2> HIDE DEF old, left, new, rest, all
  <2> QED BY <2>2, <2>3
<1>3. dec.remainder \o Arriving(total, n) = combined
  <2> DEFINE a == old * FrameSize
  <2>1. a \in Nat /\ total = a + left
    BY <1>2
  <2>2. dec.remainder = Arriving(a, left)
    BY DEF HasArrived
  <2> HIDE DEF a, left
  <2>3. Arriving(a, left) \o Arriving(a + left, n) = Arriving(a, left + n)
    BY <1>2, <2>1, ArrivingJoined, ZenonT(60)
  <2>4. Arriving(a, left) \o Arriving(total, n) = Arriving(a, left + n)
    BY <2>1, <2>3, Zenon
  <2>5. dec.remainder \o Arriving(total, n) = Arriving(a, left + n)
    BY <2>2, <2>4, Zenon
  <2> QED BY <2>5 DEF a
<1>4. Len(combined) = left + n
  <2>1. left + n \in Nat
    BY <1>2
  <2> HIDE DEF left
  <2> QED BY <2>1, ArrivingShape
<1>5. FrameBytes(dec) = FrameSize /\ dec.format = setup.format /\ dec.channels = Count
  BY DEF FrameBytes, HasArrived, FrameSize
<1>6. /\ pushed.decoder = [dec EXCEPT !.remainder =
                             SubSeq(combined, new * FrameSize + 1, left + n)]
      /\ pushed.result = IF new = 0 THEN Ok(<<>>)
                         ELSE IF samples.ok THEN Ok(Split(samples.value)) ELSE samples
  <2> DEFINE joined == dec.remainder \o Arriving(total, n)
             frames == Len(joined) \div FrameBytes(dec)
             found  == Collected([i \in 1..(frames * dec.channels) |->
                         DecodeSample(dec.format,
                            SampleAt(joined, BytesPerSample(dec.format), i - 1))])
  <2>1. /\ pushed.decoder = [dec EXCEPT !.remainder =
                               SubSeq(joined, frames * FrameBytes(dec) + 1, Len(joined))]
        /\ pushed.result = IF frames = 0 THEN Ok(<<>>)
                           ELSE IF found.ok
                             THEN Ok([c \in 1..dec.channels |->
                                    [f \in 1..frames |-> found.value[(f - 1) * dec.channels + c]]])
                             ELSE found
    <3> HIDE DEF FrameBytes
    <3> QED BY DEF PushBytes, Then
  <2>2. joined = combined
    BY <1>3
  <2> HIDE DEF joined, combined
  <2>3. frames = new
    BY <1>4, <1>5, <2>2
  <2> HIDE DEF frames, new, left, pushed
  <2>4. found = samples
    BY <1>5, <2>2, <2>3
  <2> HIDE DEF found, samples
  <2>5. pushed.decoder = [dec EXCEPT !.remainder =
                            SubSeq(combined, new * FrameSize + 1, left + n)]
    BY <1>4, <1>5, <2>1, <2>2, <2>3
  <2>6. dec.channels = Count
    BY <1>5
  <2>7. pushed.result = IF new = 0 THEN Ok(<<>>)
                        ELSE IF samples.ok THEN Ok(Split(samples.value)) ELSE samples
    BY <2>1, <2>3, <2>4, <2>6
  <2> QED BY <2>5, <2>7
<1> HIDE DEF old, left, new, rest, all, pushed
<1>7. HasArrived(pushed.decoder, total + n)
  <2> DEFINE p == new * FrameSize
  <2>1. p \in 0..(left + n) /\ left + n \in Nat /\ (left + n) - p = rest
    <3>1. rest = (left + n) - p
      BY DEF rest
    <3> HIDE DEF p
    <3> QED BY <1>2, <3>1 DEF p
  <2>2. old * FrameSize + p = all * FrameSize
    BY <1>2
  <2> HIDE DEF p
  <2>3. SubSeq(combined, p + 1, left + n) = Arriving(old * FrameSize + p, (left + n) - p)
    <3> DEFINE a == old * FrameSize
               m == left + n
    <3>1. a \in Nat /\ m \in Nat /\ m \in 0..m /\ p \in 0..m
      BY <1>2, <2>1
    <3> HIDE DEF a, m
    <3>2. SubSeq(Arriving(a, m), p + 1, m) = Arriving(a + p, m - p)
      BY <3>1, ArrivingPart
    <3> QED BY <3>2 DEF a, m
  <2>4. pushed.decoder = [dec EXCEPT !.remainder = Arriving(all * FrameSize, rest)]
    BY <1>6, <2>1, <2>2, <2>3 DEF p
  <2>5. pushed.decoder.remainder =
          Arriving(((total + n) \div FrameSize) * FrameSize,
                   (total + n) - ((total + n) \div FrameSize) * FrameSize)
    BY <1>2, <2>4 DEF HasArrived, all
  <2> QED BY <2>4, <2>5 DEF HasArrived
<1>8. CASE new = 0
  <2>1. pushed.result = Ok(<<>>) /\ old = all /\ old <= all
    BY <1>2, <1>6, <1>8, SMTT(30)
  <2>2. pushed.result.ok /\ pushed.result.value = <<>>
    BY <2>1 DEF Ok
  <2> QED BY <1>2, <1>7, <2>1, <2>2 DEF pushed, old, all, Arrives
<1>9. CASE new # 0
  <2>1. ASSUME NEW i \in 1..(new * Count)
        PROVE  results[i] = SampleNo(old * Count + (i - 1))
    <3> DEFINE k == i - 1
               from == old * Count
    <3>1. k \in Nat /\ from \in Nat
      BY <1>2
    <3>2. (k + 1) * Width <= left + n
      <4>1. k + 1 <= new * Count /\ k + 1 \in Int /\ new * Count \in Int
        BY <1>2
      <4> HIDE DEF k
      <4>2. (k + 1) * Width <= (new * Count) * Width
        BY <1>1, <4>1, TimesGrows
      <4>3. (new * Count) * Width = new * FrameSize
        BY <1>1, <1>2, SMT
      <4>4. rest = (left + n) - new * FrameSize
        BY DEF rest
      <4>5. (k + 1) * Width \in Int
        BY <1>1, <3>1
      <4> QED BY <1>2, <4>2, <4>3, <4>4, <4>5
    <3>3. from * Width = old * FrameSize
      BY <1>1, <1>2, SMT
    <3>4. left + n \in Nat
      BY <1>2
    <3>5. results[i] = DecodeSample(setup.format, SampleAt(combined, Width, k))
      BY <1>5 DEF Width
    <3> HIDE DEF k, from
    <3>6. SampleAt(Arriving(from * Width, left + n), Width, k) = Arriving((from + k) * Width, Width)
      BY <1>1, <3>1, <3>2, <3>4, SampleBytes
    <3>7. results[i] = DecodeSample(setup.format, Arriving((from + k) * Width, Width))
      <4> HIDE DEF results
      <4> QED BY <3>3, <3>5, <3>6
    <3> QED BY <3>7 DEF SampleNo, k, from
  <2>2. DOMAIN results = 1..(new * Count) /\ DOMAIN results \subseteq Nat
    OBVIOUS
  <2> HIDE DEF results, combined
  <2>3. \/ /\ \A i \in DOMAIN results : results[i].ok
           /\ samples = Ok([i \in DOMAIN results |-> results[i].value])
        \/ ~samples.ok
    BY <2>2, CollectedShape
  <2>4. CASE ~samples.ok
    <3>1. pushed.result = samples
      BY <1>6, <1>9, <2>4
    <3> QED BY <1>2, <1>7, <2>4, <3>1 DEF pushed, old, all, Arrives
  <2>5. ASSUME \A i \in DOMAIN results : results[i].ok,
               samples = Ok([i \in DOMAIN results |-> results[i].value])
        PROVE  /\ pushed.result.ok /\ pushed.result.value # <<>>
               /\ FramesOk(old) => FramesOk(all)
               /\ \A c \in Channels : pushed.result.value[c + 1] = ChannelPart(c, old, all)
    <3> DEFINE s == [i \in DOMAIN results |-> results[i].value]
    <3>1. pushed.result = Ok(Split(s))
      <4> HIDE DEF s, Split
      <4>1. samples.ok /\ samples.value = s
        BY <2>5 DEF Ok, s
      <4> HIDE DEF samples
      <4> QED BY <1>6, <1>9, <4>1
    <3>2. pushed.result.ok /\ pushed.result.value = Split(s)
      BY <3>1 DEF Ok
    <3>3. Split(s) # <<>>
      <4>1. 1 \in DOMAIN Split(s)
        OBVIOUS
      <4>2. DOMAIN <<>> = {}
        OBVIOUS
      <4> HIDE DEF Split
      <4> QED BY <4>1, <4>2
    <3>4. ASSUME NEW f \in 1..new, NEW d \in Channels
          PROVE  /\ (f - 1) * Count + (d + 1) \in DOMAIN results
                 /\ results[(f - 1) * Count + (d + 1)] = SampleNo((old + f - 1) * Count + d)
      <4> PICK i : i = (f - 1) * Count + (d + 1)
        OBVIOUS
      <4>1. i \in 1..(new * Count) /\ old * Count + (i - 1) = (old + f - 1) * Count + d
        <5>1. d \in Nat /\ d + 1 <= Count /\ old \in Nat /\ new \in Nat
          BY <1>2 DEF Channels, AllChannels
        <5>2. f * Count <= new * Count /\ 0 * Count <= (f - 1) * Count
          BY <1>2, TimesGrows
        <5>3. f * Count = (f - 1) * Count + Count /\ 0 * Count = 0
          BY SMT
        <5>4. /\ f * Count \in Int /\ new * Count \in Int
              /\ (f - 1) * Count \in Int /\ old * Count \in Int
          BY <5>1
        <5>5. (old + f - 1) * Count = old * Count + (f - 1) * Count
          BY <5>1, SMT
        <5>6. i \in 1..(new * Count)
          BY <5>1, <5>2, <5>3, <5>4
        <5> QED BY <5>1, <5>4, <5>5, <5>6
      <4>2. results[i] = SampleNo(old * Count + (i - 1))
        BY <2>1, <4>1
      <4>3. results[i] = SampleNo((old + f - 1) * Count + d)
        BY <4>1, <4>2
      <4> QED BY <2>2, <4>1, <4>3
    <3>5. ASSUME FramesOk(old) PROVE FramesOk(all)
      <4> SUFFICES ASSUME NEW f \in 1..all, NEW d \in Channels
                   PROVE  SampleNo((f - 1) * Count + d).ok
        BY DEF FramesOk
      <4>1. CASE f <= old
        <5>1. f \in 1..old
          BY <1>2, <4>1
        <5> QED BY <3>5, <5>1 DEF FramesOk
      <4>2. CASE ~ (f <= old)
        <5> DEFINE g == f - old
        <5>1. g \in 1..new /\ old + g - 1 = f - 1
          BY <1>2, <4>2
        <5> HIDE DEF g
        <5>2. SampleNo((old + g - 1) * Count + d).ok
          BY <2>5, <3>4, <5>1
        <5> QED BY <5>1, <5>2
      <4> QED BY <4>1, <4>2
    <3>6. ASSUME NEW c \in Channels
          PROVE  pushed.result.value[c + 1] = ChannelPart(c, old, all)
      <4>1. c + 1 \in 1..Count
        BY DEF Channels, AllChannels
      <4>2. Split(s)[c + 1] = [f \in 1..new |-> s[(f - 1) * Count + (c + 1)]]
        BY <4>1
      <4>3. ASSUME NEW f \in 1..new
            PROVE  /\ s[(f - 1) * Count + (c + 1)] = SampleNo((old + f - 1) * Count + c).value
                   /\ old + f - 1 \in Nat
        BY <1>2, <3>4
      <4>4. all - old = new
        BY <1>2
      <4>5. ChannelPart(c, old, all) =
              [f \in 1..new |-> SampleNo((old + f - 1) * Count + c).value]
        <5>1. ChannelPart(c, old, all) =
                [f \in 1..(all - old) |-> [g \in Nat |-> SampleNo(g * Count + c).value][old + f - 1]]
          BY DEF ChannelPart, Slice
        <5> QED BY <4>3, <4>4, <5>1
      <4> HIDE DEF s, Split
      <4> QED BY <3>2, <4>2, <4>3, <4>5
    <3> QED BY <3>2, <3>3, <3>5, <3>6
  <2> QED BY <1>2, <1>7, <2>3, <2>4, <2>5 DEF pushed, old, all, Arrives
<1> QED BY <1>8, <1>9

----------------------------------------------------------------------------
(* What a channel's session was fed. *)

LEMMA SourceNow == \A c : Source(c) = SourceAt(c, sent)
BY DEF Source, SourceAt

LEMMA SourceOfGood ==
    ASSUME FormatKnown, Count \in Nat \ {0}, NEW total \in Nat, FramesOk(total \div FrameSize)
    PROVE  \A c \in Channels : SourceAt(c, total) = ChannelPart(c, 0, total \div FrameSize)
<1>1. PICK h \in 0..(total \div FrameSize) :
        /\ \A f \in 0..(total \div FrameSize) : FramesOk(f) => f <= h
        /\ \A c \in Channels : SourceAt(c, total) = ChannelPart(c, 0, h)
  BY SourceIs
<1>2. total \div FrameSize \in Nat
  BY SizesArePositive, Quotient
<1>3. h = total \div FrameSize
  BY <1>1, <1>2
<1> QED BY <1>1, <1>3

\* Later bytes add to what had arrived, as far as they are good.
LEMMA SourceGrows ==
    ASSUME NEW total \in Nat, NEW n \in Nat, NEW c \in Channels,
           FormatKnown, Count \in Nat \ {0}, FramesOk(total \div FrameSize)
    PROVE  \E v : /\ IsSequence(v) /\ IsSequence(SourceAt(c, total))
                  /\ SourceAt(c, total + n) = SourceAt(c, total) \o v
<1> DEFINE old == total \div FrameSize
           all == (total + n) \div FrameSize
<1>1. old \in Nat /\ all \in Nat /\ old <= all
  <2>1. FrameSize \in Nat \ {0}
    BY SizesArePositive
  <2>2. old \in Nat /\ (total - old * FrameSize + n) \div FrameSize \in Nat
        /\ all = old + ((total - old * FrameSize + n) \div FrameSize)
    BY <2>1, FramesArrive, ZenonT(60)
  <2> HIDE DEF old, all
  <2> QED BY <2>2
<1>2. total + n \in Nat
  OBVIOUS
<1>3. PICK h \in 0..all : /\ \A f \in 0..all : FramesOk(f) => f <= h
                          /\ SourceAt(c, total + n) = ChannelPart(c, 0, h)
  BY <1>2, SourceIs
<1>4. SourceAt(c, total) = ChannelPart(c, 0, old)
  BY SourceOfGood
<1> HIDE DEF old, all
<1>5. old <= h /\ h \in Nat
  BY <1>1, <1>3 DEF old
<1>6. /\ IsSequence(ChannelPart(c, 0, old)) /\ IsSequence(ChannelPart(c, old, h))
      /\ ChannelPart(c, 0, old) \o ChannelPart(c, old, h) = ChannelPart(c, 0, h)
  BY <1>1, <1>5, SlicesJoin DEF ChannelPart
<1> QED BY <1>3, <1>4, <1>6

\* A candidate that still awaits the choice, that is being fed, and that was fed
\* all there is, when the samples w have arrived for it.
Shaped(cand) == {"adapter", "fed", "pending"} \subseteq DOMAIN cand

Adapts(cand, r, w) == /\ Shaped(cand) /\ IsStream(cand.adapter, w) /\ cand.adapter.plan = r

Waiting(cand, r, w) ==
    Adapts(cand, r, w) /\ cand.fed = <<>> /\ cand.pending = Gave(cand.adapter, w)

Feeding(cand, r, w) ==
    Adapts(cand, r, w) /\ cand.fed = Gave(cand.adapter, w) /\ cand.pending = <<>>

\* Held back, or fed, to the end.
HeldWhole(cand, r, w) == Shaped(cand) /\ cand.fed = <<>> /\ cand.pending = Process(r, w)

FedWhole(cand, r, w) == Shaped(cand) /\ cand.fed = Process(r, w) /\ cand.pending = <<>>

\* What was fed is a beginning of what the whole gives.
Begins(cand, r, w) ==
    /\ Shaped(cand) /\ IsSequence(cand.fed)
    /\ \E rest : IsSequence(rest) /\ Process(r, w) = cand.fed \o rest

LEMMA ProcessShape ==
    ASSUME NEW r, NEW w, GoodPlan(r), IsSequence(w)
    PROVE  IsSequence(Process(r, w))
<1> DEFINE s == NewStreamResampler(r)
           none == Gave(s, <<>>)
           p == PushSamples(s, w)
<1>1. IsStream(s, <<>>) /\ s.plan = r /\ IsSequence(<<>>)
  BY NewStreamGaveNothing, JoinedEmpty
<1> HIDE DEF s
<1>2. IsStream(p.state, <<>> \o w) /\ p.state.plan = r
  BY <1>1, ResamplerPush
<1> HIDE DEF p
<1>3. <<>> \o w = w
  BY JoinedEmpty
<1>4. IsStream(p.state, w)
  BY <1>2, <1>3
<1>5. /\ IsSequence(Gave(p.state, w)) /\ IsSequence(FinishSamples(p.state))
      /\ Gave(p.state, w) \o FinishSamples(p.state) = Process(r, w)
  BY <1>2, <1>4, ResamplerFinish
<1> DEFINE a == Gave(p.state, w)
           b == FinishSamples(p.state)
<1>6. IsSequence(a) /\ IsSequence(b) /\ a \o b = Process(r, w)
  BY <1>5
<1> HIDE DEF a, b
<1>7. IsSequence(a \o b)
  BY <1>6, Joined
<1> QED BY <1>6, <1>7

\* Nothing is a beginning of everything.
LEMMA NothingBegins ==
    ASSUME NEW cand, NEW r, NEW w, Shaped(cand), cand.fed = <<>>, GoodPlan(r), IsSequence(w)
    PROVE  Begins(cand, r, w)
<1>1. IsSequence(Process(r, w))
  BY ProcessShape
<1>2. IsSequence(<<>>) /\ <<>> \o Process(r, w) = Process(r, w)
  BY <1>1, JoinedEmpty
<1> QED BY <1>1, <1>2 DEF Begins

LEMMA WholeBegins ==
    ASSUME NEW cand, NEW r, NEW w, GoodPlan(r), IsSequence(w), FedWhole(cand, r, w)
    PROVE  Begins(cand, r, w)
<1>1. IsSequence(Process(r, w)) /\ IsSequence(<<>>)
  BY ProcessShape, JoinedEmpty
<1>2. Process(r, w) \o <<>> = Process(r, w)
  BY <1>1, JoinedEmpty
<1> QED BY <1>1, <1>2 DEF Begins, FedWhole

\* Whatever arrives later, what is fed is a beginning.
LEMMA FeedingBegins ==
    ASSUME NEW cand, NEW r, NEW w, NEW v, Feeding(cand, r, w), IsSequence(v)
    PROVE  Begins(cand, r, w \o v) /\ Begins(cand, r, w)
<1>1. IsStream(cand.adapter, w) /\ cand.adapter.plan = r /\ cand.fed = Gave(cand.adapter, w)
  BY DEF Feeding, Adapts
<1>2. IsSequence(cand.fed)
  BY <1>1, ResamplerFinish
<1>3. \E rest : IsSequence(rest) /\ Process(r, w \o v) = cand.fed \o rest
  <2> DEFINE s == cand.adapter
  <2>1. IsStream(s, w) /\ s.plan = r /\ cand.fed = Gave(s, w)
    BY <1>1
  <2> HIDE DEF s
  <2>2. \E rest : IsSequence(rest) /\ Process(s.plan, w \o v) = Gave(s, w) \o rest
    BY <2>1, GaveBegins, SMTT(30)
  <2> QED BY <2>1, <2>2, Zenon
<1>4. IsSequence(FinishSamples(cand.adapter))
      /\ cand.fed \o FinishSamples(cand.adapter) = Process(r, w)
  BY <1>1, ResamplerFinish
<1> QED BY <1>2, <1>3, <1>4 DEF Begins, Feeding, Adapts

\* StreamSession::push and flush: a session gets the audio behind what it has.
LEMMA PushesFeed ==
    ASSUME NEW c, NEW cand, NEW audio, NEW x, Shaped(cand), IsSequence(cand.fed),
           IsSequence(audio), x \in Pushes(c, cand, audio)
    PROVE  /\ Shaped(x) /\ x.fed = cand.fed \o audio
           /\ x.adapter = cand.adapter /\ x.pending = cand.pending
<1>1. CASE audio = <<>>
  <2>1. x = cand
    BY <1>1 DEF Pushes
  <2> QED BY <1>1, <2>1, JoinedEmpty
<1>2. CASE audio # <<>>
  <2> DEFINE fed   == cand.fed \o audio
             heard == Heard(c, Len(fed))
  <2>1. \E t : x = [cand EXCEPT !.fed = fed, !.shown = t[2], !.cut = t[3],
                        !.done = @ \o SubSeq(heard, Len(cand.done) + 1, t[1])]
    <3> HIDE DEF heard
    <3> QED BY <1>2 DEF Pushes, heard
  <2> HIDE DEF fed, heard
  <2>2. Shaped(x) /\ x.fed = fed /\ x.adapter = cand.adapter /\ x.pending = cand.pending
    BY <2>1 DEF Shaped
  <2> QED BY <2>2 DEF fed
<1> QED BY <1>1, <1>2

LEMMA FlushedFeeds ==
    ASSUME NEW c, NEW cand, Shaped(cand)
    PROVE  LET x == Flushed(c, cand)
           IN  /\ Shaped(x) /\ x.fed = cand.fed
               /\ x.adapter = cand.adapter /\ x.pending = cand.pending
BY DEF Flushed, Shaped

\* push_active, for one channel.
LEMMA PushedFeeds ==
    ASSUME NEW c, NEW cand, NEW r, NEW w, NEW v, NEW x, Feeding(cand, r, w), IsSequence(v),
           x \in Pushes(c, [cand EXCEPT !.adapter = PushSamples(cand.adapter, v).state],
                            PushSamples(cand.adapter, v).output)
    PROVE  Feeding(x, r, w \o v)
<1> DEFINE pushed == PushSamples(cand.adapter, v)
           with == [cand EXCEPT !.adapter = pushed.state]
<1>1. /\ IsStream(cand.adapter, w) /\ cand.adapter.plan = r /\ Shaped(cand)
      /\ cand.fed = Gave(cand.adapter, w) /\ cand.pending = <<>>
  BY DEF Feeding, Adapts
<1>2. /\ IsStream(pushed.state, w \o v) /\ pushed.state.plan = r
      /\ IsSequence(pushed.output) /\ IsSequence(cand.fed)
      /\ Gave(pushed.state, w \o v) = cand.fed \o pushed.output
  <2> DEFINE s == cand.adapter
  <2>1. IsStream(s, w) /\ s.plan = r /\ cand.fed = Gave(s, w) /\ pushed = PushSamples(s, v)
    BY <1>1
  <2> HIDE DEF pushed, s
  <2>2. /\ IsStream(pushed.state, w \o v) /\ pushed.state.plan = s.plan
        /\ IsSequence(pushed.output) /\ IsSequence(Gave(s, w))
        /\ Gave(pushed.state, w \o v) = Gave(s, w) \o pushed.output
    BY <2>1, ResamplerPush
  <2> QED BY <2>1, <2>2, Zenon
<1> HIDE DEF pushed
<1>3. Shaped(with) /\ with.adapter = pushed.state /\ with.fed = cand.fed /\ with.pending = <<>>
  BY <1>1 DEF Shaped
<1>4. x \in Pushes(c, with, pushed.output)
  BY DEF pushed
<1> HIDE DEF with
<1>5. /\ Shaped(x) /\ x.fed = with.fed \o pushed.output
      /\ x.adapter = with.adapter /\ x.pending = with.pending
  <2> DEFINE audio == pushed.output
  <2>1. IsSequence(audio) /\ Shaped(with) /\ IsSequence(with.fed) /\ x \in Pushes(c, with, audio)
    BY <1>2, <1>3, <1>4
  <2> HIDE DEF audio
  <2>2. /\ Shaped(x) /\ x.fed = with.fed \o audio
        /\ x.adapter = with.adapter /\ x.pending = with.pending
    BY <2>1, PushesFeed
  <2> QED BY <2>2 DEF audio
<1> QED BY <1>2, <1>3, <1>5 DEF Feeding, Adapts

\* push_buffered, for one channel.
LEMMA HeldWaits ==
    ASSUME NEW cand, NEW r, NEW w, NEW v, Waiting(cand, r, w), IsSequence(v)
    PROVE  LET pushed == PushSamples(cand.adapter, v)
           IN  Waiting([cand EXCEPT !.adapter = pushed.state, !.pending = @ \o pushed.output],
                       r, w \o v)
<1> DEFINE pushed == PushSamples(cand.adapter, v)
           held == [cand EXCEPT !.adapter = pushed.state, !.pending = @ \o pushed.output]
<1>1. /\ IsStream(cand.adapter, w) /\ cand.adapter.plan = r /\ Shaped(cand)
      /\ cand.fed = <<>> /\ cand.pending = Gave(cand.adapter, w)
  BY DEF Waiting, Adapts
<1>2. /\ IsStream(pushed.state, w \o v) /\ pushed.state.plan = r
      /\ Gave(pushed.state, w \o v) = cand.pending \o pushed.output
  <2> DEFINE s == cand.adapter
  <2>1. IsStream(s, w) /\ s.plan = r /\ cand.pending = Gave(s, w) /\ pushed = PushSamples(s, v)
    BY <1>1
  <2> HIDE DEF pushed, s
  <2>2. /\ IsStream(pushed.state, w \o v) /\ pushed.state.plan = s.plan
        /\ Gave(pushed.state, w \o v) = Gave(s, w) \o pushed.output
    BY <2>1, ResamplerPush, SMTT(30)
  <2> QED BY <2>1, <2>2, Zenon
<1> HIDE DEF pushed
<1>3. /\ Shaped(held) /\ held.adapter = pushed.state /\ held.fed = <<>>
      /\ held.pending = cand.pending \o pushed.output
  BY <1>1 DEF Shaped
<1> HIDE DEF held
<1>4. Waiting(held, r, w \o v)
  BY <1>2, <1>3 DEF Waiting, Adapts
<1> QED BY <1>4 DEF held, pushed

\* finish_all_candidate_adapters, for one channel.
LEMMA FinishedIsHeld ==
    ASSUME NEW cand, NEW r, NEW w, Waiting(cand, r, w)
    PROVE  HeldWhole([cand EXCEPT !.pending = @ \o FinishSamples(cand.adapter)], r, w)
<1>1. /\ IsStream(cand.adapter, w) /\ cand.adapter.plan = r /\ Shaped(cand)
      /\ cand.fed = <<>> /\ cand.pending = Gave(cand.adapter, w)
  BY DEF Waiting, Adapts
<1>2. cand.pending \o FinishSamples(cand.adapter) = Process(r, w)
  BY <1>1, ResamplerFinish
<1> QED BY <1>1, <1>2 DEF HeldWhole, Shaped

\* release_pending, for one channel that is selected.
LEMMA ReleasedIsFed ==
    ASSUME NEW c, NEW cand, NEW x, Shaped(cand), cand.fed = <<>>, IsSequence(cand.pending),
           x \in Pushes(c, [cand EXCEPT !.pending = <<>>], cand.pending)
    PROVE  /\ Shaped(x) /\ x.fed = cand.pending /\ x.pending = <<>>
           /\ x.adapter = cand.adapter
<1> DEFINE cleared == [cand EXCEPT !.pending = <<>>]
<1>1. /\ Shaped(cleared) /\ cleared.fed = <<>> /\ cleared.pending = <<>>
      /\ cleared.adapter = cand.adapter
  BY DEF Shaped
<1>2. x \in Pushes(c, cleared, cand.pending)
  OBVIOUS
<1> HIDE DEF cleared
<1> DEFINE audio == cand.pending
<1>3. IsSequence(audio) /\ Shaped(cleared) /\ IsSequence(cleared.fed) /\ x \in Pushes(c, cleared, audio)
  BY <1>1, <1>2, JoinedEmpty
<1> HIDE DEF audio
<1>4. /\ Shaped(x) /\ x.fed = cleared.fed \o audio
      /\ x.adapter = cleared.adapter /\ x.pending = cleared.pending
  BY <1>3, PushesFeed
<1>5. cleared.fed \o audio = audio
  BY <1>1, <1>3, JoinedEmpty
<1> QED BY <1>1, <1>4, <1>5 DEF audio

\* finish_active_sessions, for one channel.
LEMMA FinishedIsFed ==
    ASSUME NEW c, NEW cand, NEW r, NEW w, NEW x, Feeding(cand, r, w),
           x \in Pushes(c, cand, FinishSamples(cand.adapter))
    PROVE  FedWhole(Flushed(c, x), r, w)
<1>1. /\ IsStream(cand.adapter, w) /\ cand.adapter.plan = r /\ Shaped(cand)
      /\ cand.fed = Gave(cand.adapter, w) /\ cand.pending = <<>>
  BY DEF Feeding, Adapts
<1>2. /\ IsSequence(cand.fed) /\ IsSequence(FinishSamples(cand.adapter))
      /\ cand.fed \o FinishSamples(cand.adapter) = Process(r, w)
  BY <1>1, ResamplerFinish
<1>3. Shaped(x) /\ x.fed = Process(r, w) /\ x.pending = <<>>
  <2> DEFINE audio == FinishSamples(cand.adapter)
  <2>1. /\ IsSequence(audio) /\ IsSequence(cand.fed) /\ Shaped(cand)
        /\ x \in Pushes(c, cand, audio)
    BY <1>1, <1>2
  <2>2. cand.fed \o audio = Process(r, w)
    BY <1>2
  <2> HIDE DEF audio
  <2>3. Shaped(x) /\ x.fed = cand.fed \o audio /\ x.pending = cand.pending
    BY <2>1, PushesFeed
  <2> QED BY <1>1, <2>2, <2>3
<1> QED BY <1>3, FlushedFeeds DEF FedWhole

----------------------------------------------------------------------------
(* The sessions of a call. *)

\* A call that does not fail does to each channel what it is to do.
LEMMA OutcomesDone ==
    ASSUME NEW cands, NEW does, NEW failing, NEW outcome, NEW c, Count \in Nat \ {0},
           outcome \in Outcomes(cands, does, failing), ~outcome.failed,
           c \in Channels, c \in DOMAIN does
    PROVE  outcome.cands[c] \in does[c]
<1> DEFINE touched == DOMAIN does
           results == {g \in [touched -> UNION {does[d] : d \in touched}] :
                         \A d \in touched : g[d] \in does[d]}
           UpTo(g, limit) == [d \in Channels |->
             IF d \notin touched \/ d > limit THEN cands[d]
             ELSE IF d = limit THEN failing[d] ELSE g[d]]
<1>1. PICK g \in results : outcome.cands = UpTo(g, Count)
  <2>1. outcome \in {[failed |-> FALSE, cands |-> UpTo(g, Count)] : g \in results}
                      \union {[failed |-> TRUE, cands |-> UpTo(g, f)] : g \in results, f \in touched}
    BY DEF Outcomes
  <2> HIDE DEF results, UpTo, touched
  <2> QED BY <2>1
<1>2. g[c] \in does[c]
  BY <1>1
<1>3. c \in Int /\ c < Count
  BY DEF Channels, AllChannels
<1>4. outcome.cands[c] = g[c]
  <2>1. ~(c \notin touched \/ c > Count) /\ c # Count
    BY <1>3
  <2>2. outcome.cands[c] = UpTo(g, Count)[c]
    BY <1>1
  <2> QED BY <2>1, <2>2
<1> QED BY <1>2, <1>4

LEMMA AfterFails ==
    ASSUME NEW call, NEW outcome, NEW selection, NEW mode, IsCall(call), outcome.failed
    PROVE  After(call, outcome, selection, mode).failed
BY DEF After, IsCall

\* Each channel of a selection is being fed the samples that arrived for it, and
\* another nothing.
FeedsOnly(cands, selection, r, w) ==
    /\ \A c \in Channels : IsSequence(w[c])
    /\ \A c \in Channels : c \in selection => Feeding(cands[c], r, w[c])
    /\ \A c \in Channels : c \notin selection => Shaped(cands[c]) /\ cands[c].fed = <<>>

\* What arrived later is what arrived before, and these samples.
Follow(new, old, channels) ==
    \A c \in Channels : IsSequence(channels[c + 1]) /\ new[c] = old[c] \o channels[c + 1]

\* push_active: every channel of the selection is fed what came for it.
LEMMA PushActiveFeeds ==
    ASSUME NEW cands, NEW selection, NEW channels, NEW r, NEW old, NEW new, NEW outcome,
           Count \in Nat \ {0}, GoodPlan(r),
           Follow(new, old, channels), FeedsOnly(cands, selection, r, old),
           outcome \in PushActive(cands, selection, channels)
    PROVE  /\ \A c \in Channels : Begins(outcome.cands[c], r, new[c])
           /\ ~outcome.failed =>
                \A c \in Channels : c \in selection => Feeding(outcome.cands[c], r, new[c])
<1> DEFINE Through(c) == PushSamples(cands[c].adapter, channels[c + 1])
           does == [c \in selection |->
             Pushes(c, [cands[c] EXCEPT !.adapter = Through(c).state], Through(c).output)]
<1>1. outcome \in Outcomes(cands, does, cands) /\ DOMAIN does = selection
  BY DEF PushActive
<1>2. ASSUME NEW c, NEW x, c \in Channels, c \in selection, x \in does[c]
      PROVE  Feeding(x, r, new[c])
  <2> DEFINE cand == cands[c]
             v == channels[c + 1]
  <2>1. /\ Feeding(cand, r, old[c]) /\ IsSequence(v)
        /\ x \in Pushes(c, [cand EXCEPT !.adapter = PushSamples(cand.adapter, v).state],
                            PushSamples(cand.adapter, v).output)
    BY <1>2 DEF FeedsOnly, Follow
  <2> HIDE DEF cand, v
  <2>2. Feeding(x, r, old[c] \o v)
    BY <2>1, PushedFeeds
  <2> QED BY <1>2, <2>2 DEF v, Follow
<1> HIDE DEF does
<1>3. ASSUME NEW c, c \in Channels
      PROVE  /\ Begins(outcome.cands[c], r, new[c])
             /\ ~outcome.failed /\ c \in selection => Feeding(outcome.cands[c], r, new[c])
  <2> DEFINE w == new[c]
             x == outcome.cands[c]
             v == channels[c + 1]
             o == old[c]
  <2>1. IsSequence(v) /\ IsSequence(o) /\ w = o \o v
    BY <1>3 DEF FeedsOnly, Follow
  <2>2. x = cands[c] \/ (c \in selection /\ x \in does[c])
    <3>1. /\ c \notin DOMAIN does => outcome.cands[c] = cands[c]
          /\ c \in DOMAIN does => outcome.cands[c] \in does[c] \union {cands[c], cands[c]}
      BY <1>1, <1>3, OutcomesTouch
    <3> QED BY <1>1, <3>1
  <2>3. ~outcome.failed /\ c \in selection => x \in does[c]
    BY <1>1, <1>3, OutcomesDone
  <2>4. c \in selection => Feeding(cands[c], r, o)
    BY <1>3 DEF FeedsOnly
  <2>5. c \notin selection => Shaped(cands[c]) /\ cands[c].fed = <<>>
    BY <1>3 DEF FeedsOnly
  <2>6. c \in selection /\ x \in does[c] => Feeding(x, r, w)
    BY <1>2, <1>3
  <2> HIDE DEF w, x, v, o
  <2>7. IsSequence(w) /\ IsSequence(<<>>) /\ w \o <<>> = w
    BY <2>1, Joined, JoinedEmpty
  <2>8. CASE c \in selection /\ x \in does[c]
    <3>1. Feeding(x, r, w)
      BY <2>6, <2>8
    <3>2. Begins(x, r, w)
      BY <2>7, <3>1, FeedingBegins
    <3> QED BY <3>1, <3>2 DEF x, w
  <2>9. CASE x = cands[c] /\ c \in selection
    <3>1. Feeding(x, r, o)
      BY <2>4, <2>9
    <3>2. Begins(x, r, o \o v)
      BY <2>1, <3>1, FeedingBegins
    <3> QED BY <2>1, <2>3, <2>6, <3>2 DEF x, w
  <2>10. CASE x = cands[c] /\ c \notin selection
    <3>1. Shaped(x) /\ x.fed = <<>>
      BY <2>5, <2>10
    <3>2. Begins(x, r, w)
      BY <2>7, <3>1, NothingBegins
    <3> QED BY <2>10, <3>2 DEF x, w
  <2> QED BY <2>2, <2>8, <2>9, <2>10
<1> QED BY <1>3

\* release_pending: a channel of the selection is fed what was held back for it,
\* or, in a release that fails, perhaps nothing.
LEMMA ReleaseFeeds ==
    ASSUME NEW cands, NEW selection, NEW outcome, Count \in Nat \ {0},
           \A c \in Channels : /\ Shaped(cands[c]) /\ cands[c].fed = <<>>
                               /\ IsSequence(cands[c].pending),
           outcome \in ReleasePending(cands, selection), NEW c \in Channels
    PROVE  LET x == outcome.cands[c]
               Fed == /\ Shaped(x) /\ x.fed = cands[c].pending /\ x.pending = <<>>
                      /\ x.adapter = cands[c].adapter
           IN  /\ Fed \/ (Shaped(x) /\ x.fed = <<>>)
               /\ ~outcome.failed /\ c \in selection => Fed
<1> DEFINE Cleared(candidate) == [candidate EXCEPT !.pending = <<>>]
           dropped == [d \in Channels |-> IF d \in selection THEN cands[d] ELSE Cleared(cands[d])]
           cleared == [d \in Channels |-> Cleared(cands[d])]
           does == [d \in selection |-> Pushes(d, cleared[d], cands[d].pending)]
           x == outcome.cands[c]
           cand == cands[c]
<1>1. outcome \in Outcomes(dropped, does, cleared) /\ DOMAIN does = selection
  BY DEF ReleasePending
<1>2. Shaped(cand) /\ cand.fed = <<>> /\ IsSequence(cand.pending)
  OBVIOUS
<1>3. /\ dropped[c] \in {cand, Cleared(cand)} /\ cleared[c] = Cleared(cand)
      /\ c \in selection => does[c] = Pushes(c, Cleared(cand), cand.pending)
  OBVIOUS
<1>4. Shaped(Cleared(cand)) /\ Cleared(cand).fed = <<>>
  BY <1>2 DEF Shaped
<1> HIDE DEF dropped, cleared, does, cand
<1>5. \/ x = dropped[c] \/ x = cleared[c] \/ (c \in selection /\ x \in does[c])
  <2>1. /\ c \notin DOMAIN does => outcome.cands[c] = dropped[c]
        /\ c \in DOMAIN does => outcome.cands[c] \in does[c] \union {cleared[c], dropped[c]}
    BY <1>1, OutcomesTouch
  <2> QED BY <1>1, <2>1
<1>6. ~outcome.failed /\ c \in selection => x \in does[c]
  BY <1>1, OutcomesDone
<1> HIDE DEF x
<1>7. ASSUME c \in selection, x \in does[c]
      PROVE  /\ Shaped(x) /\ x.fed = cand.pending /\ x.pending = <<>>
             /\ x.adapter = cand.adapter
  <2>1. x \in Pushes(c, [cand EXCEPT !.pending = <<>>], cand.pending)
    BY <1>3, <1>7
  <2> QED BY <1>2, <2>1, ReleasedIsFed, ZenonT(60)
<1>8. x = dropped[c] \/ x = cleared[c] => Shaped(x) /\ x.fed = <<>>
  BY <1>2, <1>3, <1>4
<1> QED BY <1>5, <1>6, <1>7, <1>8 DEF x, cand

\* finish_active_sessions.
LEMMA FinishActiveFeeds ==
    ASSUME NEW cands, NEW selection, NEW r, NEW w, NEW outcome,
           Count \in Nat \ {0}, GoodPlan(r), FeedsOnly(cands, selection, r, w),
           outcome \in FinishActive(cands, selection)
    PROVE  /\ \A c \in Channels : Begins(outcome.cands[c], r, w[c])
           /\ ~outcome.failed =>
                \A c \in Channels : c \in selection => FedWhole(outcome.cands[c], r, w[c])
<1> DEFINE does == [c \in selection |->
             {Flushed(c, pushed) : pushed \in Pushes(c, cands[c], FinishSamples(cands[c].adapter))}]
<1>1. outcome \in Outcomes(cands, does, cands) /\ DOMAIN does = selection
  BY DEF FinishActive
<1>2. ASSUME NEW c, NEW x, c \in Channels, c \in selection, x \in does[c]
      PROVE  FedWhole(x, r, w[c])
  <2> DEFINE cand == cands[c]
             v == w[c]
  <2>1. Feeding(cand, r, v)
    BY <1>2 DEF FeedsOnly
  <2>2. \E y : y \in Pushes(c, cand, FinishSamples(cand.adapter)) /\ x = Flushed(c, y)
    BY <1>2
  <2> HIDE DEF cand, v
  <2>3. FedWhole(x, r, v)
    BY <2>1, <2>2, FinishedIsFed
  <2> QED BY <2>3 DEF v
<1> HIDE DEF does
<1>3. ASSUME NEW c, c \in Channels
      PROVE  /\ Begins(outcome.cands[c], r, w[c])
             /\ ~outcome.failed /\ c \in selection => FedWhole(outcome.cands[c], r, w[c])
  <2> DEFINE v == w[c]
             x == outcome.cands[c]
  <2>1. IsSequence(v) /\ IsSequence(<<>>)
    BY <1>3, JoinedEmpty DEF FeedsOnly
  <2>2. x = cands[c] \/ (c \in selection /\ x \in does[c])
    <3>1. /\ c \notin DOMAIN does => outcome.cands[c] = cands[c]
          /\ c \in DOMAIN does => outcome.cands[c] \in does[c] \union {cands[c], cands[c]}
      BY <1>1, <1>3, OutcomesTouch
    <3> QED BY <1>1, <3>1
  <2>3. ~outcome.failed /\ c \in selection => x \in does[c]
    BY <1>1, <1>3, OutcomesDone
  <2>4. c \in selection => Feeding(cands[c], r, v)
    BY <1>3 DEF FeedsOnly
  <2>5. c \notin selection => Shaped(cands[c]) /\ cands[c].fed = <<>>
    BY <1>3 DEF FeedsOnly
  <2>6. c \in selection /\ x \in does[c] => FedWhole(x, r, v)
    BY <1>2, <1>3
  <2> HIDE DEF v, x
  <2>7. Begins(x, r, v)
    <3>1. CASE c \in selection /\ x \in does[c]
      BY <2>1, <2>6, <3>1, WholeBegins
    <3>2. CASE c \in selection /\ x = cands[c]
      <4>1. Feeding(x, r, v)
        BY <2>4, <3>2
      <4> QED BY <2>1, <4>1, FeedingBegins
    <3>3. CASE c \notin selection /\ x = cands[c]
      <4>1. Shaped(x) /\ x.fed = <<>>
        BY <2>5, <3>3
      <4> QED BY <2>1, <4>1, NothingBegins
    <3> QED BY <2>2, <3>1, <3>2, <3>3
  <2> QED BY <2>3, <2>6, <2>7 DEF x, v
<1> QED BY <1>3

\* flush_active_sessions feeds nothing more.
LEMMA FlushActiveFeeds ==
    ASSUME NEW cands, NEW selection, NEW outcome, NEW c,
           outcome \in FlushActive(cands, selection), c \in Channels, Shaped(cands[c])
    PROVE  /\ Shaped(outcome.cands[c]) /\ outcome.cands[c].fed = cands[c].fed
           /\ outcome.cands[c].pending = cands[c].pending
<1> DEFINE does == [d \in selection |-> {Flushed(d, cands[d])}]
<1>1. outcome \in Outcomes(cands, does, cands) /\ DOMAIN does = selection
  BY DEF FlushActive
<1>2. c \in selection => does[c] = {Flushed(c, cands[c])}
  OBVIOUS
<1> HIDE DEF does
<1>3. outcome.cands[c] \in {cands[c], Flushed(c, cands[c])}
  BY <1>1, <1>2, OutcomesTouch
<1> QED BY <1>3, FlushedFeeds

----------------------------------------------------------------------------
(* What the sessions of a state were fed. *)

\* What is known of the channels in a phase, when some bytes have arrived.
Streams(phase, selection, cands, total) ==
    /\ \A c \in Channels : Begins(cands[c], Plan, SourceAt(c, total))
    /\ phase = "Buffering" => \A c \in Channels : Waiting(cands[c], Plan, SourceAt(c, total))
    /\ phase = "Active" =>
         \A c \in Channels : c \in selection => Feeding(cands[c], Plan, SourceAt(c, total))
    /\ phase = "Finished" =>
         \A c \in Channels : c \in selection => FedWhole(cands[c], Plan, SourceAt(c, total))

\* A session that goes on has refused nothing so far.
Receives(phase, dec, total) ==
    phase \in {"Buffering", "Active"} => FramesOk(total \div FrameSize) /\ HasArrived(dec, total)

StreamInv ==
    /\ setup \in Setups /\ sent \in Nat
    /\ Streams(lifecycle.phase, lifecycle.selection, candidates, sent)
    /\ Receives(lifecycle.phase, decoder, sent)

LEMMA SetupIsGood ==
    ASSUME setup \in Setups
    PROVE  FormatKnown /\ Count \in Nat \ {0} /\ GoodPlan(Plan)
<1> DEFINE rates == setup.rates
           pair == RatePair(rates[1], rates[2]).value
<1>1. /\ setup.format \in {"Pcm16", "F32", "Alaw", "Ulaw"}
      /\ rates[1] \in Nat \ {0} /\ rates[2] \in Nat \ {0}
      /\ RatePair(rates[1], rates[2]).ok
      /\ Count \in Nat \ {0} /\ Taps \in Nat /\ Taps >= 2
  BY MultiStreamAssumption DEF SetupAssumption
<1>2. Plan = Resampler(pair, Taps).value
  BY DEF Plan
<1> HIDE DEF rates
<1>3. pair.num \in Nat \ {0} /\ pair.den \in Nat \ {0}
  BY <1>1, RatePairIsPositive
<1> HIDE DEF pair
<1>4. GoodPlan(Plan)
  BY <1>1, <1>2, <1>3, ResamplerIsGood
<1> QED BY <1>1, <1>4 DEF FormatKnown

LEMMA SourceShape ==
    ASSUME FormatKnown, Count \in Nat \ {0}, NEW total \in Nat
    PROVE  \A c \in Channels : IsSequence(SourceAt(c, total))
<1>1. PICK h \in 0..(total \div FrameSize) :
        \A c \in Channels : SourceAt(c, total) = ChannelPart(c, 0, h)
  BY SourceIs
<1>2. h \in Nat
  BY SizesArePositive, Quotient
<1>3. \A c : IsSequence(ChannelPart(c, 0, h))
  BY <1>2, SliceShape DEF ChannelPart
<1> QED BY <1>1, <1>3

\* The setup never changes, so what a state says of it the next one says too.
LEMMA SetupStays ==
    ASSUME setup' = setup
    PROVE  /\ Plan' = Plan
           /\ \A c : SourceAt(c, sent)' = SourceAt(c, sent')
           /\ FramesOk(sent \div FrameSize)' <=> FramesOk(sent' \div FrameSize)
           /\ HasArrived(decoder, sent)' <=> HasArrived(decoder', sent')
<1>1. Plan' = Plan
  BY DEF Plan
<1>2. FrameSize' = FrameSize
  BY DEF FrameSize
<1>3. \A c : SourceAt(c, sent)' = SourceAt(c, sent')
  BY <1>2 DEF SourceAt
<1>4. FramesOk(sent \div FrameSize)' <=> FramesOk(sent' \div FrameSize)
  BY <1>2 DEF FramesOk, SampleNo, Width, SampleBytes
<1>5. HasArrived(decoder, sent)' <=> HasArrived(decoder', sent')
  BY <1>2 DEF HasArrived
<1> QED BY <1>1, <1>3, <1>4, <1>5

LEMMA StreamsConclude ==
    ASSUME NEW call, NEW phase, NEW selection, StreamInv, UNCHANGED setup, sent' \in Nat,
           \A c \in Channels : Begins(call.cands[c], Plan, SourceAt(c, sent')),
           ~call.failed => /\ Streams(phase, selection, call.cands, sent')
                           /\ Receives(phase, decoder', sent'),
           Conclude(call, phase, selection)
    PROVE  StreamInv'
<1>1. /\ candidates' = call.cands
      /\ lifecycle' = IF call.failed THEN [phase |-> "Failed", selection |-> {}]
                      ELSE [phase |-> phase, selection |-> selection]
  BY DEF Conclude
<1>2. /\ Streams(lifecycle'.phase, lifecycle'.selection, candidates', sent')
      /\ Receives(lifecycle'.phase, decoder', sent')
  <2>1. CASE call.failed
    <3>1. lifecycle'.phase = "Failed"
      BY <1>1, <2>1
    <3> QED BY <1>1, <3>1 DEF Streams, Receives
  <2>2. CASE ~call.failed
    <3>1. lifecycle'.phase = phase /\ lifecycle'.selection = selection
      BY <1>1, <2>2
    <3> QED BY <1>1, <2>2, <3>1
  <2> QED BY <2>1, <2>2
<1>3. Streams(lifecycle.phase, lifecycle.selection, candidates, sent)'
  BY <1>2, SetupStays DEF Streams
<1>4. Receives(lifecycle.phase, decoder, sent)'
  BY <1>2, SetupStays DEF Receives
<1>5. (setup \in Setups)'
  BY DEF StreamInv
<1> QED BY <1>3, <1>4, <1>5 DEF StreamInv

LEMMA SourceOfNothing ==
    ASSUME FormatKnown, Count \in Nat \ {0}
    PROVE  FramesOk(0 \div FrameSize) /\ \A c \in Channels : SourceAt(c, 0) = <<>>
<1>1. 0 \div FrameSize = 0
  BY SizesArePositive
<1>2. \A c \in Channels : SourceAt(c, 0) = ChannelPart(c, 0, 0)
  <2>1. \E h \in 0..(0 \div FrameSize) :
          /\ \A f \in 0..(0 \div FrameSize) : FramesOk(f) => f <= h
          /\ \A c \in Channels : SourceAt(c, 0) = ChannelPart(c, 0, h)
    BY SourceIs
  <2> QED BY <1>1, <2>1
<1>3. FramesOk(0)
  BY DEF FramesOk
<1>4. \A c : ChannelPart(c, 0, 0) = <<>>
  BY DEF ChannelPart, Slice
<1> QED BY <1>1, <1>2, <1>3, <1>4

LEMMA InitStreams == Init => StreamInv
<1> SUFFICES ASSUME Init PROVE StreamInv
  OBVIOUS
<1>1. FormatKnown /\ Count \in Nat \ {0} /\ GoodPlan(Plan) /\ setup \in Setups
  BY SetupIsGood DEF Init
<1>2. /\ FramesOk(0 \div FrameSize) /\ HasArrived(decoder, 0) /\ sent = 0
      /\ \A c \in Channels : SourceAt(c, 0) = <<>>
  BY <1>1, SourceOfNothing, NewHasArrived DEF Init
<1>3. ASSUME NEW c \in Channels
      PROVE  /\ Waiting(candidates[c], Plan, <<>>) /\ Feeding(candidates[c], Plan, <<>>)
             /\ Begins(candidates[c], Plan, <<>>)
  <2> DEFINE cand == candidates[c]
             s == NewStreamResampler(Plan)
  <2>1. IsStream(s, <<>>) /\ Gave(s, <<>>) = <<>> /\ s.plan = Plan /\ IsSequence(<<>>)
    BY <1>1, NewStreamGaveNothing, JoinedEmpty
  <2>2. Shaped(cand) /\ cand.adapter = s /\ cand.fed = <<>> /\ cand.pending = <<>>
    BY DEF Init, Shaped
  <2> HIDE DEF cand, s
  <2>3. Waiting(cand, Plan, <<>>) /\ Feeding(cand, Plan, <<>>)
    BY <2>1, <2>2 DEF Waiting, Feeding, Adapts
  <2>4. Begins(cand, Plan, <<>>)
    BY <1>1, <2>1, <2>2, NothingBegins
  <2> QED BY <2>3, <2>4 DEF cand
<1>4. lifecycle.phase \in {"Active", "Buffering"}
  BY DEF Init
<1> QED BY <1>1, <1>2, <1>3, <1>4 DEF StreamInv, Streams, Receives

\* What was held back is released into the sessions that were chosen.
LEMMA ReleaseStreams ==
    ASSUME NEW held, NEW selection, NEW outcome, NEW r, NEW w, NEW c,
           Count \in Nat \ {0}, GoodPlan(r), c \in Channels, IsSequence(w),
           \A d \in Channels : /\ Shaped(held[d]) /\ held[d].fed = <<>>
                               /\ IsSequence(held[d].pending),
           outcome \in ReleasePending(held, selection)
    PROVE  /\ Waiting(held[c], r, w) =>
                /\ Begins(outcome.cands[c], r, w)
                /\ ~outcome.failed /\ c \in selection => Feeding(outcome.cands[c], r, w)
           /\ HeldWhole(held[c], r, w) =>
                /\ Begins(outcome.cands[c], r, w)
                /\ ~outcome.failed /\ c \in selection => FedWhole(outcome.cands[c], r, w)
<1> DEFINE x == outcome.cands[c]
           cand == held[c]
           Fed == /\ Shaped(x) /\ x.fed = cand.pending /\ x.pending = <<>>
                  /\ x.adapter = cand.adapter
<1>1. /\ Fed \/ (Shaped(x) /\ x.fed = <<>>)
      /\ ~outcome.failed /\ c \in selection => Fed
  BY ReleaseFeeds
<1>2. (c \in selection /\ ~outcome.failed) => Fed
  BY <1>1
<1> HIDE DEF x, cand
<1>3. Fed /\ Waiting(cand, r, w) => Feeding(x, r, w)
  BY DEF Waiting, Feeding, Adapts
<1>4. Fed /\ HeldWhole(cand, r, w) => FedWhole(x, r, w)
  BY DEF HeldWhole, FedWhole
<1>5. Feeding(x, r, w) => Begins(x, r, w)
  BY FeedingBegins, JoinedEmpty
<1>6. FedWhole(x, r, w) => Begins(x, r, w)
  BY WholeBegins
<1>7. Shaped(x) /\ x.fed = <<>> => Begins(x, r, w)
  BY NothingBegins
<1> QED BY <1>1, <1>2, <1>3, <1>4, <1>5, <1>6, <1>7 DEF x, cand

LEMMA PushBufferedStreams ==
    ASSUME NEW channels, StreamInv, UNCHANGED setup, sent' \in Nat,
           lifecycle.phase = "Buffering", Receives("Active", decoder', sent'),
           \A c \in Channels : /\ IsSequence(channels[c + 1])
                               /\ SourceAt(c, sent') = SourceAt(c, sent) \o channels[c + 1],
           PushBuffered(channels)
    PROVE  StreamInv'
<1> DEFINE held == Held(candidates, channels)
<1>1. FormatKnown /\ Count \in Nat \ {0} /\ GoodPlan(Plan)
  BY SetupIsGood DEF StreamInv
<1>2. \A c \in Channels : IsSequence(SourceAt(c, sent'))
  BY <1>1, SourceShape
<1>3. ASSUME NEW c, c \in Channels
      PROVE  /\ Waiting(held[c], Plan, SourceAt(c, sent')) /\ Shaped(held[c])
             /\ held[c].fed = <<>> /\ IsSequence(held[c].pending)
  <2> DEFINE cand == candidates[c]
             v == channels[c + 1]
             w == SourceAt(c, sent)
             pushed == PushSamples(cand.adapter, v)
             h == [cand EXCEPT !.adapter = pushed.state, !.pending = @ \o pushed.output]
  <2>1. Waiting(cand, Plan, w) /\ IsSequence(v) /\ SourceAt(c, sent') = w \o v
    BY <1>3 DEF StreamInv, Streams
  <2>2. held[c] = h
    BY <1>3 DEF Held
  <2> HIDE DEF cand, v, w
  <2>3. Waiting(h, Plan, w \o v)
    BY <2>1, HeldWaits
  <2> HIDE DEF h
  <2>4. /\ IsStream(h.adapter, w \o v) /\ Shaped(h) /\ h.fed = <<>>
        /\ h.pending = Gave(h.adapter, w \o v)
    BY <2>3 DEF Waiting, Adapts
  <2>5. IsSequence(h.pending)
    BY <2>4, ResamplerFinish
  <2> QED BY <2>1, <2>2, <2>3, <2>4, <2>5
<1> HIDE DEF held
<1>4. CASE Conclude(Call(held, <<>>), "Buffering", {})
  <2> DEFINE call == Call(held, <<>>)
  <2>1. call.cands = held /\ call.failed = FALSE
    BY CallIsCall, EmptyTells, ZenonT(60)
  <2> HIDE DEF call
  <2>2. \A c \in Channels : Begins(held[c], Plan, SourceAt(c, sent'))
    BY <1>1, <1>2, <1>3, NothingBegins
  <2>3. Streams("Buffering", {}, held, sent')
    BY <1>3, <2>2 DEF Streams
  <2>4. Receives("Buffering", decoder', sent')
    BY DEF Receives
  <2> QED BY <1>4, <2>1, <2>2, <2>3, <2>4, StreamsConclude DEF call
<1>5. ASSUME NEW selection, NEW outcome \in ReleasePending(held, selection),
             Conclude(After(Call(held, Committed(selection)), outcome, selection, "Incremental"),
                      "Active", selection)
      PROVE  StreamInv'
  <2> DEFINE first == Call(held, Committed(selection))
             call == After(first, outcome, selection, "Incremental")
  <2>1. IsCall(first)
    BY CallIsCall, CommittedTells
  <2> HIDE DEF first
  <2>2. call.cands = outcome.cands /\ (outcome.failed => call.failed)
    BY <2>1, AfterKeeps, AfterFails
  <2> HIDE DEF call
  <2>3. ASSUME NEW c, c \in Channels
        PROVE  /\ Begins(outcome.cands[c], Plan, SourceAt(c, sent'))
               /\ ~outcome.failed /\ c \in selection =>
                    Feeding(outcome.cands[c], Plan, SourceAt(c, sent'))
    <3> DEFINE w == SourceAt(c, sent')
    <3>1. IsSequence(w) /\ Waiting(held[c], Plan, w)
      BY <1>2, <1>3, <2>3
    <3> HIDE DEF w
    <3>2. /\ Begins(outcome.cands[c], Plan, w)
          /\ ~outcome.failed /\ c \in selection => Feeding(outcome.cands[c], Plan, w)
      BY <1>1, <1>3, <2>3, <3>1, ReleaseStreams
    <3> QED BY <3>2 DEF w
  <2>4. ~outcome.failed => Streams("Active", selection, outcome.cands, sent')
    BY <2>3 DEF Streams
  <2>5. Conclude(call, "Active", selection)
    BY <1>5 DEF call, first
  <2> QED BY <2>2, <2>3, <2>4, <2>5, StreamsConclude
<1>6. \/ Conclude(Call(held, <<>>), "Buffering", {})
      \/ \E outcome \in ReleasePending(held, SelectPending(held).value) :
           Conclude(After(Call(held, Committed(SelectPending(held).value)), outcome,
                          SelectPending(held).value, "Incremental"),
                    "Active", SelectPending(held).value)
  BY DEF PushBuffered, held
<1> QED BY <1>4, <1>5, <1>6

\* In a session that has chosen, a channel is fed or holds nothing.
LEMMA ActiveCandidates ==
    ASSUME IInv, StreamInv, lifecycle.phase = "Active"
    PROVE  /\ \A c \in Channels : c \in lifecycle.selection =>
                  Feeding(candidates[c], Plan, SourceAt(c, sent))
           /\ \A c \in Channels : c \notin lifecycle.selection =>
                  Shaped(candidates[c]) /\ candidates[c].fed = <<>>
<1>1. \A c \in Channels : c \in lifecycle.selection =>
          Feeding(candidates[c], Plan, SourceAt(c, sent))
  BY DEF StreamInv, Streams
<1>2. \A c \in Channels : Shaped(candidates[c])
  BY DEF StreamInv, Streams, Begins
<1>3. \A c \in Channels : c \notin lifecycle.selection => candidates[c].fed = <<>>
  BY DEF IInv, FedInv, Chosen, OnlyFed
<1> QED BY <1>1, <1>2, <1>3

\* Frames for a session that has chosen.
LEMMA PushActiveStreams ==
    ASSUME NEW channels, NEW outcome, IInv, StreamInv, UNCHANGED setup, sent' \in Nat,
           lifecycle.phase = "Active", Receives("Active", decoder', sent'),
           \A c \in Channels : /\ IsSequence(channels[c + 1])
                               /\ SourceAt(c, sent') = SourceAt(c, sent) \o channels[c + 1],
           outcome \in PushActive(candidates, lifecycle.selection, channels),
           Conclude(After(Call(candidates, <<>>), outcome, lifecycle.selection, "Incremental"),
                    "Active", lifecycle.selection)
    PROVE  StreamInv'
<1> DEFINE first == Call(candidates, <<>>)
           call  == After(first, outcome, lifecycle.selection, "Incremental")
           old   == [c \in Channels |-> SourceAt(c, sent)]
           new   == [c \in Channels |-> SourceAt(c, sent')]
<1>1. FormatKnown /\ Count \in Nat \ {0} /\ GoodPlan(Plan) /\ sent \in Nat
  BY SetupIsGood DEF StreamInv
<1>2. \A c \in Channels : IsSequence(SourceAt(c, sent))
  BY <1>1, SourceShape
<1>3. IsCall(first)
  BY CallIsCall, EmptyTells
<1> HIDE DEF first
<1>4. call.cands = outcome.cands /\ (outcome.failed => call.failed)
  BY <1>3, AfterKeeps, AfterFails
<1>5. Conclude(call, "Active", lifecycle.selection)
  BY DEF first
<1> HIDE DEF call
<1>6. Follow(new, old, channels)
  BY DEF Follow
<1>7. FeedsOnly(candidates, lifecycle.selection, Plan, old)
  BY <1>2, ActiveCandidates DEF FeedsOnly
<1>9. \A c \in Channels : new[c] = SourceAt(c, sent')
  OBVIOUS
<1> HIDE DEF old, new
<1>10. /\ \A c \in Channels : Begins(outcome.cands[c], Plan, new[c])
       /\ ~outcome.failed => \A c \in Channels : c \in lifecycle.selection =>
                                 Feeding(outcome.cands[c], Plan, new[c])
  BY <1>1, <1>6, <1>7, PushActiveFeeds
<1>11. \A c \in Channels : Begins(outcome.cands[c], Plan, SourceAt(c, sent'))
  BY <1>9, <1>10
<1>12. ~outcome.failed => Streams("Active", lifecycle.selection, outcome.cands, sent')
  BY <1>9, <1>10, <1>11 DEF Streams
<1> QED BY <1>4, <1>5, <1>11, <1>12, StreamsConclude

\* Bytes that are refused: what was fed stays a beginning of what was sent.
LEMMA RefusedStreams ==
    ASSUME NEW n \in Nat, NEW phase, IInv, StreamInv, UNCHANGED setup,
           lifecycle.phase \in {"Buffering", "Active"}, sent' = sent + n,
           Conclude([Call(candidates, <<>>) EXCEPT !.failed = TRUE], phase, {})
    PROVE  StreamInv'
<1> DEFINE call == [Call(candidates, <<>>) EXCEPT !.failed = TRUE]
<1>1. call.cands = candidates /\ call.failed /\ Conclude(call, phase, {})
  BY RefusalIsCall
<1> HIDE DEF call
<1>2. FormatKnown /\ Count \in Nat \ {0} /\ GoodPlan(Plan) /\ sent \in Nat /\ sent' \in Nat
      /\ FramesOk(sent \div FrameSize)
  BY SetupIsGood DEF StreamInv, Receives
<1>3. ASSUME NEW c, c \in Channels
      PROVE  Begins(candidates[c], Plan, SourceAt(c, sent'))
  <2> DEFINE cand == candidates[c]
             w == SourceAt(c, sent)
             new == SourceAt(c, sent')
  <2>1. PICK v : IsSequence(v) /\ IsSequence(w) /\ new = w \o v
    <3>1. \E v : /\ IsSequence(v) /\ IsSequence(SourceAt(c, sent))
                 /\ SourceAt(c, sent + n) = SourceAt(c, sent) \o v
      BY <1>2, <1>3, SourceGrows
    <3> QED BY <1>2, <3>1
  <2>2. Feeding(cand, Plan, w) \/ (Shaped(cand) /\ cand.fed = <<>>)
    <3>1. CASE lifecycle.phase = "Active"
      BY <1>3, <3>1, ActiveCandidates
    <3>2. CASE lifecycle.phase = "Buffering"
      BY <1>3, <3>2 DEF StreamInv, Streams, Waiting, Adapts
    <3> QED BY <3>1, <3>2
  <2> HIDE DEF cand, w, new
  <2>3. IsSequence(new)
    BY <2>1, Joined
  <2>4. CASE Feeding(cand, Plan, w)
    <3>1. Begins(cand, Plan, w \o v)
      BY <2>1, <2>4, FeedingBegins
    <3> QED BY <2>1, <3>1 DEF cand, new
  <2>5. CASE Shaped(cand) /\ cand.fed = <<>>
    <3>1. Begins(cand, Plan, new)
      BY <1>2, <2>3, <2>5, NothingBegins
    <3> QED BY <3>1 DEF cand, new
  <2> QED BY <2>2, <2>4, <2>5
<1> QED BY <1>1, <1>2, <1>3, StreamsConclude

LEMMA PushStreams == ASSUME NEW n, n \in Nat, IInv, StreamInv, Push(n) PROVE StreamInv'
<1> DEFINE pushed == PushBytes(decoder, Arriving(sent, n))
           channels == pushed.result.value
           old == sent \div FrameSize
           all == (sent + n) \div FrameSize
<1>1. FormatKnown /\ Count \in Nat \ {0} /\ GoodPlan(Plan) /\ sent \in Nat
  BY SetupIsGood DEF StreamInv
<1>2. /\ lifecycle.phase \in {"Buffering", "Active"} /\ UNCHANGED setup
      /\ sent' = sent + n /\ sent' \in Nat /\ decoder' = pushed.decoder
  BY <1>1 DEF Push
<1>3. HasArrived(decoder, sent) /\ FramesOk(old)
  BY <1>2 DEF StreamInv, Receives
<1>4. /\ HasArrived(pushed.decoder, sent + n)
      /\ old \in Nat /\ all \in Nat /\ old <= all
      /\ \/ ~pushed.result.ok
         \/ pushed.result.ok /\ channels = <<>> /\ old = all
         \/ /\ pushed.result.ok /\ channels # <<>>
            /\ FramesOk(old) => FramesOk(all)
            /\ \A c \in Channels : channels[c + 1] = ChannelPart(c, old, all)
  <2>1. Arrives(pushed, sent, n)
    BY <1>1, <1>3, PushArrives
  <2> HIDE DEF pushed
  <2> QED BY <2>1 DEF Arrives
<1>5. \/ ~pushed.result.ok /\ Conclude([Call(candidates, <<>>) EXCEPT !.failed = TRUE], "Failed", {})
      \/ /\ pushed.result.ok /\ channels = <<>>
         /\ UNCHANGED <<lifecycle, candidates, merger, client, observed>>
      \/ /\ pushed.result.ok /\ channels # <<>>
         /\ lifecycle.phase = "Buffering" /\ PushBuffered(channels)
      \/ /\ pushed.result.ok /\ channels # <<>> /\ lifecycle.phase = "Active"
         /\ \E outcome \in PushActive(candidates, lifecycle.selection, channels) :
              Conclude(After(Call(candidates, <<>>), outcome,
                             lifecycle.selection, "Incremental"),
                       "Active", lifecycle.selection)
  BY DEF Push
<1> HIDE DEF pushed, channels
<1>6. CASE Conclude([Call(candidates, <<>>) EXCEPT !.failed = TRUE], "Failed", {})
  BY <1>2, <1>6, RefusedStreams
<1>7. CASE /\ pushed.result.ok /\ channels = <<>>
           /\ UNCHANGED <<lifecycle, candidates, merger, client, observed>>
  <2>1. old = all
    BY <1>4, <1>7
  <2>2. FramesOk(sent' \div FrameSize) /\ HasArrived(decoder', sent')
    BY <1>2, <1>3, <1>4, <2>1
  <2>3. \A c \in Channels : SourceAt(c, sent') = SourceAt(c, sent)
    <3>1. \A c \in Channels : SourceAt(c, sent) = ChannelPart(c, 0, old)
      BY <1>1, <1>3, SourceOfGood
    <3>2. \A c \in Channels : SourceAt(c, sent') = ChannelPart(c, 0, sent' \div FrameSize)
      BY <1>1, <1>2, <2>2, SourceOfGood
    <3> QED BY <1>2, <2>1, <3>1, <3>2
  <2>4. Streams(lifecycle.phase, lifecycle.selection, candidates, sent')
    BY <2>3 DEF StreamInv, Streams
  <2>5. Streams(lifecycle.phase, lifecycle.selection, candidates, sent)'
    BY <1>2, <1>7, <2>4, SetupStays DEF Streams
  <2>6. Receives(lifecycle.phase, decoder, sent)'
    BY <1>2, <2>2, SetupStays DEF Receives
  <2> QED BY <1>2, <2>5, <2>6 DEF StreamInv
<1>8. CASE pushed.result.ok /\ channels # <<>>
  <2>1. /\ FramesOk(sent' \div FrameSize) /\ HasArrived(decoder', sent')
        /\ \A c \in Channels : channels[c + 1] = ChannelPart(c, old, all)
    BY <1>2, <1>3, <1>4, <1>8
  <2>2. Receives("Active", decoder', sent')
    BY <2>1 DEF Receives
  <2>3. ASSUME NEW c, c \in Channels
        PROVE  /\ IsSequence(channels[c + 1])
               /\ SourceAt(c, sent') = SourceAt(c, sent) \o channels[c + 1]
    <3>1. SourceAt(c, sent) = ChannelPart(c, 0, old)
      BY <1>1, <1>3, <2>3, SourceOfGood
    <3>2. SourceAt(c, sent') = ChannelPart(c, 0, all)
      BY <1>1, <1>2, <2>1, <2>3, SourceOfGood
    <3>3. /\ IsSequence(ChannelPart(c, 0, old)) /\ IsSequence(ChannelPart(c, old, all))
          /\ ChannelPart(c, 0, old) \o ChannelPart(c, old, all) = ChannelPart(c, 0, all)
      <4> HIDE DEF old, all
      <4> QED BY <1>4, SlicesJoin DEF ChannelPart
    <3> QED BY <2>1, <2>3, <3>1, <3>2, <3>3
  <2> HIDE DEF old, all
  <2>4. CASE lifecycle.phase = "Buffering" /\ PushBuffered(channels)
    BY <1>2, <2>2, <2>3, <2>4, PushBufferedStreams
  <2>5. ASSUME NEW outcome, lifecycle.phase = "Active",
               outcome \in PushActive(candidates, lifecycle.selection, channels),
               Conclude(After(Call(candidates, <<>>), outcome,
                              lifecycle.selection, "Incremental"),
                        "Active", lifecycle.selection)
        PROVE  StreamInv'
    BY <1>2, <2>2, <2>3, <2>5, PushActiveStreams
  <2> QED BY <1>5, <1>8, <2>4, <2>5
<1> QED BY <1>5, <1>6, <1>7, <1>8

\* finish while the channels are not chosen: what is held back is the whole.
LEMMA FinishBufferedStreams ==
    ASSUME StreamInv, UNCHANGED <<setup, decoder, sent>>, lifecycle.phase = "Buffering",
           FinishBuffered
    PROVE  StreamInv'
<1> DEFINE held == FinishAdapters(candidates)
           selection == SelectPending(held).value
<1>1. FormatKnown /\ Count \in Nat \ {0} /\ GoodPlan(Plan) /\ sent \in Nat /\ sent' = sent
  BY SetupIsGood DEF StreamInv
<1>2. \A c \in Channels : IsSequence(SourceAt(c, sent))
  BY <1>1, SourceShape
<1>3. ASSUME NEW c, c \in Channels
      PROVE  /\ HeldWhole(held[c], Plan, SourceAt(c, sent)) /\ Shaped(held[c])
             /\ held[c].fed = <<>> /\ IsSequence(held[c].pending)
  <2> DEFINE cand == candidates[c]
             w == SourceAt(c, sent)
             h == [cand EXCEPT !.pending = @ \o FinishSamples(cand.adapter)]
  <2>1. Waiting(cand, Plan, w) /\ IsSequence(w)
    BY <1>2, <1>3 DEF StreamInv, Streams
  <2>2. held[c] = h
    BY <1>3 DEF FinishAdapters
  <2> HIDE DEF cand, w
  <2>3. HeldWhole(h, Plan, w)
    BY <2>1, FinishedIsHeld
  <2> HIDE DEF h
  <2>4. IsSequence(Process(Plan, w))
    BY <1>1, <2>1, ProcessShape
  <2> QED BY <2>2, <2>3, <2>4 DEF HeldWhole, w
<1> HIDE DEF held, selection
<1>4. PICK released : /\ released \in ReleasePending(held, selection)
                      /\ LET shown == After(Call(held, Committed(selection)), released,
                                            selection, "Incremental")
                         IN  \/ shown.failed /\ Conclude(shown, "Finished", selection)
                             \/ /\ ~shown.failed
                                /\ \E flushed \in FlushActive(shown.cands, selection) :
                                     Conclude(After(shown, flushed, selection, "Terminal"),
                                              "Finished", selection)
  BY DEF FinishBuffered, held, selection
<1> DEFINE first == Call(held, Committed(selection))
           shown == After(first, released, selection, "Incremental")
<1>5. IsCall(first)
  BY CallIsCall, CommittedTells
<1>6. \/ shown.failed /\ Conclude(shown, "Finished", selection)
      \/ /\ ~shown.failed
         /\ \E flushed \in FlushActive(shown.cands, selection) :
              Conclude(After(shown, flushed, selection, "Terminal"), "Finished", selection)
  BY <1>4
<1> HIDE DEF first
<1>7. IsCall(shown) /\ shown.cands = released.cands /\ (released.failed => shown.failed)
  BY <1>5, AfterKeeps, AfterFails
<1> HIDE DEF shown
<1>8. ASSUME NEW c, c \in Channels
      PROVE  /\ Begins(released.cands[c], Plan, SourceAt(c, sent))
             /\ ~released.failed /\ c \in selection =>
                  FedWhole(released.cands[c], Plan, SourceAt(c, sent))
  <2> DEFINE w == SourceAt(c, sent)
  <2>1. IsSequence(w) /\ HeldWhole(held[c], Plan, w)
    BY <1>2, <1>3, <1>8
  <2> HIDE DEF w
  <2>2. /\ Begins(released.cands[c], Plan, w)
        /\ ~released.failed /\ c \in selection => FedWhole(released.cands[c], Plan, w)
    BY <1>1, <1>3, <1>4, <1>8, <2>1, ReleaseStreams
  <2> QED BY <2>2 DEF w
<1>9. CASE shown.failed /\ Conclude(shown, "Finished", selection)
  BY <1>1, <1>7, <1>8, <1>9, StreamsConclude
<1>10. ASSUME NEW flushed, ~shown.failed, flushed \in FlushActive(shown.cands, selection),
              Conclude(After(shown, flushed, selection, "Terminal"), "Finished", selection)
       PROVE  StreamInv'
  <2> DEFINE call == After(shown, flushed, selection, "Terminal")
  <2>1. call.cands = flushed.cands
    BY <1>7, AfterKeeps
  <2> HIDE DEF call
  <2>2. ASSUME NEW c, c \in Channels
        PROVE  /\ Begins(flushed.cands[c], Plan, SourceAt(c, sent))
               /\ c \in selection => FedWhole(flushed.cands[c], Plan, SourceAt(c, sent))
    <3> DEFINE x == flushed.cands[c]
               y == shown.cands[c]
    <3>1. /\ Begins(y, Plan, SourceAt(c, sent))
          /\ c \in selection => FedWhole(y, Plan, SourceAt(c, sent))
      BY <1>7, <1>8, <1>10, <2>2
    <3>2. Shaped(y)
      BY <3>1 DEF Begins
    <3>3. Shaped(x) /\ x.fed = y.fed /\ x.pending = y.pending
      BY <1>10, <2>2, <3>2, FlushActiveFeeds
    <3> HIDE DEF x, y
    <3>4. /\ Begins(x, Plan, SourceAt(c, sent))
          /\ c \in selection => FedWhole(x, Plan, SourceAt(c, sent))
      BY <3>1, <3>3 DEF Begins, FedWhole
    <3> QED BY <3>4 DEF x
  <2>3. Streams("Finished", selection, flushed.cands, sent')
    BY <1>1, <2>2 DEF Streams
  <2>4. Receives("Finished", decoder', sent')
    BY DEF Receives
  <2>5. Conclude(call, "Finished", selection)
    BY <1>10 DEF call
  <2> QED BY <1>1, <2>1, <2>2, <2>3, <2>4, <2>5, StreamsConclude
<1> QED BY <1>6, <1>9, <1>10

\* finish in a session that has chosen.
LEMMA FinishActiveStreams ==
    ASSUME NEW outcome, IInv, StreamInv, UNCHANGED <<setup, decoder, sent>>,
           lifecycle.phase = "Active",
           outcome \in FinishActive(candidates, lifecycle.selection),
           Conclude(After(Call(candidates, <<>>), outcome, lifecycle.selection, "Terminal"),
                    "Finished", lifecycle.selection)
    PROVE  StreamInv'
<1> DEFINE first == Call(candidates, <<>>)
           call  == After(first, outcome, lifecycle.selection, "Terminal")
           w     == [c \in Channels |-> SourceAt(c, sent)]
<1>1. FormatKnown /\ Count \in Nat \ {0} /\ GoodPlan(Plan) /\ sent \in Nat /\ sent' = sent
  BY SetupIsGood DEF StreamInv
<1>2. \A c \in Channels : IsSequence(SourceAt(c, sent))
  BY <1>1, SourceShape
<1>3. IsCall(first)
  BY CallIsCall, EmptyTells
<1> HIDE DEF first
<1>4. call.cands = outcome.cands /\ (outcome.failed => call.failed)
  BY <1>3, AfterKeeps, AfterFails
<1>5. Conclude(call, "Finished", lifecycle.selection)
  BY DEF first
<1> HIDE DEF call
<1>6. FeedsOnly(candidates, lifecycle.selection, Plan, w)
  BY <1>2, ActiveCandidates DEF FeedsOnly
<1>7. \A c \in Channels : w[c] = SourceAt(c, sent)
  OBVIOUS
<1> HIDE DEF w
<1>8. /\ \A c \in Channels : Begins(outcome.cands[c], Plan, w[c])
      /\ ~outcome.failed => \A c \in Channels : c \in lifecycle.selection =>
                                FedWhole(outcome.cands[c], Plan, w[c])
  BY <1>1, <1>6, FinishActiveFeeds
<1>9. \A c \in Channels : Begins(outcome.cands[c], Plan, SourceAt(c, sent'))
  BY <1>1, <1>7, <1>8
<1>10. ~outcome.failed => Streams("Finished", lifecycle.selection, outcome.cands, sent')
  BY <1>1, <1>7, <1>8, <1>9 DEF Streams
<1>11. Receives("Finished", decoder', sent')
  BY DEF Receives
<1> QED BY <1>1, <1>4, <1>5, <1>9, <1>10, <1>11, StreamsConclude

LEMMA FinishStreams == ASSUME IInv, StreamInv, Finish PROVE StreamInv'
<1>1. /\ UNCHANGED <<setup, decoder, sent>> /\ lifecycle.phase \in {"Buffering", "Active"}
      /\ \/ Conclude([Call(candidates, <<>>) EXCEPT !.failed = TRUE], "Finished", {})
         \/ lifecycle.phase = "Buffering" /\ FinishBuffered
         \/ /\ lifecycle.phase = "Active"
            /\ \E outcome \in FinishActive(candidates, lifecycle.selection) :
                 Conclude(After(Call(candidates, <<>>), outcome,
                                lifecycle.selection, "Terminal"),
                          "Finished", lifecycle.selection)
  BY DEF Finish
<1>2. CASE Conclude([Call(candidates, <<>>) EXCEPT !.failed = TRUE], "Finished", {})
  <2>1. 0 \in Nat /\ sent' = sent + 0
    BY <1>1 DEF StreamInv
  <2> QED BY <1>1, <1>2, <2>1, RefusedStreams
<1>3. ASSUME NEW outcome, lifecycle.phase = "Active",
             outcome \in FinishActive(candidates, lifecycle.selection),
             Conclude(After(Call(candidates, <<>>), outcome,
                            lifecycle.selection, "Terminal"),
                      "Finished", lifecycle.selection)
      PROVE  StreamInv'
  BY <1>1, <1>3, FinishActiveStreams
<1> QED BY <1>1, <1>2, <1>3, FinishBufferedStreams

\* Every session of every state was fed what resampling its channel gives.
THEOREM MultiStreamFeeds == Spec => [](IInv /\ StreamInv)
<1>1. Init => IInv /\ StreamInv
  BY InitEstablishes, InitStreams
<1>2. IInv /\ StreamInv /\ [Next]_vars => (IInv /\ StreamInv)'
  <2> SUFFICES ASSUME IInv, StreamInv, [Next]_vars PROVE IInv' /\ StreamInv'
    OBVIOUS
  <2>1. CASE UNCHANGED vars
    <3>1. IInv'
      BY <2>1 DEF vars, IInv, ShapeInv, PhaseInv, FedInv, ToldInv, Chosen
    <3>2. /\ UNCHANGED setup /\ sent' = sent /\ candidates' = candidates
          /\ lifecycle' = lifecycle /\ decoder' = decoder
      BY <2>1 DEF vars
    <3>3. Streams(lifecycle.phase, lifecycle.selection, candidates, sent)'
      BY <3>2, SetupStays DEF StreamInv, Streams
    <3>4. Receives(lifecycle.phase, decoder, sent)'
      BY <3>2, SetupStays DEF StreamInv, Receives
    <3> QED BY <3>1, <3>2, <3>3, <3>4 DEF StreamInv
  <2>2. CASE Next
    <3>1. Finish \/ \E n : n \in Nat /\ Push(n)
      BY <2>2, MultiStreamAssumption DEF Next
    <3> QED BY <3>1, PushPreserves, FinishPreserves, PushStreams, FinishStreams
  <2> QED BY <2>1, <2>2
<1> QED BY <1>1, <1>2, PTL DEF Spec

LEMMA PrefixOfJoin ==
    ASSUME NEW s, NEW t, IsSequence(s), IsSequence(t)
    PROVE  IsPrefix(s, s \o t)
<1> DEFINE j == s \o t
<1>1. /\ IsSequence(j) /\ Len(j) = Len(s) + Len(t) /\ Len(s) \in Nat /\ Len(t) \in Nat
      /\ \A i \in 1..(Len(s) + Len(t)) : j[i] = IF i <= Len(s) THEN s[i] ELSE t[i - Len(s)]
  BY Joined, SequenceShape
<1> HIDE DEF j
<1>2. Len(s) <= Len(j) /\ \A i \in 1..Len(s) : j[i] = s[i]
  BY <1>1
<1>3. SubSeq(s, 1, Len(s)) = SubSeq(j, 1, Len(s))
  BY <1>1, <1>2
<1> QED BY <1>2, <1>3 DEF IsPrefix, j

\* However the bytes are cut, and whenever the channels are chosen, what a
\* session was fed is what resampling its channel as a whole gives so far, every
\* sample once and in order, and all of it at the end; for any number of
\* channels, any rates and any taps (multi_stream.rs push_buffered, push_active,
\* release_pending, finish_active_sessions; resampling.rs StreamResampler).
THEOREM FedWhatWasSentHolds == Spec => []FedWhatWasSent
<1>1. IInv /\ StreamInv => FedWhatWasSent
  <2> SUFFICES ASSUME IInv, StreamInv, NEW c, c \in Channels
               PROVE  LET whole == Process(Plan, SourceAt(c, sent))
                          got   == candidates[c].fed \o candidates[c].pending
                      IN  /\ lifecycle.phase # "Failed" => IsPrefix(got, whole)
                          /\ IsPrefix(candidates[c].fed, whole)
                          /\ lifecycle.phase = "Finished" /\ c \in lifecycle.selection =>
                               candidates[c].fed = whole
                          /\ lifecycle.phase \in {"Active", "Finished"}
                               /\ c \notin lifecycle.selection => got = <<>>
    BY SourceNow DEF FedWhatWasSent
  <2> DEFINE whole == Process(Plan, SourceAt(c, sent))
             w     == SourceAt(c, sent)
             cand  == candidates[c]
             got   == cand.fed \o cand.pending
  <2>1. FormatKnown /\ Count \in Nat \ {0} /\ GoodPlan(Plan) /\ sent \in Nat
    BY SetupIsGood DEF StreamInv
  <2>2. IsSequence(w)
    BY <2>1, SourceShape
  <2>3. /\ Begins(cand, Plan, w)
        /\ lifecycle.phase = "Buffering" => Waiting(cand, Plan, w)
        /\ lifecycle.phase = "Active" /\ c \in lifecycle.selection => Feeding(cand, Plan, w)
        /\ lifecycle.phase = "Finished" /\ c \in lifecycle.selection => FedWhole(cand, Plan, w)
    BY DEF StreamInv, Streams
  <2>4. lifecycle.phase \in {"Active", "Finished"} /\ c \notin lifecycle.selection =>
            cand.fed = <<>> /\ cand.pending = <<>>
    BY DEF IInv, FedInv, Chosen, OnlyFed
  <2>5. lifecycle.phase \in {"Buffering", "Active", "Finished", "Failed"}
    BY DEF IInv, PhaseInv
  <2>6. whole = Process(Plan, w)
    OBVIOUS
  <2> HIDE DEF whole, w, cand
  <2>7. IsPrefix(cand.fed, whole) /\ IsSequence(cand.fed)
    <3>1. PICK rest : IsSequence(rest) /\ whole = cand.fed \o rest
      BY <2>3, <2>6 DEF Begins
    <3>2. IsSequence(cand.fed)
      BY <2>3 DEF Begins
    <3> QED BY <3>1, <3>2, PrefixOfJoin
  <2>8. IsSequence(<<>>) /\ \A s : IsSequence(s) => s \o <<>> = s /\ <<>> \o s = s
    BY JoinedEmpty
  <2>9. cand.pending = <<>> => IsPrefix(got, whole)
    BY <2>7, <2>8
  <2>10. Waiting(cand, Plan, w) => IsPrefix(got, whole)
    <3> SUFFICES ASSUME Waiting(cand, Plan, w) PROVE IsPrefix(got, whole)
      OBVIOUS
    <3> DEFINE s == cand.adapter
    <3>1. IsStream(s, w) /\ s.plan = Plan /\ cand.fed = <<>> /\ cand.pending = Gave(s, w)
      BY DEF Waiting, Adapts
    <3> HIDE DEF s
    <3>2. /\ IsSequence(Gave(s, w)) /\ IsSequence(FinishSamples(s))
          /\ Gave(s, w) \o FinishSamples(s) = whole
      BY <2>6, <3>1, ResamplerFinish
    <3>3. IsPrefix(Gave(s, w), whole)
      BY <3>2, PrefixOfJoin
    <3>4. got = Gave(s, w)
      BY <2>8, <3>1, <3>2
    <3> QED BY <3>3, <3>4
  <2>11. Feeding(cand, Plan, w) => cand.pending = <<>>
    BY DEF Feeding
  <2>12. FedWhole(cand, Plan, w) => cand.pending = <<>> /\ cand.fed = whole
    BY <2>6 DEF FedWhole
  <2>13. <<>> \o <<>> = <<>>
    BY <2>8
  <2>14. /\ lifecycle.phase # "Failed" => IsPrefix(got, whole)
         /\ lifecycle.phase = "Finished" /\ c \in lifecycle.selection => cand.fed = whole
         /\ lifecycle.phase \in {"Active", "Finished"} /\ c \notin lifecycle.selection =>
              got = <<>>
    BY <2>3, <2>4, <2>5, <2>9, <2>10, <2>11, <2>12, <2>13
  <2> QED BY <2>7, <2>14 DEF whole, cand
<1> QED BY <1>1, MultiStreamFeeds, PTL

-----------------------------------------------------------------------------
(* The dialogue.  Its turns are in an order that no two of them share, so a  *)
(* turn's place is the number of those before it (RanksAreThePlaces, Lists). *)

\* How many of a set come before x in the order R, a set of pairs.
Rank(T, R, x) == Cardinality({y \in T : <<y, x>> \in R})

StrictOrder(T, R) ==
    /\ \A x \in T : <<x, x>> \notin R
    /\ \A x, y \in T : x # y => <<x, y>> \in R \/ <<y, x>> \in R
    /\ \A x, y, z \in T : <<x, y>> \in R /\ <<y, z>> \in R => <<x, z>> \in R

\* A finite set in a strict order: each of the places 0, 1, ... is that of exactly
\* one element, and an element before another has the smaller place.
LEMMA RanksAreThePlaces ==
    ASSUME NEW T, IsFiniteSet(T), NEW R, StrictOrder(T, R)
    PROVE  /\ Cardinality(T) \in Nat
           /\ \A x \in T : Rank(T, R, x) \in 0..(Cardinality(T) - 1)
           /\ \A x, y \in T : <<x, y>> \in R <=> Rank(T, R, x) < Rank(T, R, y)
           /\ \A x, y \in T : Rank(T, R, x) = Rank(T, R, y) => x = y
           /\ \A k \in 1..Cardinality(T) : \E x \in T : Rank(T, R, x) = k - 1
<1> DEFINE n == Cardinality(T)
           below(x) == {y \in T : <<y, x>> \in R}
           places == 0..(n - 1)
           r == [x \in T |-> Rank(T, R, x)]
<1>1. n \in Nat
  BY FS_CardinalityType
<1>2. ASSUME NEW x \in T
      PROVE  IsFiniteSet(below(x)) /\ Cardinality(below(x)) \in places
  <2>1. IsFiniteSet(T \ {x}) /\ Cardinality(T \ {x}) = n - 1
    BY FS_RemoveElement
  <2>2. below(x) \in SUBSET (T \ {x})
    BY DEF StrictOrder
  <2>3. IsFiniteSet(below(x)) /\ Cardinality(below(x)) <= n - 1
    <3> HIDE DEF below, n
    <3> QED BY <2>1, <2>2, FS_Subset
  <2>4. Cardinality(below(x)) \in Nat
    BY <2>3, FS_CardinalityType
  <2> QED BY <1>1, <2>3, <2>4
<1>3. ASSUME NEW x \in T, NEW y \in T, <<x, y>> \in R
      PROVE  Cardinality(below(x)) < Cardinality(below(y))
  <2>1. below(x) \in SUBSET below(y)
    BY <1>3 DEF StrictOrder
  <2>2. x \in below(y) /\ x \notin below(x)
    BY <1>3 DEF StrictOrder
  <2>3. IsFiniteSet(below(y))
    BY <1>2
  <2>4. /\ Cardinality(below(x)) <= Cardinality(below(y))
        /\ Cardinality(below(y)) = Cardinality(below(x)) => below(y) = below(x)
    <3> HIDE DEF below
    <3> QED BY <2>1, <2>3, FS_Subset
  <2>5. Cardinality(below(x)) \in Nat /\ Cardinality(below(y)) \in Nat
    <3>1. Cardinality(below(x)) \in places /\ Cardinality(below(y)) \in places
      BY <1>2
    <3> HIDE DEF below
    <3> QED BY <1>1, <3>1
  <2> HIDE DEF below
  <2>6. Cardinality(below(y)) # Cardinality(below(x))
    BY <2>2, <2>4
  <2> QED BY <2>4, <2>5, <2>6
<1>4. \A x \in T : Rank(T, R, x) \in places
  BY <1>2 DEF Rank
<1>5. \A x, y \in T : <<x, y>> \in R => Rank(T, R, x) < Rank(T, R, y)
  BY <1>3 DEF Rank
<1>6. \A x, y \in T : Rank(T, R, x) = Rank(T, R, y) => x = y
  <2> TAKE x, y \in T
  <2> HAVE Rank(T, R, x) = Rank(T, R, y)
  <2>1. Rank(T, R, x) \in Int
    BY <1>1, <1>4
  <2>2. ~ (Rank(T, R, x) < Rank(T, R, y)) /\ ~ (Rank(T, R, y) < Rank(T, R, x))
    BY <2>1
  <2>3. <<x, y>> \notin R /\ <<y, x>> \notin R
    BY <1>5, <2>2
  <2> QED BY <2>3 DEF StrictOrder
<1>7. r \in Injection(T, places)
  BY <1>4, <1>6 DEF Injection, IsInjective
<1>8. IsFiniteSet(places) /\ Cardinality(places) = n
  <2>1. 0 \in Int /\ n - 1 \in Int
    BY <1>1
  <2>2. IsFiniteSet(places) /\ Cardinality(places) = IF 0 > n - 1 THEN 0 ELSE n - 1 - 0 + 1
    BY <2>1, FS_Interval
  <2> HIDE DEF places
  <2> QED BY <1>1, <2>2
<1>9. r \in Surjection(T, places)
  <2> HIDE DEF r, places
  <2> QED BY <1>7, <1>8, FS_Injection
<1>10. \A k \in 1..n : \E x \in T : Rank(T, R, x) = k - 1
  <2> TAKE k \in 1..n
  <2>1. k - 1 \in places
    BY <1>1
  <2>2. \A p \in places : \E x \in T : r[x] = p
    BY <1>9 DEF Surjection
  <2> QED BY <2>1, <2>2
<1>11. \A x, y \in T : Rank(T, R, x) < Rank(T, R, y) => <<x, y>> \in R
  <2> TAKE x, y \in T
  <2> HAVE Rank(T, R, x) < Rank(T, R, y)
  <2>1. x # y /\ ~(Rank(T, R, y) < Rank(T, R, x))
    BY <1>1, <1>4
  <2> QED BY <1>5, <2>1 DEF StrictOrder
<1> QED BY <1>1, <1>4, <1>5, <1>6, <1>10, <1>11

\* The elements of a finite set in a strict order.
Ranked(T, R) == [k \in 1..Cardinality(T) |-> CHOOSE x \in T : Rank(T, R, x) = k - 1]

Lists(T, R, a) ==
    /\ IsSequence(a) /\ Len(a) = Cardinality(T) /\ Len(a) \in Nat
    /\ \A k \in 1..Len(a) : a[k] \in T /\ Rank(T, R, a[k]) = k - 1
    /\ \A x \in T : Rank(T, R, x) + 1 \in 1..Len(a) /\ a[Rank(T, R, x) + 1] = x
    /\ \A i, j \in 1..Len(a) : i < j <=> <<a[i], a[j]>> \in R

LEMMA RankedLists ==
    ASSUME NEW T, IsFiniteSet(T), NEW R, StrictOrder(T, R)
    PROVE  Lists(T, R, Ranked(T, R))
<1> DEFINE n == Cardinality(T)
           a == Ranked(T, R)
<1>1. /\ n \in Nat
      /\ \A x \in T : Rank(T, R, x) \in 0..(n - 1)
      /\ \A x, y \in T : <<x, y>> \in R <=> Rank(T, R, x) < Rank(T, R, y)
      /\ \A x, y \in T : Rank(T, R, x) = Rank(T, R, y) => x = y
      /\ \A k \in 1..n : \E x \in T : Rank(T, R, x) = k - 1
  BY RanksAreThePlaces
<1>2. \A k \in 1..n : a[k] \in T /\ Rank(T, R, a[k]) = k - 1
  <2> TAKE k \in 1..n
  <2>1. \E x \in T : Rank(T, R, x) = k - 1
    BY <1>1
  <2>2. a[k] = CHOOSE x \in T : Rank(T, R, x) = k - 1
    BY DEF Ranked
  <2> QED BY <2>1, <2>2
<1>3. IsSequence(a) /\ Len(a) = n
  <2>1. DOMAIN a = 1..n /\ a = [k \in DOMAIN a |-> a[k]]
    BY DEF Ranked
  <2> HIDE DEF a
  <2> QED BY <1>1, <2>1, FunctionIsSequence
<1> HIDE DEF a, n
<1>4. \A x \in T : Rank(T, R, x) + 1 \in 1..n /\ a[Rank(T, R, x) + 1] = x
  <2> TAKE x \in T
  <2> DEFINE k == Rank(T, R, x) + 1
  <2>1. k \in 1..n /\ k - 1 = Rank(T, R, x)
    BY <1>1
  <2> HIDE DEF k
  <2>2. a[k] \in T /\ Rank(T, R, a[k]) = Rank(T, R, x)
    BY <1>2, <2>1
  <2> QED BY <1>1, <2>1, <2>2 DEF k
<1>5. \A i, j \in 1..n : i < j <=> <<a[i], a[j]>> \in R
  <2> TAKE i, j \in 1..n
  <2>1. /\ a[i] \in T /\ Rank(T, R, a[i]) = i - 1
        /\ a[j] \in T /\ Rank(T, R, a[j]) = j - 1
    BY <1>2
  <2>2. <<a[i], a[j]>> \in R <=> i - 1 < j - 1
    BY <1>1, <2>1
  <2> QED BY <1>1, <2>2
<1> QED BY <1>1, <1>2, <1>3, <1>4, <1>5 DEF Lists, a, n

\* The numbers of a finite set in ascending order.
Smaller(S) == {p \in S \X S : p[1] < p[2]}

LEMMA AscendingLists ==
    ASSUME NEW S, S \in SUBSET Int, IsFiniteSet(S)
    PROVE  /\ Lists(S, Smaller(S), Ascending(S))
           /\ \A x \in S : Rank(S, Smaller(S), x) = Cardinality({y \in S : y < x})
<1>1. StrictOrder(S, Smaller(S))
  <2>1. \A x, y \in S : x \in Int /\ (<<x, y>> \in Smaller(S) <=> x < y)
    BY DEF Smaller
  <2>2. \A x \in S : <<x, x>> \notin Smaller(S)
    BY <2>1
  <2>3. \A x, y \in S : x # y => <<x, y>> \in Smaller(S) \/ <<y, x>> \in Smaller(S)
    BY <2>1
  <2>4. \A x, y, z \in S : <<x, y>> \in Smaller(S) /\ <<y, z>> \in Smaller(S)
                             => <<x, z>> \in Smaller(S)
    BY <2>1
  <2> QED BY <2>2, <2>3, <2>4 DEF StrictOrder
<1>2. \A x \in S : {y \in S : <<y, x>> \in Smaller(S)} = {y \in S : y < x}
  BY DEF Smaller
<1>3. \A x \in S : Rank(S, Smaller(S), x) = Cardinality({y \in S : y < x})
  BY <1>2 DEF Rank
<1>4. Ascending(S) = Ranked(S, Smaller(S))
  <2>1. ASSUME NEW k
        PROVE  (CHOOSE x \in S : Cardinality({y \in S : y < x}) = k - 1)
                 = (CHOOSE x \in S : Rank(S, Smaller(S), x) = k - 1)
    <3> DEFINE P(x) == Cardinality({y \in S : y < x})
               Q(x) == Rank(S, Smaller(S), x)
    <3>1. \A x \in S : P(x) = Q(x)
      BY <1>3
    <3> HIDE DEF P, Q
    <3>2. (CHOOSE x \in S : P(x) = k - 1) = (CHOOSE x \in S : Q(x) = k - 1)
      BY <3>1, Zenon
    <3> QED BY <3>2 DEF P, Q
  <2> DEFINE A(k) == CHOOSE x \in S : Cardinality({y \in S : y < x}) = k - 1
             B(k) == CHOOSE x \in S : Rank(S, Smaller(S), x) = k - 1
  <2>2. Ascending(S) = [k \in 1..Cardinality(S) |-> A(k)]
    BY DEF Ascending
  <2>3. Ranked(S, Smaller(S)) = [k \in 1..Cardinality(S) |-> B(k)]
    BY DEF Ranked
  <2>4. \A k : A(k) = B(k)
    BY <2>1
  <2> HIDE DEF A, B
  <2> QED BY <2>2, <2>3, <2>4
<1> QED BY <1>1, <1>3, <1>4, RankedLists

\* The turns of a dialogue in order.
Earlier(turns) == {p \in turns \X turns : Before(p[1], p[2])}

IsOrder(turns) ==
    /\ \A a \in turns : a.start \in Int /\ a.channel \in Int /\ a.index \in Int
    /\ \A a, b \in turns : a.channel = b.channel /\ a.index = b.index => a = b

LEMMA SortedLists ==
    ASSUME NEW turns, IsFiniteSet(turns), IsOrder(turns)
    PROVE  /\ Lists(turns, Earlier(turns), Sorted(turns))
           /\ \A t \in turns : Rank(turns, Earlier(turns), t)
                                 = Cardinality({u \in turns : Before(u, t)})
<1>1. StrictOrder(turns, Earlier(turns))
  <2>1. \A a, b \in turns : <<a, b>> \in Earlier(turns) <=> Before(a, b)
    BY DEF Earlier
  <2>2. \A a \in turns : a.start \in Int /\ a.channel \in Int /\ a.index \in Int
    BY DEF IsOrder
  <2>3. \A a \in turns : ~Before(a, a)
    BY <2>2 DEF Before
  <2>4. ASSUME NEW a \in turns, NEW b \in turns, a # b
        PROVE  Before(a, b) \/ Before(b, a)
    <3>1. ~(a.channel = b.channel /\ a.index = b.index)
      BY <2>4 DEF IsOrder
    <3> QED BY <2>2, <3>1 DEF Before
  <2>5. ASSUME NEW a \in turns, NEW b \in turns, NEW c \in turns, Before(a, b), Before(b, c)
        PROVE  Before(a, c)
    BY <2>2, <2>5 DEF Before
  <2> QED BY <2>1, <2>3, <2>4, <2>5 DEF StrictOrder
<1>2. \A t \in turns : {u \in turns : <<u, t>> \in Earlier(turns)} = {u \in turns : Before(u, t)}
  BY DEF Earlier
<1>3. \A t \in turns : Rank(turns, Earlier(turns), t)
                         = Cardinality({u \in turns : Before(u, t)})
  BY <1>2 DEF Rank
<1>4. Sorted(turns) = Ranked(turns, Earlier(turns))
  BY <1>3 DEF Sorted, Ranked
<1> QED BY <1>1, <1>3, <1>4, RankedLists

-----------------------------------------------------------------------------
(* What is heard of a channel, and what its session shows of it (Talks).     *)

\* The words of a channel in the order they are said.
SpeechIs(c) ==
    /\ Len(Speech[c]) \in Nat /\ DOMAIN Speech[c] = 1..Len(Speech[c])
    /\ \A i \in 1..Len(Speech[c]) :
         /\ DOMAIN Speech[c][i] = {"text", "start", "end"}
         /\ Speech[c][i].start \in Nat /\ Speech[c][i].end \in Nat
         /\ Speech[c][i].start < Speech[c][i].end
    /\ \A i, j \in 1..Len(Speech[c]) : i <= j => Speech[c][i].start <= Speech[c][j].start

LEMMA SpeechShape ==
    ASSUME NEW c, c \in Channels
    PROVE  SpeechIs(c)
<1> DEFINE T == {Speech[c][i].text : i \in DOMAIN Speech[c]}
           W == [text : T, start : Nat, end : Nat]
           s == Speech[c]
           n == Len(s)
<1>1. /\ s \in Seq(W)
      /\ \A i \in DOMAIN s : /\ s[i].start < s[i].end
                             /\ i > 1 => s[i - 1].start <= s[i].start
  BY MultiStreamAssumption DEF SpeechAssumption
<1> HIDE DEF T, s
<1>2. n \in Nat /\ DOMAIN s = 1..n /\ \A i \in 1..n : s[i] \in W
  BY <1>1, LenProperties, ElementOfSeq
<1>3. \A i \in 1..n : /\ DOMAIN s[i] = {"text", "start", "end"}
                      /\ s[i].start \in Nat /\ s[i].end \in Nat /\ s[i].start < s[i].end
  BY <1>1, <1>2
<1>4. ASSUME NEW i \in 1..n, NEW j \in 1..n, i <= j
      PROVE  s[i].start <= s[j].start
  <2> DEFINE bad == {k \in Nat : k \in 1..n /\ i <= k /\ ~(s[i].start <= s[k].start)}
  <2> SUFFICES ASSUME j \in bad PROVE FALSE
    BY <1>2, <1>4
  <2>1. PICK k \in bad : \A m \in bad : k <= m
    <3>1. bad \in SUBSET Nat /\ bad # {}
      OBVIOUS
    <3> HIDE DEF bad
    <3> QED BY <3>1, LeastExists
  <2>2. k \in 1..n /\ i \in 1..n /\ i <= k /\ ~(s[i].start <= s[k].start)
    BY <2>1
  <2>a. s[i].start \in Int
    BY <1>3
  <2>b. k # i
    BY <2>2, <2>a
  <2> HIDE DEF n
  <2>3. k - 1 \in 1..n /\ i <= k - 1 /\ k > 1
    <3>1. k \in 1..n /\ i \in 1..n /\ i <= k /\ k # i /\ n \in Nat
      BY <1>2, <2>2, <2>b
    <3> QED BY ONLY <3>1
  <2>4. s[k - 1].start <= s[k].start
    BY <1>1, <1>2, <2>2, <2>3
  <2>5. s[i].start <= s[k - 1].start
    <3>1. k - 1 \notin bad
      BY <2>1, <2>2
    <3> QED BY <1>2, <2>3, <3>1
  <2> DEFINE x == s[i].start
             y == s[k - 1].start
             z == s[k].start
  <2>6. x \in Nat /\ y \in Nat /\ z \in Nat
    BY <1>3, <2>2, <2>3
  <2>7. ~(x <= z) /\ x <= y /\ y <= z
    BY <2>2, <2>4, <2>5
  <2> HIDE DEF x, y, z
  <2> QED BY <2>6, <2>7
<1> QED BY <1>2, <1>3, <1>4 DEF SpeechIs, s

\* What is heard of a channel's speech at a time: the words begun, the last cut off.
HeardIs(c, now, h) ==
    /\ IsSequence(h) /\ Len(h) \in 0..Len(Speech[c])
    /\ \A i \in 1..Len(Speech[c]) : i <= Len(h) <=> Speech[c][i].start < now
    /\ \A i \in 1..Len(h) :
         /\ h[i].start = Speech[c][i].start /\ h[i].text = Speech[c][i].text
         /\ h[i].end \in Int /\ h[i].start < h[i].end /\ h[i].end <= now

LEMMA HeardShape ==
    ASSUME NEW c, NEW now, c \in Channels, now \in Nat
    PROVE  HeardIs(c, now, Heard(c, now))
<1> DEFINE s == Speech[c]
           n == Len(s)
           begun == {i \in DOMAIN s : s[i].start < now}
           m == Cardinality(begun)
           h == Heard(c, now)
<1>1. /\ n \in Nat /\ DOMAIN s = 1..n
      /\ \A i \in 1..n : /\ DOMAIN s[i] = {"text", "start", "end"}
                         /\ s[i].start \in Nat /\ s[i].end \in Nat /\ s[i].start < s[i].end
      /\ \A i, j \in 1..n : i <= j => s[i].start <= s[j].start
  BY SpeechShape DEF SpeechIs
<1>2. h = [i \in 1..m |-> [s[i] EXCEPT !.end = Min({@, now})]]
  BY DEF Heard
<1> HIDE DEF s, n
<1>3. \E k \in 0..n : begun = 1..k
  <2>1. CASE begun = {}
    <3>1. begun = 1..0 /\ 0 \in 0..n
      BY <1>1, <2>1
    <3> QED BY <3>1
  <2>2. CASE begun # {}
    <3>1. PICK k \in begun : \A i \in begun : i <= k
      <4>1. begun \in SUBSET (1..n)
        BY <1>1
      <4> HIDE DEF begun
      <4> QED BY <1>1, <2>2, <4>1, GreatestExists
    <3>2. k \in 1..n /\ s[k].start < now
      BY <1>1, <3>1
    <3>3. \A i \in 1..n : i <= k => s[i].start < now
      <4> TAKE i \in 1..n
      <4> HAVE i <= k
      <4>1. s[i].start <= s[k].start /\ s[i].start \in Nat /\ s[k].start \in Nat
        BY <1>1, <3>2
      <4> QED BY <3>2, <4>1
    <3>4. begun = 1..k
      <4>1. \A i \in begun : i \in 1..k
        BY <1>1, <3>1
      <4>2. \A i \in 1..k : i \in 1..n /\ i <= k
        BY <1>1, <3>2
      <4>3. \A i \in 1..k : i \in begun
        BY <1>1, <3>3, <4>2
      <4> HIDE DEF begun
      <4> QED BY <4>1, <4>3
    <3>5. k \in 0..n
      BY <1>1, <3>2
    <3> QED BY <3>4, <3>5
  <2> QED BY <2>1, <2>2
<1>4. m \in 0..n /\ begun = 1..m
  <2>1. PICK k \in 0..n : begun = 1..k
    BY <1>3
  <2>2. k \in Nat /\ 1 \in Int /\ k \in Int
    BY <1>1
  <2>3. Cardinality(1..k) = IF 1 > k THEN 0 ELSE k - 1 + 1
    BY <2>2, FS_Interval
  <2>4. Cardinality(1..k) = k
    BY <2>2, <2>3
  <2> QED BY <2>1, <2>4
<1>5. \A i \in 1..n : i <= m <=> s[i].start < now
  <2> TAKE i \in 1..n
  <2>1. i \in begun <=> s[i].start < now
    BY <1>1
  <2> HIDE DEF begun, m
  <2>2. i \in begun <=> i <= m
    BY <1>1, <1>4
  <2> QED BY <2>1, <2>2
<1> HIDE DEF begun, m, h
<1>6. IsSequence(h) /\ Len(h) = m
  <2>1. DOMAIN h = 1..m /\ h = [i \in DOMAIN h |-> h[i]] /\ m \in Nat
    BY <1>1, <1>2, <1>4
  <2> QED BY <2>1, FunctionIsSequence
<1>7. ASSUME NEW i \in 1..m
      PROVE  /\ h[i].start = s[i].start /\ h[i].text = s[i].text
             /\ h[i].end \in Int /\ h[i].start < h[i].end /\ h[i].end <= now
  <2>1. i \in 1..n /\ i <= m
    BY <1>1, <1>4
  <2>2. /\ DOMAIN s[i] = {"text", "start", "end"} /\ s[i].start \in Nat /\ s[i].end \in Int
        /\ s[i].start < s[i].end /\ s[i].start < now
    BY <1>1, <1>5, <2>1
  <2> DEFINE e == Min({s[i].end, now})
  <2>3. e \in {s[i].end, now} /\ e <= s[i].end /\ e <= now
    <3>1. now \in Int
      OBVIOUS
    <3> QED BY <2>2, <3>1, OfTwo, Zenon
  <2>4. h[i] = [s[i] EXCEPT !.end = e]
    BY <1>2
  <2> HIDE DEF e
  <2>5. h[i].start = s[i].start /\ h[i].text = s[i].text /\ h[i].end = e
    BY <2>2, <2>4
  <2> QED BY <2>2, <2>3, <2>5
<1>8. Len(h) \in 0..n
  BY <1>4, <1>6
<1>9. \A i \in 1..Len(h) :
         /\ h[i].start = s[i].start /\ h[i].text = s[i].text
         /\ h[i].end \in Int /\ h[i].start < h[i].end /\ h[i].end <= now
  BY <1>6, <1>7
<1> QED BY <1>5, <1>6, <1>8, <1>9 DEF HeardIs, h, s, n

LEMMA HeardGrows ==
    ASSUME NEW c, NEW now \in Nat, NEW later \in Nat, c \in Channels, now <= later
    PROVE  Len(Heard(c, now)) <= Len(Heard(c, later))
<1> DEFINE s == Speech[c]
           n == Len(s)
           a == Len(Heard(c, now))
           b == Len(Heard(c, later))
<1>1. /\ n \in Nat /\ \A i \in 1..n : s[i].start \in Nat
  BY SpeechShape DEF SpeechIs
<1>2. a \in 0..n /\ \A i \in 1..n : i <= a <=> s[i].start < now
  BY HeardShape DEF HeardIs
<1>3. b \in 0..n /\ \A i \in 1..n : i <= b <=> s[i].start < later
  BY HeardShape DEF HeardIs
<1> HIDE DEF a, b, s, n
<1>4. a = 0 => a <= b
  BY <1>1, <1>3
<1>5. ASSUME a # 0 PROVE a <= b
  <2>1. a \in 1..n /\ s[a].start < now
    BY <1>1, <1>2, <1>5
  <2>2. s[a].start < later
    BY <1>1, <2>1
  <2> QED BY <1>3, <2>1, <2>2
<1> QED BY <1>4, <1>5 DEF a, b

\* Words that are final at a time are the first ones said.
DoneIs(c, done, now) ==
    /\ IsSequence(done) /\ Len(done) <= Len(Speech[c])
    /\ \A i \in 1..Len(done) :
         /\ done[i].start = Speech[c][i].start /\ done[i].text = Speech[c][i].text
         /\ done[i].end \in Int /\ done[i].start < done[i].end /\ done[i].end <= now

\* The words of a channel that are not final begin at its cut, or little before.
OpenFrom(c, done, cut) ==
    \A i \in 1..Len(Speech[c]) : i > Len(done) => Speech[c][i].start >= cut

\* A channel's session.
Talks(c, cand) ==
    /\ {"fed", "done", "shown", "cut"} \subseteq DOMAIN cand
    /\ IsSequence(cand.fed) /\ DoneIs(c, cand.done, Len(cand.fed))
    /\ cand.shown \in Int /\ Len(cand.done) <= cand.shown
    /\ cand.shown <= Len(Heard(c, Len(cand.fed)))
    /\ cand.cut \in Int /\ cand.cut <= Len(cand.fed)
    /\ OpenFrom(c, cand.done, cand.cut - Slack)

\* Final words stay.
Grows(old, new) ==
    /\ Len(old.done) <= Len(new.done)
    /\ \A i \in 1..Len(old.done) : new.done[i] = old.done[i]

\* After a flush.
Flush(c, cand) ==
    /\ cand.cut = Len(cand.fed) /\ cand.shown = Len(cand.done)
    /\ Len(cand.done) = Len(Heard(c, Len(cand.fed)))

\* More words become final, in the order they are said.
LEMMA MoreDone ==
    ASSUME NEW c, NEW done, NEW before \in Nat, NEW now \in Nat, NEW k, c \in Channels,
           DoneIs(c, done, before), before <= now,
           k \in Len(done)..Len(Heard(c, now))
    PROVE  LET more == done \o SubSeq(Heard(c, now), Len(done) + 1, k)
           IN  /\ DoneIs(c, more, now) /\ Len(more) = k
               /\ Len(done) <= k /\ \A i \in 1..Len(done) : more[i] = done[i]
<1> DEFINE h == Heard(c, now)
           d == Len(done)
           part == SubSeq(h, d + 1, k)
           more == done \o part
           s == Speech[c]
<1>1. /\ IsSequence(h) /\ Len(h) \in 0..Len(s)
      /\ \A i \in 1..Len(h) :
           /\ h[i].start = s[i].start /\ h[i].text = s[i].text
           /\ h[i].end \in Int /\ h[i].start < h[i].end /\ h[i].end <= now
  BY HeardShape DEF HeardIs
<1>2. /\ IsSequence(done) /\ d \in Nat
      /\ \A i \in 1..d : /\ done[i].start = s[i].start /\ done[i].text = s[i].text
                         /\ done[i].end \in Int /\ done[i].start < done[i].end
                         /\ done[i].end <= before
  BY SequenceShape DEF DoneIs
<1>3. Len(s) \in Nat
  BY SpeechShape DEF SpeechIs
<1>4. k \in d..Len(h)
  OBVIOUS
<1> HIDE DEF h, d, s
<1>5. k \in 0..Len(h) /\ d \in 0..k /\ k \in Nat /\ d <= k /\ k <= Len(s)
  BY <1>1, <1>2, <1>3, <1>4
<1>6. /\ IsSequence(part) /\ Len(part) = k - d
      /\ \A i \in 1..(k - d) : part[i] = h[d + i]
  BY <1>1, <1>5, Part
<1> HIDE DEF part
<1>7. /\ IsSequence(more) /\ Len(more) = k
      /\ \A i \in 1..k : more[i] = IF i <= d THEN done[i] ELSE part[i - d]
  <2>1. /\ IsSequence(more) /\ Len(more) = Len(done) + Len(part)
        /\ \A i \in 1..(Len(done) + Len(part)) :
             more[i] = IF i <= Len(done) THEN done[i] ELSE part[i - Len(done)]
    BY <1>2, <1>6, Joined
  <2>2. Len(done) = d /\ d + (k - d) = k
    BY <1>2, <1>5 DEF d
  <2> HIDE DEF more
  <2> QED BY <1>6, <2>1, <2>2
<1> HIDE DEF more
<1>8. ASSUME NEW i \in 1..k
      PROVE  /\ more[i].start = s[i].start /\ more[i].text = s[i].text
             /\ more[i].end \in Int /\ more[i].start < more[i].end /\ more[i].end <= now
             /\ i <= d => more[i] = done[i]
  <2>1. CASE i <= d
    <3>1. i \in 1..d /\ more[i] = done[i]
      BY <1>5, <1>7, <2>1
    <3> QED BY <1>2, <3>1
  <2>2. CASE ~ (i <= d)
    <3>1. i - d \in 1..(k - d) /\ d + (i - d) = i /\ i \in 1..Len(h)
      BY <1>1, <1>5, <2>2
    <3>2. more[i] = h[i]
      BY <1>6, <1>7, <2>2, <3>1
    <3> QED BY <1>1, <2>2, <3>1, <3>2
  <2> QED BY <2>1, <2>2
<1>9. DoneIs(c, more, now)
  BY <1>5, <1>7, <1>8 DEF DoneIs, s
<1>10. \A i \in 1..d : more[i] = done[i]
  BY <1>5, <1>8
<1> QED BY <1>5, <1>7, <1>9, <1>10 DEF more, part, h, d

\* StreamSession::push: no word comes into being behind the cut, and final words stay.
LEMMA PushesTalk ==
    ASSUME NEW c, NEW cand, NEW audio, NEW x, c \in Channels, Talks(c, cand),
           IsSequence(audio), x \in Pushes(c, cand, audio)
    PROVE  Talks(c, x) /\ Grows(cand, x)
<1> DEFINE fed   == cand.fed \o audio
           heard == Heard(c, Len(fed))
           k0    == Len(cand.done)
           cuts  == {cand.cut, Len(fed)}
                      \union {Max({0, heard[i].start - Slack}) : i \in DOMAIN heard}
           Fits(k, shown, cut) ==
             /\ cut >= cand.cut - Slack /\ cut <= Len(fed)
             /\ k <= shown /\ cand.shown <= shown
             /\ k > k0 => heard[k].start <= cut
             /\ k < Len(heard) => heard[k + 1].start >= cut - Slack
<1>1. CASE audio = <<>>
  <2>1. x = cand
    BY <1>1 DEF Pushes
  <2>2. Len(cand.done) \in Nat
    BY SequenceShape DEF Talks, DoneIs
  <2> QED BY <2>1, <2>2 DEF Grows
<1>2. CASE audio # <<>>
  <2>1. PICK k, shown, cut :
          /\ k \in k0..Len(heard) /\ shown \in {cand.shown, Len(heard)} /\ cut \in cuts
          /\ Fits(k, shown, cut)
          /\ x = [cand EXCEPT !.fed = fed, !.shown = shown, !.cut = cut,
                              !.done = @ \o SubSeq(heard, k0 + 1, k)]
    <3>1. x \in {[cand EXCEPT !.fed = fed, !.shown = t[2], !.cut = t[3],
                              !.done = @ \o SubSeq(heard, k0 + 1, t[1])] :
                   t \in {p \in (k0..Len(heard)) \X {cand.shown, Len(heard)} \X cuts :
                            Fits(p[1], p[2], p[3])}}
      BY <1>2, Zenon DEF Pushes
    <3> DEFINE New(k, shown, cut) == [cand EXCEPT !.fed = fed, !.shown = shown, !.cut = cut,
                                         !.done = @ \o SubSeq(heard, k0 + 1, k)]
    <3>2. PICK p \in (k0..Len(heard)) \X {cand.shown, Len(heard)} \X cuts :
            Fits(p[1], p[2], p[3]) /\ x = New(p[1], p[2], p[3])
      <4> DEFINE all == (k0..Len(heard)) \X {cand.shown, Len(heard)} \X cuts
                 P == {p \in all : Fits(p[1], p[2], p[3])}
                 N(p) == New(p[1], p[2], p[3])
      <4>1. x \in {N(p) : p \in P}
        BY <3>1, Zenon
      <4> HIDE DEF N, all, Fits
      <4>2. PICK p \in P : x = N(p)
        BY <4>1, Zenon
      <4>3. p \in all /\ Fits(p[1], p[2], p[3])
        OBVIOUS
      <4> QED BY <4>2, <4>3, Zenon DEF N, all
    <3> HIDE DEF cuts, Fits, heard, fed, k0, New
    <3>3. p[1] \in k0..Len(heard) /\ p[2] \in {cand.shown, Len(heard)} /\ p[3] \in cuts
      OBVIOUS
    <3>4. \E k, shown, cut :
            /\ k \in k0..Len(heard) /\ shown \in {cand.shown, Len(heard)} /\ cut \in cuts
            /\ Fits(k, shown, cut) /\ x = New(k, shown, cut)
      BY <3>2, <3>3, Zenon
    <3> QED BY <3>4, Zenon DEF New
  <2> DEFINE now == Len(fed)
             old == Len(cand.fed)
             more == cand.done \o SubSeq(heard, k0 + 1, k)
  <2>2. /\ {"fed", "done", "shown", "cut"} \subseteq DOMAIN cand
        /\ IsSequence(cand.fed) /\ DoneIs(c, cand.done, old)
        /\ cand.shown \in Int /\ k0 <= cand.shown /\ cand.shown <= Len(Heard(c, old))
        /\ cand.cut \in Int
    BY DEF Talks
  <2>3. old \in Nat /\ now \in Nat /\ old <= now /\ IsSequence(fed)
    <3>1. IsSequence(fed) /\ Len(fed) = Len(cand.fed) + Len(audio)
      BY <2>2, Joined
    <3>2. Len(cand.fed) \in Nat /\ Len(audio) \in Nat
      BY <2>2, SequenceShape
    <3> HIDE DEF fed
    <3> QED BY <3>1, <3>2
  <2>4. k \in k0..Len(Heard(c, now))
    BY <2>1
  <2>5. /\ DoneIs(c, more, now) /\ Len(more) = k
        /\ k0 <= k /\ \A i \in 1..k0 : more[i] = cand.done[i]
    <3> DEFINE done == cand.done
    <3>1. DoneIs(c, done, old) /\ k \in Len(done)..Len(Heard(c, now))
      BY <2>2, <2>4
    <3> HIDE DEF done, old, now
    <3>2. LET all == done \o SubSeq(Heard(c, now), Len(done) + 1, k)
          IN  /\ DoneIs(c, all, now) /\ Len(all) = k
              /\ Len(done) <= k /\ \A i \in 1..Len(done) : all[i] = done[i]
      BY <2>3, <3>1, MoreDone
    <3> QED BY <3>2 DEF done, now
  <2>6. /\ x.fed = fed /\ x.shown = shown /\ x.cut = cut /\ x.done = more
        /\ DOMAIN x = DOMAIN cand
    BY <2>1, <2>2
  <2>7. HeardIs(c, now, heard)
    BY <2>3, HeardShape
  <2>8. Len(Heard(c, old)) <= Len(heard) /\ Len(Heard(c, old)) \in Int /\ Len(heard) \in Int
    <3>1. Len(Heard(c, old)) <= Len(Heard(c, now))
      <4> HIDE DEF old, now
      <4> QED BY <2>3, HeardGrows
    <3>2. HeardIs(c, old, Heard(c, old))
      <4> HIDE DEF old
      <4> QED BY <2>3, HeardShape
    <3>3. Len(Speech[c]) \in Nat
      BY SpeechShape DEF SpeechIs
    <3> QED BY <2>7, <3>1, <3>2, <3>3 DEF HeardIs
  <2> HIDE DEF more, heard, k0
  <2>9. shown \in Int /\ k <= shown /\ shown <= Len(heard)
    <3> HIDE DEF cuts, fed, old
    <3> QED BY <2>1, <2>2, <2>8
  <2>10. cut \in Int /\ cut <= now
    <3>1. cut <= now
      BY <2>1
    <3>2. \A i \in DOMAIN heard : Max({0, heard[i].start - Slack}) \in Int
      <4> TAKE i \in DOMAIN heard
      <4>1. heard[i].start \in Int
        <5>1. /\ Len(heard) \in 0..Len(Speech[c]) /\ DOMAIN heard = 1..Len(heard)
              /\ \A j \in 1..Len(heard) : heard[j].start = Speech[c][j].start
          BY <2>7, SequenceShape DEF HeardIs
        <5>2. Len(Speech[c]) \in Nat /\ \A j \in 1..Len(Speech[c]) : Speech[c][j].start \in Nat
          BY SpeechShape DEF SpeechIs
        <5>3. i \in 1..Len(Speech[c])
          BY <5>1, <5>2
        <5> QED BY <5>1, <5>2, <5>3
      <4> DEFINE a == heard[i].start - Slack
      <4>2. a \in Int /\ 0 \in Int
        BY <4>1, MultiStreamAssumption
      <4> HIDE DEF a
      <4>3. Max({0, a}) \in {0, a}
        BY <4>2, OfTwo, Zenon
      <4> QED BY <4>2, <4>3 DEF a
    <3>3. cut \in {cand.cut, now} \/ \E i \in DOMAIN heard : cut = Max({0, heard[i].start - Slack})
      BY <2>1
    <3> DEFINE M(i) == Max({0, heard[i].start - Slack})
    <3>4. \A i \in DOMAIN heard : M(i) \in Int
      BY <3>2
    <3>5. cut = cand.cut \/ cut = now \/ \E i \in DOMAIN heard : cut = M(i)
      BY <3>3
    <3> HIDE DEF M, now
    <3>6. now \in Int
      BY <2>3
    <3> QED BY <2>2, <3>1, <3>4, <3>5, <3>6, Zenon
  <2>11. OpenFrom(c, more, cut - Slack)
    <3> DEFINE s == Speech[c]
    <3>1. /\ Len(s) \in Nat /\ \A i \in 1..Len(s) : s[i].start \in Nat
          /\ \A i, j \in 1..Len(s) : i <= j => s[i].start <= s[j].start
      BY SpeechShape DEF SpeechIs
    <3>2. /\ Len(heard) \in 0..Len(s) /\ \A i \in 1..Len(heard) : heard[i].start = s[i].start
          /\ \A i \in 1..Len(s) : i <= Len(heard) <=> s[i].start < now
      BY <2>7 DEF HeardIs
    <3>3. Slack \in Nat
      BY MultiStreamAssumption
    <3>4. k \in Nat /\ k <= Len(heard) /\ (k < Len(heard) => heard[k + 1].start >= cut - Slack)
      <4>1. Len(cand.done) \in Nat
        BY <2>2, SequenceShape DEF DoneIs
      <4> QED BY <2>1, <2>8, <4>1 DEF k0
    <3> SUFFICES ASSUME NEW i \in 1..Len(s), i > k PROVE s[i].start >= cut - Slack
      BY <2>5 DEF OpenFrom
    <3> HIDE DEF s, now
    <3>5. CASE k < Len(heard)
      <4>1. k + 1 \in 1..Len(heard) /\ k + 1 \in 1..Len(s) /\ k + 1 <= i
        BY <3>1, <3>2, <3>4, <3>5
      <4>2. s[k + 1].start >= cut - Slack /\ s[k + 1].start <= s[i].start
        BY <3>1, <3>2, <3>4, <3>5, <4>1
      <4>3. s[k + 1].start \in Nat /\ s[i].start \in Nat
        BY <3>1, <4>1
      <4> QED BY <2>10, <3>3, <4>2, <4>3
    <3>6. CASE ~ (k < Len(heard))
      <4>1. ~ (i <= Len(heard))
        BY <2>8, <3>4, <3>6
      <4>2. ~ (s[i].start < now) /\ s[i].start \in Nat
        BY <3>1, <3>2, <4>1
      <4> QED BY <2>3, <2>10, <3>3, <4>2
    <3> QED BY <3>5, <3>6
  <2>12. Talks(c, x)
    <3>1. IsSequence(x.fed) /\ Len(x.fed) = now /\ Heard(c, Len(x.fed)) = heard
      BY <2>3, <2>6 DEF heard
    <3>2. {"fed", "done", "shown", "cut"} \subseteq DOMAIN x
      BY <2>2, <2>6
    <3> HIDE DEF now
    <3>3. DoneIs(c, x.done, now) /\ Len(x.done) <= x.shown /\ OpenFrom(c, x.done, x.cut - Slack)
      BY <2>5, <2>6, <2>9, <2>11
    <3>4. x.shown \in Int /\ x.shown <= Len(heard) /\ x.cut \in Int /\ x.cut <= now
      BY <2>6, <2>9, <2>10
    <3>5. DoneIs(c, x.done, Len(x.fed)) /\ x.shown <= Len(Heard(c, Len(x.fed)))
          /\ x.cut <= Len(x.fed)
      BY <3>1, <3>3, <3>4
    <3> HIDE DEF heard
    <3> QED BY <3>1, <3>2, <3>3, <3>4, <3>5, Zenon DEF Talks
  <2>13. Grows(cand, x)
    BY <2>5, <2>6 DEF Grows, k0
  <2> QED BY <2>12, <2>13
<1> QED BY <1>1, <1>2

\* StreamSession::flush: all that is heard is final.
LEMMA FlushedTalks ==
    ASSUME NEW c, NEW cand, c \in Channels, Talks(c, cand)
    PROVE  LET x == Flushed(c, cand) IN Talks(c, x) /\ Grows(cand, x) /\ Flush(c, x)
<1> DEFINE now == Len(cand.fed)
           done == cand.done
           heard == Heard(c, now)
           more == done \o SubSeq(heard, Len(done) + 1, Len(heard))
           x == Flushed(c, cand)
           s == Speech[c]
<1>1. /\ {"fed", "done", "shown", "cut"} \subseteq DOMAIN cand
      /\ IsSequence(cand.fed) /\ DoneIs(c, done, now)
      /\ cand.shown \in Int /\ Len(done) <= cand.shown /\ cand.shown <= Len(heard)
  BY DEF Talks
<1>2. now \in Nat /\ Len(done) \in Nat
  BY <1>1, SequenceShape DEF DoneIs
<1>3. /\ DOMAIN x = DOMAIN cand /\ x.fed = cand.fed /\ x.cut = now
      /\ x.shown = Len(heard) /\ x.done = more
  BY <1>1 DEF Flushed
<1> HIDE DEF x, now, done
<1>4. HeardIs(c, now, heard)
  BY <1>2, HeardShape
<1>5. Len(s) \in Nat /\ \A i \in 1..Len(s) : s[i].start \in Nat
  BY SpeechShape DEF SpeechIs
<1>6. /\ Len(heard) \in Nat /\ Len(heard) <= Len(s)
      /\ \A i \in 1..Len(s) : i <= Len(heard) <=> s[i].start < now
  BY <1>4, <1>5 DEF HeardIs
<1>7. Len(heard) \in Len(done)..Len(heard)
  <2> HIDE DEF heard
  <2> QED BY <1>1, <1>2, <1>6
<1>8. /\ DoneIs(c, more, now) /\ Len(more) = Len(heard)
      /\ Len(done) <= Len(heard) /\ \A i \in 1..Len(done) : more[i] = done[i]
  <2>1. now \in Nat /\ now <= now
    BY <1>2
  <2> QED BY <1>1, <1>7, <2>1, MoreDone
<1> HIDE DEF more, heard
<1>9. OpenFrom(c, more, now - Slack)
  <2>1. Slack \in Nat
    BY MultiStreamAssumption
  <2>2. \A i \in 1..Len(s) : i > Len(more) => s[i].start >= now - Slack
    <3> TAKE i \in 1..Len(s)
    <3> HAVE i > Len(more)
    <3>1. ~ (i <= Len(heard))
      BY <1>6, <1>8
    <3>2. ~ (s[i].start < now) /\ s[i].start \in Nat
      BY <1>5, <1>6, <3>1
    <3> HIDE DEF s
    <3> QED BY <1>2, <2>1, <3>2
  <2> QED BY <2>2 DEF OpenFrom
<1>10. Talks(c, x)
  <2>1. x.fed = cand.fed /\ Len(x.fed) = now /\ Heard(c, Len(x.fed)) = heard
    BY <1>3 DEF now, heard
  <2>2. now <= now /\ Len(heard) <= Len(heard) /\ Len(heard) \in Int /\ now \in Int
    BY <1>2, <1>6
  <2> QED BY <1>1, <1>3, <1>8, <1>9, <2>1, <2>2 DEF Talks
<1>11. Grows(cand, x)
  BY <1>3, <1>8 DEF Grows, done
<1>12. Flush(c, x)
  <2>1. Len(x.fed) = now /\ Heard(c, Len(x.fed)) = heard
    BY <1>3 DEF now, heard
  <2> QED BY <1>3, <1>8, <2>1 DEF Flush
<1> QED BY <1>10, <1>11, <1>12 DEF x

\* A session that went on from another.
Went(c, old, new) == Talks(c, new) /\ Grows(old, new)

AllWent(old, new) == \A c \in Channels : Went(c, old[c], new[c])

LEMMA WentOn ==
    ASSUME NEW c, NEW a, NEW b, NEW d, Went(c, a, b), Went(c, b, d), Talks(c, a)
    PROVE  Went(c, a, d)
<1>1. Len(a.done) \in Nat /\ Len(b.done) \in Nat /\ Len(d.done) \in Nat
  BY SequenceShape DEF Went, Talks, DoneIs
<1>2. /\ Len(a.done) <= Len(b.done) /\ Len(b.done) <= Len(d.done)
      /\ \A i \in 1..Len(a.done) : b.done[i] = a.done[i]
      /\ \A i \in 1..Len(b.done) : d.done[i] = b.done[i]
  BY DEF Went, Grows
<1>3. \A i \in 1..Len(a.done) : i \in 1..Len(b.done) /\ d.done[i] = a.done[i]
  BY <1>1, <1>2
<1>4. Len(a.done) <= Len(d.done)
  BY <1>1, <1>2
<1> QED BY <1>3, <1>4 DEF Went, Grows

\* The words do not depend on the adapter, nor on what is held back.
SameWords(a, b) == /\ {"fed", "done", "shown", "cut"} \subseteq DOMAIN b
                   /\ b.fed = a.fed /\ b.done = a.done /\ b.shown = a.shown /\ b.cut = a.cut

LEMMA SameWordsWent ==
    ASSUME NEW c, NEW cand, NEW x, Talks(c, cand), SameWords(cand, x)
    PROVE  Went(c, cand, x)
<1>1. Talks(c, x)
  BY Zenon DEF Talks, SameWords
<1>2. Len(cand.done) \in Nat
  BY SequenceShape DEF Talks, DoneIs
<1>3. Grows(cand, x)
  BY <1>2 DEF Grows, SameWords
<1> QED BY <1>1, <1>3 DEF Went

LEMMA StillWent ==
    ASSUME NEW c, NEW cand, Talks(c, cand)
    PROVE  Went(c, cand, cand)
BY SameWordsWent DEF SameWords, Talks

\* A call lets each session go on.
LEMMA OutcomesWent ==
    ASSUME NEW from, NEW cands, NEW does, NEW failing, NEW outcome,
           AllWent(from, cands),
           \A c \in Channels : c \in DOMAIN does =>
               \A x \in does[c] \union {failing[c]} : Went(c, from[c], x),
           outcome \in Outcomes(cands, does, failing)
    PROVE  AllWent(from, outcome.cands)
<1> SUFFICES ASSUME NEW c \in Channels PROVE Went(c, from[c], outcome.cands[c])
  BY DEF AllWent
<1>1. /\ c \notin DOMAIN does => outcome.cands[c] = cands[c]
      /\ c \in DOMAIN does => outcome.cands[c] \in does[c] \union {failing[c], cands[c]}
  BY OutcomesTouch
<1> QED BY <1>1 DEF AllWent

AllTalk(cands) == \A c \in Channels : Talks(c, cands[c])

\* push_buffered and finish_all_candidate_adapters.
LEMMA HeldWent ==
    ASSUME NEW cands, AllTalk(cands), NEW channels
    PROVE  AllWent(cands, Held(cands, channels)) /\ AllWent(cands, FinishAdapters(cands))
<1> SUFFICES ASSUME NEW c \in Channels
             PROVE  /\ Went(c, cands[c], Held(cands, channels)[c])
                    /\ Went(c, cands[c], FinishAdapters(cands)[c])
  BY DEF AllWent
<1> DEFINE cand == cands[c]
           x == Held(cands, channels)[c]
           y == FinishAdapters(cands)[c]
<1>1. Talks(c, cand) /\ {"fed", "done", "shown", "cut"} \subseteq DOMAIN cand
  BY DEF AllTalk, Talks
<1>2. SameWords(cand, x) /\ SameWords(cand, y)
  BY <1>1 DEF SameWords, Held, FinishAdapters
<1> HIDE DEF cand, x, y
<1>3. Went(c, cand, x) /\ Went(c, cand, y)
  BY <1>1, <1>2, SameWordsWent
<1> QED BY <1>3 DEF cand, x, y

\* release_pending.
LEMMA ReleaseWent ==
    ASSUME NEW cands, AllTalk(cands), NEW selection, NEW outcome,
           \A c \in Channels : IsSequence(cands[c].pending),
           outcome \in ReleasePending(cands, selection)
    PROVE  AllWent(cands, outcome.cands)
<1> DEFINE Cleared(candidate) == [candidate EXCEPT !.pending = <<>>]
           dropped == [c \in Channels |-> IF c \in selection THEN cands[c] ELSE Cleared(cands[c])]
           cleared == [c \in Channels |-> Cleared(cands[c])]
           does == [c \in selection |-> Pushes(c, cleared[c], cands[c].pending)]
<1>1. outcome \in Outcomes(dropped, does, cleared) /\ DOMAIN does = selection
  BY DEF ReleasePending
<1>2. ASSUME NEW c \in Channels
      PROVE  Went(c, cands[c], cands[c]) /\ Went(c, cands[c], Cleared(cands[c]))
  <2> DEFINE cand == cands[c]
             x == Cleared(cand)
  <2>1. Talks(c, cand) /\ {"fed", "done", "shown", "cut"} \subseteq DOMAIN cand
    BY DEF AllTalk, Talks
  <2>2. SameWords(cand, x)
    BY <2>1 DEF SameWords
  <2> HIDE DEF cand, x
  <2>3. Went(c, cand, cand) /\ Went(c, cand, x)
    BY <2>1, <2>2, SameWordsWent, StillWent
  <2> QED BY <2>3 DEF cand, x
<1>3. AllWent(cands, dropped)
  BY <1>2 DEF AllWent
<1>4. ASSUME NEW c \in Channels, c \in DOMAIN does, NEW x \in does[c] \union {cleared[c]}
      PROVE  Went(c, cands[c], x)
  <2> DEFINE cand == cands[c]
             y == Cleared(cand)
             audio == cand.pending
  <2>1. cleared[c] = y /\ does[c] = Pushes(c, y, audio) /\ IsSequence(audio)
    BY <1>1, <1>4
  <2>2. Talks(c, cand) /\ Went(c, cand, y)
    BY <1>2 DEF AllTalk
  <2>3. x = y \/ x \in Pushes(c, y, audio)
    BY <1>4, <2>1
  <2> HIDE DEF y, audio, cand
  <2>4. x \in Pushes(c, y, audio) => Went(c, y, x)
    BY <2>1, <2>2, PushesTalk DEF Went
  <2>5. Went(c, cand, x)
    BY <2>2, <2>3, <2>4, WentOn
  <2> QED BY <2>5 DEF cand
<1> HIDE DEF dropped, does, cleared
<1> QED BY <1>1, <1>3, <1>4, OutcomesWent

\* push_active.
LEMMA PushActiveWent ==
    ASSUME NEW cands, AllTalk(cands), NEW selection, NEW channels, NEW r, NEW w, NEW outcome,
           FeedsOnly(cands, selection, r, w), \A c \in Channels : IsSequence(channels[c + 1]),
           outcome \in PushActive(cands, selection, channels)
    PROVE  AllWent(cands, outcome.cands)
<1> DEFINE Through(c) == PushSamples(cands[c].adapter, channels[c + 1])
           does == [c \in selection |->
             Pushes(c, [cands[c] EXCEPT !.adapter = Through(c).state], Through(c).output)]
<1>1. outcome \in Outcomes(cands, does, cands) /\ DOMAIN does = selection
  BY DEF PushActive
<1>2. \A c \in Channels : Went(c, cands[c], cands[c])
  BY StillWent DEF AllTalk
<1>3. ASSUME NEW c \in Channels, c \in DOMAIN does, NEW x \in does[c] \union {cands[c]}
      PROVE  Went(c, cands[c], x)
  <2> DEFINE cand == cands[c]
             v == channels[c + 1]
             s == cand.adapter
             y == [cand EXCEPT !.adapter = PushSamples(s, v).state]
             audio == PushSamples(s, v).output
  <2>1. IsSequence(audio)
    <3>1. Feeding(cand, r, w[c]) /\ IsSequence(v)
      BY <1>1, <1>3 DEF FeedsOnly
    <3>2. IsStream(s, w[c])
      BY <3>1 DEF Feeding, Adapts
    <3> HIDE DEF s, v
    <3> QED BY <3>1, <3>2, ResamplerPush
  <2>2. x \in Pushes(c, y, audio) \/ x = cand
    BY <1>1, <1>3
  <2>a. Talks(c, cand) /\ {"fed", "done", "shown", "cut"} \subseteq DOMAIN cand
    BY DEF AllTalk, Talks
  <2>b. SameWords(cand, y)
    BY <2>a DEF SameWords
  <2> HIDE DEF y, audio, cand
  <2>3. Went(c, cand, y) /\ Went(c, cand, cand)
    BY <2>a, <2>b, SameWordsWent, StillWent
  <2>4. x \in Pushes(c, y, audio) => Went(c, y, x)
    BY <2>1, <2>3, PushesTalk DEF Went
  <2>5. Went(c, cand, x)
    BY <2>a, <2>2, <2>3, <2>4, WentOn
  <2> QED BY <2>5 DEF cand
<1>4. AllWent(cands, cands)
  BY <1>2 DEF AllWent
<1> HIDE DEF does
<1> QED BY <1>1, <1>3, <1>4, OutcomesWent

\* finish_active_sessions.
LEMMA FinishActiveWent ==
    ASSUME NEW cands, AllTalk(cands), NEW selection, NEW r, NEW w, NEW outcome,
           FeedsOnly(cands, selection, r, w), Count \in Nat \ {0},
           outcome \in FinishActive(cands, selection)
    PROVE  /\ AllWent(cands, outcome.cands)
           /\ ~outcome.failed =>
                \A c \in Channels : c \in selection => Flush(c, outcome.cands[c])
<1> DEFINE does == [c \in selection |->
             {Flushed(c, pushed) : pushed \in Pushes(c, cands[c], FinishSamples(cands[c].adapter))}]
<1>1. outcome \in Outcomes(cands, does, cands) /\ DOMAIN does = selection
  BY DEF FinishActive
<1>2. \A c \in Channels : Went(c, cands[c], cands[c])
  BY StillWent DEF AllTalk
<1>3. ASSUME NEW c \in Channels, c \in DOMAIN does, NEW x \in does[c]
      PROVE  Went(c, cands[c], x) /\ Flush(c, x)
  <2> DEFINE cand == cands[c]
             audio == FinishSamples(cand.adapter)
  <2>1. IsSequence(audio)
    <3>1. Feeding(cand, r, w[c])
      BY <1>1, <1>3 DEF FeedsOnly
    <3>2. IsStream(cand.adapter, w[c])
      BY <3>1 DEF Feeding, Adapts
    <3> QED BY <3>2, ResamplerFinish
  <2>2. PICK y \in Pushes(c, cand, audio) : x = Flushed(c, y)
    BY <1>1, <1>3
  <2>3. Talks(c, cand)
    BY DEF AllTalk
  <2> HIDE DEF audio, cand
  <2>4. Went(c, cand, y)
    BY <2>1, <2>3, PushesTalk DEF Went
  <2>5. Went(c, y, x) /\ Flush(c, x)
    BY <2>2, <2>4, FlushedTalks DEF Went
  <2>6. Went(c, cand, x)
    BY <2>3, <2>4, <2>5, WentOn
  <2> QED BY <2>5, <2>6 DEF cand
<1>4. AllWent(cands, cands)
  BY <1>2 DEF AllWent
<1> HIDE DEF does
<1>5. \A c \in Channels : c \in DOMAIN does =>
          \A x \in does[c] \union {cands[c]} : Went(c, cands[c], x)
  BY <1>2, <1>3
<1>6. AllWent(cands, outcome.cands)
  BY <1>1, <1>4, <1>5, OutcomesWent
<1>7. ASSUME NEW c, ~outcome.failed, c \in Channels, c \in selection
      PROVE  Flush(c, outcome.cands[c])
  <2>1. outcome.cands[c] \in does[c]
    BY <1>1, <1>7, OutcomesDone
  <2> QED BY <1>1, <1>3, <1>7, <2>1
<1> QED BY <1>6, <1>7

\* flush_active_sessions.
LEMMA FlushActiveWent ==
    ASSUME NEW cands, AllTalk(cands), NEW selection, NEW outcome, Count \in Nat \ {0},
           outcome \in FlushActive(cands, selection)
    PROVE  /\ AllWent(cands, outcome.cands)
           /\ ~outcome.failed =>
                \A c \in Channels : c \in selection => Flush(c, outcome.cands[c])
<1> DEFINE does == [c \in selection |-> {Flushed(c, cands[c])}]
<1>1. outcome \in Outcomes(cands, does, cands) /\ DOMAIN does = selection
  BY DEF FlushActive
<1>2. \A c \in Channels : Went(c, cands[c], cands[c])
  BY StillWent DEF AllTalk
<1>3. ASSUME NEW c \in Channels, c \in DOMAIN does, NEW x \in does[c]
      PROVE  Went(c, cands[c], x) /\ Flush(c, x)
  <2>1. x = Flushed(c, cands[c])
    BY <1>3
  <2> QED BY <2>1, FlushedTalks DEF AllTalk, Went
<1>4. AllWent(cands, cands)
  BY <1>2 DEF AllWent
<1> HIDE DEF does
<1>5. \A c \in Channels : c \in DOMAIN does =>
          \A x \in does[c] \union {cands[c]} : Went(c, cands[c], x)
  BY <1>2, <1>3
<1>6. AllWent(cands, outcome.cands)
  BY <1>1, <1>4, <1>5, OutcomesWent
<1>7. ASSUME NEW c, ~outcome.failed, c \in Channels, c \in selection
      PROVE  Flush(c, outcome.cands[c])
  <2>1. outcome.cands[c] \in does[c]
    BY <1>1, <1>7, OutcomesDone
  <2> QED BY <1>1, <1>3, <1>7, <2>1
<1> QED BY <1>6, <1>7

-----------------------------------------------------------------------------
(* The turns of one channel: one for every start (SegmentIs), and what it    *)
(* says, which more words leave as it is (TurnIs, TurnCarries).              *)

\* Where turns begin in a sequence of words.
Starts(w) == {i \in 1..Len(w) : i > 1 => w[i].start - w[i - 1].end >= TurnGap}

StartsBelow(w, p) == {i \in Starts(w) : i < p}

\* The words p to q make a turn.
Span(w, p, q) ==
    /\ p \in Starts(w) /\ q \in p..Len(w)
    /\ \A i \in Starts(w) : ~ (p < i /\ i <= q)
    /\ q = Len(w) \/ q + 1 \in Starts(w)

Turn(m, c, w, p, q) == FinishTurn(m, c, Cardinality(StartsBelow(w, p)), SubSeq(w, p, q))

\* The words of a channel's snapshot.
WordsAre(c, cand, w) ==
    /\ IsSequence(w) /\ Len(w) \in Nat /\ Len(w) = cand.shown
    /\ Len(cand.done) \in Nat /\ Len(cand.done) <= Len(w) /\ Len(w) <= Len(Speech[c])
    /\ \A i \in 1..Len(w) :
         /\ w[i].start = Speech[c][i].start /\ w[i].text = Speech[c][i].text
         /\ w[i].start \in Nat /\ w[i].end \in Int
         /\ w[i].start < w[i].end /\ w[i].end <= Len(cand.fed)
         /\ w[i].final = (i <= Len(cand.done)) /\ w[i].stable = (i <= Len(cand.done))
    /\ \A i \in 1..Len(cand.done) :
         w[i].start = cand.done[i].start /\ w[i].end = cand.done[i].end
    /\ \A i, j \in 1..Len(w) : i <= j => w[i].start <= w[j].start

Words(c, cand) == Snapshot(c, cand).words

LEMMA WordsShape ==
    ASSUME NEW c, NEW cand, c \in Channels, Talks(c, cand)
    PROVE  WordsAre(c, cand, Words(c, cand))
<1> DEFINE heard == Heard(c, Len(cand.fed))
           done  == cand.done
           d == Len(done)
           n == cand.shown
           Mark(x, f) == [start |-> x.start, end |-> x.end, text |-> x.text,
                          final |-> f, stable |-> f]
           w == [i \in 1..n |-> IF i <= d THEN Mark(done[i], TRUE) ELSE Mark(heard[i], FALSE)]
           s == Speech[c]
           now == Len(cand.fed)
<1>1. /\ IsSequence(cand.fed) /\ IsSequence(done) /\ n \in Int /\ d <= n /\ n <= Len(heard)
      /\ \A i \in 1..d :
         /\ done[i].start = s[i].start /\ done[i].text = s[i].text
         /\ done[i].end \in Int /\ done[i].start < done[i].end /\ done[i].end <= now
  BY DEF Talks, DoneIs
<1>2. now \in Nat /\ d \in Nat
  BY <1>1, SequenceShape
<1>3. HeardIs(c, now, heard)
  BY <1>2, HeardShape
<1>4. /\ Len(s) \in Nat /\ \A i \in 1..Len(s) : s[i].start \in Nat
      /\ \A i, j \in 1..Len(s) : i <= j => s[i].start <= s[j].start
  BY SpeechShape DEF SpeechIs
<1>5. Words(c, cand) = w
  BY DEF Words, Snapshot
<1> HIDE DEF heard, now, s, d, done, n
<1>6. /\ Len(heard) \in Nat /\ Len(heard) <= Len(s)
      /\ \A i \in 1..Len(heard) :
         /\ heard[i].start = s[i].start /\ heard[i].text = s[i].text
         /\ heard[i].end \in Int /\ heard[i].start < heard[i].end /\ heard[i].end <= now
  BY <1>3, <1>4 DEF HeardIs, s
<1>7. n \in Nat /\ n <= Len(s)
  BY <1>1, <1>2, <1>4, <1>6
<1>8. IsSequence(w) /\ Len(w) = n
  <2>1. DOMAIN w = 1..n /\ w = [i \in DOMAIN w |-> w[i]]
    OBVIOUS
  <2> HIDE DEF w
  <2> QED BY <1>7, <2>1, FunctionIsSequence
<1>9. ASSUME NEW i \in 1..n
      PROVE  /\ w[i].start = s[i].start /\ w[i].text = s[i].text
             /\ w[i].start \in Nat /\ w[i].end \in Int
             /\ w[i].start < w[i].end /\ w[i].end <= now
             /\ w[i].final = (i <= d) /\ w[i].stable = (i <= d)
             /\ i <= d => w[i].start = done[i].start /\ w[i].end = done[i].end
  <2>0. s[i].start \in Nat
    BY <1>4, <1>7
  <2>1. CASE i <= d
    <3>1. w[i] = Mark(done[i], TRUE) /\ i \in 1..d
      BY <1>2, <2>1
    <3> HIDE DEF w
    <3>2. /\ w[i].start = done[i].start /\ w[i].text = done[i].text /\ w[i].end = done[i].end
          /\ w[i].final = TRUE /\ w[i].stable = TRUE
      BY <3>1
    <3> QED BY <1>1, <2>0, <2>1, <3>1, <3>2
  <2>2. CASE ~ (i <= d)
    <3>1. w[i] = Mark(heard[i], FALSE) /\ i \in 1..Len(heard)
      BY <1>1, <1>6, <1>7, <2>2
    <3> HIDE DEF w
    <3>2. /\ w[i].start = heard[i].start /\ w[i].text = heard[i].text /\ w[i].end = heard[i].end
          /\ w[i].final = FALSE /\ w[i].stable = FALSE
      BY <3>1
    <3>3. (i <= d) = FALSE
      BY <2>2
    <3> QED BY <1>6, <2>0, <3>1, <3>2, <3>3
  <2> QED BY <2>1, <2>2
<1> HIDE DEF w
<1>10. \A i, j \in 1..n : i <= j => w[i].start <= w[j].start
  <2> TAKE i, j \in 1..n
  <2>1. i \in 1..Len(s) /\ j \in 1..Len(s) /\ w[i].start = s[i].start /\ w[j].start = s[j].start
    BY <1>4, <1>7, <1>9
  <2> QED BY <1>4, <2>1
<1>11. \A i \in 1..d : w[i].start = done[i].start /\ w[i].end = done[i].end
  BY <1>1, <1>2, <1>7, <1>9
<1>12. \A i \in 1..n : /\ w[i].start = s[i].start /\ w[i].text = s[i].text
             /\ w[i].start \in Nat /\ w[i].end \in Int
             /\ w[i].start < w[i].end /\ w[i].end <= now
             /\ w[i].final = (i <= d) /\ w[i].stable = (i <= d)
  BY <1>9
<1> QED BY <1>1, <1>2, <1>5, <1>7, <1>8, <1>10, <1>11, <1>12, Zenon
        DEF WordsAre, n, d, done, now, s

\* Turns begin where they did when more words come.
LEMMA StartsStay ==
    ASSUME NEW a, NEW b, Len(a) \in Nat, Len(b) \in Nat, Len(a) <= Len(b),
           \A i \in 1..Len(a) : a[i].start = b[i].start /\ a[i].end = b[i].end
    PROVE  /\ Starts(a) = {i \in Starts(b) : i <= Len(a)}
           /\ \A p \in 1..Len(a) : StartsBelow(a, p) = StartsBelow(b, p)
<1>1. ASSUME NEW i \in 1..Len(a)
      PROVE  i \in 1..Len(b) /\ (i \in Starts(a) <=> i \in Starts(b))
  <2>1. i \in 1..Len(b) /\ (i > 1 => i - 1 \in 1..Len(a))
    OBVIOUS
  <2>2. a[i].start = b[i].start /\ (i > 1 => a[i - 1].end = b[i - 1].end)
    BY <2>1
  <2> QED BY <2>1, <2>2 DEF Starts
<1>2. Starts(a) = {i \in Starts(b) : i <= Len(a)}
  <2>1. \A i \in Starts(a) : i \in 1..Len(a)
    BY DEF Starts
  <2>2. \A i \in Starts(b) : i <= Len(a) => i \in 1..Len(a)
    BY DEF Starts
  <2> QED BY <1>1, <2>1, <2>2
<1>3. \A p \in 1..Len(a) : StartsBelow(a, p) = StartsBelow(b, p)
  <2> TAKE p \in 1..Len(a)
  <2>1. \A i \in Starts(b) : i < p => i <= Len(a)
    BY DEF Starts
  <2>2. \A i \in Starts(a) : i \in Starts(b)
    BY <1>2
  <2>3. \A i \in Starts(b) : i < p => i \in Starts(a)
    BY <1>2, <2>1
  <2> QED BY <2>2, <2>3 DEF StartsBelow
<1> QED BY <1>2, <1>3

LEMMA StartsShape ==
    ASSUME NEW w, Len(w) \in Nat
    PROVE  /\ Starts(w) \in SUBSET Int /\ IsFiniteSet(Starts(w))
           /\ \A i \in Starts(w) : i \in 1..Len(w)
           /\ \A p : IsFiniteSet(StartsBelow(w, p)) /\ Cardinality(StartsBelow(w, p)) \in Nat
           /\ 1 <= Len(w) => 1 \in Starts(w)
<1>1. 1 \in Int /\ Len(w) \in Int
  OBVIOUS
<1>2. IsFiniteSet(1..Len(w))
  BY <1>1, FS_Interval
<1>3. Starts(w) \in SUBSET (1..Len(w))
  BY DEF Starts
<1>4. IsFiniteSet(Starts(w))
  BY <1>2, <1>3, FS_Subset
<1>5. \A p : IsFiniteSet(StartsBelow(w, p)) /\ Cardinality(StartsBelow(w, p)) \in Nat
  <2> TAKE p
  <2>1. StartsBelow(w, p) \in SUBSET Starts(w)
    BY DEF StartsBelow
  <2> QED BY <1>4, <2>1, FS_Subset, FS_CardinalityType
<1>6. 1 <= Len(w) => 1 \in Starts(w)
  BY DEF Starts
<1>7. Starts(w) \in SUBSET Int /\ \A i \in Starts(w) : i \in 1..Len(w)
  BY <1>3
<1> QED BY <1>4, <1>5, <1>6, <1>7

\* The starts below a later start are more.
LEMMA StartsRank ==
    ASSUME NEW w, Len(w) \in Nat, NEW p \in Starts(w), NEW q \in Starts(w)
    PROVE  /\ p < q <=> Cardinality(StartsBelow(w, p)) < Cardinality(StartsBelow(w, q))
           /\ Cardinality(StartsBelow(w, p)) = Cardinality(StartsBelow(w, q)) => p = q
<1> DEFINE S == Starts(w)
           r(x) == Rank(S, Smaller(S), x)
           a == Ascending(S)
<1>1. S \in SUBSET Int /\ IsFiniteSet(S)
  BY StartsShape
<1> HIDE DEF S
<1>2. /\ Lists(S, Smaller(S), a)
      /\ \A x \in S : Rank(S, Smaller(S), x) = Cardinality({y \in S : y < x})
  BY <1>1, AscendingLists
<1>3. p \in S /\ q \in S /\ p \in Int /\ q \in Int
  BY <1>1 DEF S
<1>4. /\ r(p) + 1 \in 1..Len(a) /\ a[r(p) + 1] = p
      /\ r(q) + 1 \in 1..Len(a) /\ a[r(q) + 1] = q
      /\ r(p) + 1 < r(q) + 1 <=> <<p, q>> \in Smaller(S)
  <2>1. /\ r(p) + 1 \in 1..Len(a) /\ a[r(p) + 1] = p
        /\ r(q) + 1 \in 1..Len(a) /\ a[r(q) + 1] = q
    BY <1>2, <1>3 DEF Lists
  <2>2. \A i, j \in 1..Len(a) : i < j <=> <<a[i], a[j]>> \in Smaller(S)
    BY <1>2 DEF Lists
  <2> HIDE DEF r, a
  <2> QED BY <2>1, <2>2, Zenon
<1>5. <<p, q>> \in Smaller(S) <=> p < q
  BY <1>3 DEF Smaller
<1>6. r(p) = Cardinality(StartsBelow(w, p)) /\ r(q) = Cardinality(StartsBelow(w, q))
  BY <1>2, <1>3 DEF StartsBelow, S
<1>7. r(p) \in Int /\ r(q) \in Int
  BY <1>6, StartsShape
<1> HIDE DEF r, a
<1>8. p < q <=> r(p) < r(q)
  BY <1>4, <1>5, <1>7
<1>9. r(p) = r(q) => p = q
  BY <1>4
<1> QED BY <1>6, <1>8, <1>9

\* segment: a turn for every start, and nothing else.
SegmentIs(m, snapshot, c, w) ==
    LET turns == ToSet(Segment(m, snapshot))
    IN  /\ IsFiniteSet(turns)
        /\ \A t \in turns : \E p, q : Span(w, p, q) /\ t = Turn(m, c, w, p, q)
        /\ \A p \in Starts(w) : \E q : Span(w, p, q) /\ Turn(m, c, w, p, q) \in turns

LEMMA SegmentShape ==
    ASSUME NEW m, NEW snapshot, NEW c, NEW w, IsSequence(w),
           snapshot.channel = c, snapshot.words = w
    PROVE  SegmentIs(m, snapshot, c, w)
<1> DEFINE S == Starts(w)
           first == Ascending(S)
           n == Len(first)
           Last_(k) == IF k = n THEN Len(w) ELSE first[k + 1] - 1
           T(k) == FinishTurn(m, c, k - 1, SubSeq(w, first[k], Last_(k)))
           segment == Segment(m, snapshot)
<1>1. Len(w) \in Nat /\ DOMAIN w = 1..Len(w)
  BY SequenceShape
<1>2. S \in SUBSET Int /\ IsFiniteSet(S) /\ \A i \in S : i \in 1..Len(w)
  BY <1>1, StartsShape
<1>3. segment = [k \in DOMAIN first |-> T(k)]
  <2>1. S = {i \in DOMAIN w : i > 1 => w[i].start - w[i - 1].end >= TurnGap}
    BY <1>1 DEF Starts
  <2> QED BY <2>1, Zenon DEF Segment
<1> HIDE DEF S, segment
<1>4. /\ Lists(S, Smaller(S), first)
      /\ \A x \in S : Rank(S, Smaller(S), x) = Cardinality({y \in S : y < x})
  BY <1>2, AscendingLists
<1> HIDE DEF first, n
<1>5. /\ n \in Nat /\ DOMAIN first = 1..n
      /\ \A k \in 1..n : first[k] \in S /\ Cardinality({y \in S : y < first[k]}) = k - 1
      /\ \A i, j \in 1..n : i < j <=> first[i] < first[j]
      /\ \A x \in S : \E k \in 1..n : first[k] = x
  <2>1. /\ IsSequence(first) /\ n \in Nat
        /\ \A k \in 1..n : first[k] \in S /\ Rank(S, Smaller(S), first[k]) = k - 1
        /\ \A x \in S : Rank(S, Smaller(S), x) + 1 \in 1..n
                        /\ first[Rank(S, Smaller(S), x) + 1] = x
        /\ \A i, j \in 1..n : i < j <=> <<first[i], first[j]>> \in Smaller(S)
    BY <1>4 DEF Lists, n
  <2>2. DOMAIN first = 1..n
    BY <2>1, SequenceShape DEF n
  <2>3. \A i, j \in 1..n : <<first[i], first[j]>> \in Smaller(S) <=> first[i] < first[j]
    BY <2>1 DEF Smaller
  <2>4. \A k \in 1..n : Cardinality({y \in S : y < first[k]}) = k - 1
    BY <1>4, <2>1
  <2> QED BY <2>1, <2>2, <2>3, <2>4
<1>6. ASSUME NEW k \in 1..n
      PROVE  Span(w, first[k], Last_(k)) /\ T(k) = Turn(m, c, w, first[k], Last_(k))
  <2> DEFINE p == first[k]
             q == Last_(k)
  <2>1. p \in S /\ p \in 1..Len(w)
    BY <1>2, <1>5
  <2>2. k # n => k + 1 \in 1..n /\ first[k + 1] \in S /\ first[k + 1] \in 1..Len(w)
                 /\ p < first[k + 1]
    <3>1. k # n => k + 1 \in 1..n /\ k < k + 1
      BY <1>5
    <3> QED BY <1>2, <1>5, <3>1
  <2>3. q \in p..Len(w)
    BY <1>1, <2>1, <2>2
  <2>4. ASSUME NEW i \in S, p < i, i <= q PROVE FALSE
    <3>1. PICK j \in 1..n : first[j] = i
      BY <1>5
    <3>2. k < j /\ k # n /\ j \in Int /\ k \in Int
      BY <1>5, <2>4, <3>1
    <3>3. j = k + 1 \/ k + 1 < j
      BY <3>2
    <3>4. first[k + 1] <= i
      <4>1. first[k + 1] \in Int /\ i \in Int
        BY <1>2, <2>2, <3>2
      <4>2. CASE j = k + 1
        BY <3>1, <4>1, <4>2
      <4>3. CASE k + 1 < j
        BY <1>5, <2>2, <3>1, <3>2, <4>1, <4>3
      <4> QED BY <3>3, <4>2, <4>3
    <3>5. q = first[k + 1] - 1
      BY <3>2
    <3> QED BY <1>2, <2>2, <2>4, <3>2, <3>4, <3>5
  <2>5. q = Len(w) \/ q + 1 \in S
    BY <1>2, <2>2
  <2>6. Span(w, p, q)
    BY <2>1, <2>3, <2>4, <2>5 DEF Span, S
  <2>7. Cardinality(StartsBelow(w, p)) = k - 1
    BY <1>5 DEF StartsBelow, S
  <2>8. T(k) = Turn(m, c, w, p, q)
    BY <2>7 DEF Turn
  <2> QED BY <2>6, <2>8
<1> HIDE DEF T, Last_
<1>7. ToSet(segment) = {T(k) : k \in 1..n}
  BY <1>3, <1>5 DEF ToSet
<1>8. IsFiniteSet(ToSet(segment))
  <2>1. 1 \in Int /\ n \in Int
    BY <1>5
  <2>2. IsFiniteSet(1..n)
    BY <2>1, FS_Interval
  <2> DEFINE f == [k \in 1..n |-> T(k)]
  <2>3. f \in Surjection(1..n, {T(k) : k \in 1..n})
    BY DEF Surjection
  <2> HIDE DEF f
  <2> QED BY <1>7, <2>2, <2>3, FS_Surjection
<1>9. \A t \in ToSet(segment) : \E p, q : Span(w, p, q) /\ t = Turn(m, c, w, p, q)
  BY <1>6, <1>7
<1>10. \A p \in S : \E q : Span(w, p, q) /\ Turn(m, c, w, p, q) \in ToSet(segment)
  <2> TAKE p \in S
  <2>1. PICK k \in 1..n : first[k] = p
    BY <1>5
  <2>2. T(k) \in ToSet(segment)
    BY <1>7
  <2> QED BY <1>6, <2>1, <2>2
<1> QED BY <1>8, <1>9, <1>10 DEF SegmentIs, segment, S

IsTurn(t) ==
    t = [channel |-> t.channel, index |-> t.index, start |-> t.start, end |-> t.end,
         text |-> t.text, final |-> t.final, stable |-> t.stable,
         backchannel |-> t.backchannel]

\* A turn that begins at a word p and goes on to a word q of the same turn.
Stretch(w, p, q) ==
    /\ p \in Starts(w) /\ q \in p..Len(w)
    /\ \A i \in Starts(w) : ~ (p < i /\ i <= q)

\* What a turn says of the words p to q of a channel.
TurnIs(t, c, w, p, q) ==
    /\ IsTurn(t) /\ t.channel = c /\ t.index = Cardinality(StartsBelow(w, p))
    /\ t.start = w[p].start
    /\ t.end \in {w[i].end : i \in p..q} /\ \A i \in p..q : w[i].end <= t.end
    /\ t.text = [k \in 1..(q - p + 1) |-> w[p + k - 1].text]

LEMMA TurnFields ==
    ASSUME NEW m, NEW c, NEW cand, NEW w, WordsAre(c, cand, w), NEW p, NEW q, Span(w, p, q),
           Len(cand.fed) \in Nat
    PROVE  LET t == Turn(m, c, w, p, q)
           IN  /\ Stretch(w, p, q) /\ TurnIs(t, c, w, p, q) /\ t.backchannel = FALSE
               /\ t.final = (q <= Len(cand.done) /\ t.end <= m.final)
               /\ t.final => t.stable
<1> DEFINE words == SubSeq(w, p, q)
           n == q - p + 1
           start == words[1].start
           ends == {words[i].end : i \in DOMAIN words}
           end == Max({start} \union ends)
           d == Len(cand.done)
           now == Len(cand.fed)
           t == Turn(m, c, w, p, q)
           final == (\A i \in DOMAIN words : words[i].final) /\ end <= m.final
<1>1. /\ IsSequence(w) /\ Len(w) \in Nat /\ d \in Nat /\ now \in Nat
      /\ \A i \in 1..Len(w) :
           /\ w[i].start \in Nat /\ w[i].end \in Int /\ w[i].start < w[i].end
           /\ w[i].end <= now /\ w[i].final = (i <= d)
  BY DEF WordsAre
<1>2. p \in 1..Len(w) /\ q \in p..Len(w) /\ n \in Nat /\ 1 <= n /\ p \in Int /\ q \in Int
  BY <1>1 DEF Span, Starts
<1>3. /\ IsSequence(words) /\ Len(words) = n /\ DOMAIN words = 1..n
      /\ \A i \in 1..n : words[i] = w[p + i - 1]
  <2>1. q \in 0..Len(w) /\ p - 1 \in 0..q /\ (p - 1) + 1 = p /\ q - (p - 1) = n
        /\ \A i \in 1..n : (p - 1) + i = p + i - 1
    BY <1>1, <1>2
  <2> DEFINE o == p - 1
             part == SubSeq(w, o + 1, q)
  <2>2. /\ IsSequence(part) /\ Len(part) = q - o
        /\ \A i \in 1..(q - o) : part[i] = w[o + i]
    <3> HIDE DEF o
    <3> QED BY <1>1, <2>1, Part DEF o
  <2>3. part = words /\ q - o = n /\ \A i \in 1..n : o + i = p + i - 1
    BY <2>1
  <2> HIDE DEF part, o, words, n
  <2>4. IsSequence(words) /\ Len(words) = n /\ \A i \in 1..n : words[i] = w[p + i - 1]
    BY <2>2, <2>3
  <2> QED BY <2>4, SequenceShape
<1>4. t = DialogTurn(c, Cardinality(StartsBelow(w, p)), start, end, words, final, t.stable)
      /\ (final => t.stable)
  BY Zenon DEF Turn, FinishTurn, DialogTurn
<1> HIDE DEF words, end, t, final
<1>5. \A i \in 1..n : p + i - 1 \in 1..Len(w) /\ p + i - 1 \in p..q
  BY <1>1, <1>2
<1>6. \A i \in p..q : i - p + 1 \in 1..n /\ p + (i - p + 1) - 1 = i /\ i \in 1..Len(w)
  BY <1>1, <1>2
<1> HIDE DEF n
<1>7. start = w[p].start /\ start \in Nat /\ start < words[1].end
  <2>1. 1 \in 1..n /\ p + 1 - 1 = p
    BY <1>2
  <2>2. words[1] = w[p]
    BY <1>3, <2>1
  <2> QED BY <1>1, <1>2, <2>2
<1>8. ends = {w[i].end : i \in p..q}
  <2>1. \A x \in ends : \E i \in p..q : x = w[i].end
    BY <1>3, <1>5
  <2>2. \A i \in p..q : words[i - p + 1].end = w[i].end /\ i - p + 1 \in DOMAIN words
    <3> TAKE i \in p..q
    <3> DEFINE j == i - p + 1
    <3>1. j \in 1..n /\ p + j - 1 = i
      BY <1>6
    <3> HIDE DEF j
    <3>2. words[j] = w[i] /\ j \in DOMAIN words
      BY <1>3, <3>1
    <3> QED BY <3>2 DEF j
  <2>3. \A i \in p..q : w[i].end \in ends
    BY <2>2, Zenon
  <2> HIDE DEF ends
  <2> QED BY <2>1, <2>3
<1>9. end \in ends /\ \A x \in ends : x <= end
  <2>1. ends \in SUBSET (1..now) /\ ends # {}
    <3>1. \A i \in p..q : w[i].end \in 1..now
      BY <1>1, <1>6
    <3>2. p \in p..q
      BY <1>1, <1>2
    <3> QED BY <1>8, <3>1, <3>2
  <2>2. words[1].end \in ends
    <3>1. 1 \in DOMAIN words
      <4> HIDE DEF ends, start
      <4> QED BY <1>2, <1>3
    <3> QED BY <3>1, Zenon
  <2>a. \A x \in ends : x \in Int
    <3>1. now \in Int
      BY <1>1
    <3> HIDE DEF ends, start, now
    <3>2. \A x \in 1..now : x \in Int
      BY <3>1
    <3> QED BY <2>1, <3>2, Zenon
  <2> HIDE DEF ends, start
  <2>3. Max(ends) \in ends /\ \A x \in ends : x <= Max(ends)
    BY <1>1, <2>1, GreatestExists
  <2> DEFINE e == Max(ends)
             all == {start} \union ends
  <2>4. e \in all /\ e \in Int /\ start < e /\ \A x \in all : x \in Int /\ e >= x
    <3>1. e \in Int /\ words[1].end \in Int /\ words[1].end <= e /\ start \in Int
      BY <1>7, <2>a, <2>2, <2>3
    <3> QED BY <1>7, <2>a, <2>3, <3>1
  <2> HIDE DEF e, all
  <2>5. end \in all /\ \A x \in all : end >= x
    <3>1. \E x \in all : \A y \in all : x >= y
      BY <2>4
    <3>2. end = CHOOSE x \in all : \A y \in all : x >= y
      BY DEF end, Max, all
    <3> QED BY <3>1, <3>2
  <2>6. end # start
    BY <2>4, <2>5
  <2>7. \A x \in ends : x \in all
    BY DEF all
  <2>8. end \in ends
    BY <2>5, <2>6 DEF all
  <2>9. \A x \in ends : x <= end
    BY <2>4, <2>5, <2>7
  <2> QED BY <2>8, <2>9
<1>10. (\A i \in DOMAIN words : words[i].final) <=> q <= d
  <2>1. ASSUME q <= d, NEW i \in DOMAIN words PROVE words[i].final
    <3>1. words[i] = w[p + i - 1] /\ p + i - 1 \in 1..Len(w) /\ p + i - 1 \in p..q
      BY <1>3, <1>5
    <3> DEFINE j == p + i - 1
    <3>2. j <= d /\ j \in 1..Len(w)
      BY <1>1, <1>2, <2>1, <3>1
    <3> HIDE DEF j
    <3>3. w[j].final
      BY <1>1, <3>2
    <3> QED BY <3>1, <3>3 DEF j
  <2>2. ASSUME \A i \in DOMAIN words : words[i].final PROVE q <= d
    <3>1. n \in DOMAIN words /\ p + n - 1 = q
      BY <1>2, <1>3 DEF n
    <3>2. words[n] = w[q] /\ q \in 1..Len(w)
      BY <1>1, <1>2, <1>3, <3>1
    <3> QED BY <1>1, <2>2, <3>1, <3>2
  <2> QED BY <2>1, <2>2
<1>11. final = (q <= d /\ end <= m.final)
  BY <1>10 DEF final
<1>12. [i \in DOMAIN words |-> words[i].text] = [k \in 1..n |-> w[p + k - 1].text]
  BY <1>3
<1>13. /\ IsTurn(t) /\ t.channel = c /\ t.index = Cardinality(StartsBelow(w, p))
       /\ t.start = start /\ t.end = end /\ t.final = final /\ t.backchannel = FALSE
       /\ t.text = [i \in DOMAIN words |-> words[i].text]
  <2> DEFINE stable == t.stable
             text == [i \in DOMAIN words |-> words[i].text]
             rank == Cardinality(StartsBelow(w, p))
  <2>1. t = [channel |-> c, index |-> rank, start |-> start, end |-> end, text |-> text,
             final |-> final, stable |-> stable, backchannel |-> FALSE]
    BY <1>4, Zenon DEF DialogTurn
  <2> HIDE DEF stable, text, rank, start
  <2>2. /\ t.channel = c /\ t.index = rank
        /\ t.start = start /\ t.end = end /\ t.final = final /\ t.backchannel = FALSE
        /\ t.text = text /\ t.stable = stable
    BY <2>1
  <2>3. IsTurn(t)
    BY <2>1, <2>2 DEF IsTurn
  <2> QED BY <2>2, <2>3 DEF text, rank, start
<1> HIDE DEF ends, start
<1>14. TurnIs(t, c, w, p, q)
  <2>1. t.end \in {w[i].end : i \in p..q}
    BY <1>8, <1>9, <1>13
  <2>2. \A i \in p..q : w[i].end <= t.end
    BY <1>8, <1>9, <1>13
  <2>3. t.text = [k \in 1..(q - p + 1) |-> w[p + k - 1].text]
    BY <1>12, <1>13 DEF n
  <2> QED BY <1>7, <1>13, <2>1, <2>2, <2>3 DEF TurnIs
<1>15. Stretch(w, p, q)
  BY DEF Stretch, Span
<1>16. t.final = (q <= d /\ t.end <= m.final) /\ (t.final => t.stable)
  BY <1>4, <1>11, <1>13
<1> QED BY <1>13, <1>14, <1>15, <1>16 DEF t, d

-----------------------------------------------------------------------------
(* The place of a turn is the number of starts before it in all channels, and *)
(* no word that is still open becomes one of them behind the frontier: a     *)
(* final turn's place stays (PrecedingStays).                                *)

\* Words that go on from others.
Agree(a, b) ==
    /\ Len(a) \in Nat /\ Len(b) \in Nat /\ Len(a) <= Len(b)
    /\ \A i \in 1..Len(a) : /\ a[i].start = b[i].start /\ a[i].end = b[i].end
                            /\ a[i].text = b[i].text

\* What was said of words stays true when others follow.
LEMMA TurnCarries ==
    ASSUME NEW a, NEW b, Agree(a, b), NEW p, NEW q, q <= Len(a)
    PROVE  /\ Stretch(a, p, q) <=> Stretch(b, p, q)
           /\ \A t, c : Stretch(a, p, q) => (TurnIs(t, c, a, p, q) <=> TurnIs(t, c, b, p, q))
<1>1. /\ Len(a) \in Nat /\ Len(b) \in Nat /\ Len(a) <= Len(b)
      /\ \A i \in 1..Len(a) : /\ a[i].start = b[i].start /\ a[i].end = b[i].end
                              /\ a[i].text = b[i].text
  BY DEF Agree
<1>2. /\ Starts(a) = {i \in Starts(b) : i <= Len(a)}
      /\ \A r \in 1..Len(a) : StartsBelow(a, r) = StartsBelow(b, r)
  BY <1>1, StartsStay
<1>3. \A i \in Starts(b) : i \in 1..Len(b)
  BY DEF Starts
<1>4. Stretch(a, p, q) => Stretch(b, p, q)
  <2> SUFFICES ASSUME Stretch(a, p, q) PROVE Stretch(b, p, q)
    OBVIOUS
  <2>1. p \in Starts(a) /\ q \in p..Len(a) /\ \A i \in Starts(a) : ~ (p < i /\ i <= q)
    BY DEF Stretch
  <2>2. p \in Starts(b) /\ q \in p..Len(b)
    BY <1>1, <1>2, <1>3, <2>1
  <2>3. \A i \in Starts(b) : i <= q => i <= Len(a)
    BY <1>1, <1>3, <2>2
  <2>4. \A i \in Starts(b) : ~ (p < i /\ i <= q)
    BY <1>2, <2>1, <2>3
  <2> QED BY <2>2, <2>4 DEF Stretch
<1>5. Stretch(b, p, q) => Stretch(a, p, q)
  <2> SUFFICES ASSUME Stretch(b, p, q) PROVE Stretch(a, p, q)
    OBVIOUS
  <2>1. p \in Starts(b) /\ q \in p..Len(b) /\ \A i \in Starts(b) : ~ (p < i /\ i <= q)
    BY DEF Stretch
  <2>2. p \in 1..Len(b) /\ p <= Len(a)
    BY <1>1, <1>3, <2>1
  <2>3. p \in Starts(a) /\ q \in p..Len(a)
    BY <1>1, <1>2, <2>1, <2>2
  <2>4. \A i \in Starts(a) : i \in Starts(b)
    BY <1>2
  <2> QED BY <2>1, <2>3, <2>4 DEF Stretch
<1>6. ASSUME NEW t, NEW c, Stretch(a, p, q)
      PROVE  TurnIs(t, c, a, p, q) <=> TurnIs(t, c, b, p, q)
  <2>1. p \in 1..Len(a) /\ q \in p..Len(a)
    <3>1. p \in Starts(a) /\ q \in p..Len(a)
      BY <1>6 DEF Stretch
    <3> QED BY <3>1 DEF Starts
  <2>2. \A i \in p..q : i \in 1..Len(a) /\ a[i].end = b[i].end
    BY <1>1, <2>1
  <2>3. \A k \in 1..(q - p + 1) : a[p + k - 1].text = b[p + k - 1].text
    <3> TAKE k \in 1..(q - p + 1)
    <3> DEFINE i == p + k - 1
    <3>1. i \in 1..Len(a)
      BY <1>1, <2>1
    <3> HIDE DEF i
    <3>2. a[i].text = b[i].text
      BY <1>1, <3>1
    <3> QED BY <3>2 DEF i
  <2>4. [k \in 1..(q - p + 1) |-> a[p + k - 1].text] = [k \in 1..(q - p + 1) |-> b[p + k - 1].text]
    <3> DEFINE A(k) == a[p + k - 1].text
               B(k) == b[p + k - 1].text
               K == 1..(q - p + 1)
    <3>1. \A k \in K : A(k) = B(k)
      BY <2>3
    <3> HIDE DEF A, B, K
    <3>2. [k \in K |-> A(k)] = [k \in K |-> B(k)]
      BY <3>1
    <3> QED BY <3>2 DEF A, B, K
  <2>5. {a[i].end : i \in p..q} = {b[i].end : i \in p..q}
    BY <2>2
  <2>6. StartsBelow(a, p) = StartsBelow(b, p) /\ a[p].start = b[p].start
    BY <1>1, <1>2, <2>1
  <2>7. (\A i \in p..q : a[i].end <= t.end) <=> (\A i \in p..q : b[i].end <= t.end)
    BY <2>2
  <2> DEFINE x == [k \in 1..(q - p + 1) |-> a[p + k - 1].text]
             y == [k \in 1..(q - p + 1) |-> b[p + k - 1].text]
             u == {a[i].end : i \in p..q}
             v == {b[i].end : i \in p..q}
             f == \A i \in p..q : a[i].end <= t.end
             g == \A i \in p..q : b[i].end <= t.end
  <2>8. TurnIs(t, c, a, p, q) <=>
          /\ IsTurn(t) /\ t.channel = c /\ t.index = Cardinality(StartsBelow(a, p))
          /\ t.start = a[p].start /\ t.end \in u /\ f /\ t.text = x
    BY Zenon DEF TurnIs
  <2>9. TurnIs(t, c, b, p, q) <=>
          /\ IsTurn(t) /\ t.channel = c /\ t.index = Cardinality(StartsBelow(b, p))
          /\ t.start = b[p].start /\ t.end \in v /\ g /\ t.text = y
    BY Zenon DEF TurnIs
  <2>10. x = y /\ u = v /\ (f <=> g)
    BY <2>4, <2>5, <2>7, Zenon
  <2> HIDE DEF x, y, u, v, f, g
  <2> QED BY <2>6, <2>8, <2>9, <2>10, Zenon
<1> QED BY <1>4, <1>5, <1>6

\* A word of a channel before another, in the order of the dialogue.
Sooner(x, y) ==
    LET a == Speech[x[1]][x[2]].start
        b == Speech[y[1]][y[2]].start
    IN  \/ a < b
        \/ a = b /\ x[1] < y[1]
        \/ a = b /\ x[1] = y[1] /\ x[2] < y[2]

\* The words before word p of channel c where turns begin.
Preceding(sel, ws, c, p) ==
    {x \in sel \X Nat : x[2] \in Starts(ws[x[1]]) /\ Sooner(x, <<c, p>>)}

\* The words of these channels that are not yet final begin at that time or later.
OpenBehind(sel, ws, F) ==
    \A d \in sel : \A i \in 1..Len(Speech[d]) :
        i > Len(ws[d]) => Speech[d][i].start >= F

\* Turns that begin before it keep their number.
LEMMA PrecedingStays ==
    ASSUME NEW sel, NEW a, NEW b, NEW F, NEW c, NEW p, sel \in SUBSET Channels,
           \A d \in sel : Agree(a[d], b[d]) /\ Len(b[d]) <= Len(Speech[d]),
           OpenBehind(sel, a, F), F \in Int, c \in sel, p \in 1..Len(Speech[c]),
           Speech[c][p].start < F
    PROVE  Preceding(sel, a, c, p) = Preceding(sel, b, c, p)
<1>1. ASSUME NEW d \in sel
      PROVE  /\ Starts(a[d]) = {i \in Starts(b[d]) : i <= Len(a[d])}
             /\ Len(a[d]) \in Nat /\ Len(b[d]) \in Nat /\ Len(b[d]) <= Len(Speech[d])
  BY StartsStay DEF Agree
<1>2. \A d \in sel : Len(Speech[d]) \in Nat /\ \A i \in 1..Len(Speech[d]) : Speech[d][i].start \in Nat
  BY SpeechShape DEF SpeechIs
<1>3. ASSUME NEW x \in sel \X Nat, x[2] \in Starts(b[x[1]]), Sooner(x, <<c, p>>)
      PROVE  x[2] \in Starts(a[x[1]])
  <2> DEFINE d == x[1]
             i == x[2]
             s == Speech[d][i].start
             t == Speech[c][p].start
  <2>1. d \in sel /\ i \in 1..Len(b[d]) /\ i \in 1..Len(Speech[d])
    <3>1. d \in sel /\ i \in 1..Len(b[d])
      BY <1>3 DEF Starts
    <3> QED BY <1>1, <1>2, <3>1
  <2>2. s <= t /\ s \in Nat /\ t \in Nat /\ t < F
    <3>1. s \in Nat /\ t \in Nat
      BY <1>2, <2>1
    <3>2. s < t \/ s = t
      BY <1>3 DEF Sooner
    <3> HIDE DEF s, t
    <3>3. s <= t
      BY <3>1, <3>2
    <3> QED BY <3>1, <3>3 DEF t
  <2>3. ~ (i > Len(a[d]))
    <3>1. i > Len(a[d]) => s >= F
      BY <2>1 DEF OpenBehind
    <3> HIDE DEF s, t
    <3> QED BY <2>2, <3>1
  <2>4. i <= Len(a[d])
    <3>1. Len(a[d]) \in Int /\ i \in Int
      BY <1>1, <2>1
    <3> HIDE DEF i, d
    <3> QED BY <2>3, <3>1
  <2>5. i \in Starts(b[d])
    BY <1>3
  <2>6. Starts(a[d]) = {j \in Starts(b[d]) : j <= Len(a[d])}
    BY <1>1, <2>1
  <2> HIDE DEF i, d
  <2> QED BY <2>4, <2>5, <2>6 DEF i, d
<1>4. ASSUME NEW x \in sel \X Nat, x[2] \in Starts(a[x[1]])
      PROVE  x[2] \in Starts(b[x[1]])
  BY <1>1, <1>4
<1> QED BY <1>3, <1>4 DEF Preceding

\* The words that the channels of a selection show.
WordsOf(sel, cands) == [c \in sel |-> Words(c, cands[c])]

Readable(sel, cands) ==
    /\ sel \in SUBSET Channels
    /\ \A c \in sel : /\ WordsAre(c, cands[c], WordsOf(sel, cands)[c])
                      /\ Len(cands[c].fed) \in Nat

LEMMA TalkIsReadable ==
    ASSUME NEW sel, NEW cands, sel \in SUBSET Channels, AllTalk(cands)
    PROVE  Readable(sel, cands)
<1>1. ASSUME NEW c \in sel
      PROVE  WordsAre(c, cands[c], WordsOf(sel, cands)[c]) /\ Len(cands[c].fed) \in Nat
  <2>1. c \in Channels /\ Talks(c, cands[c])
    BY DEF AllTalk
  <2>2. WordsOf(sel, cands)[c] = Words(c, cands[c])
    BY DEF WordsOf
  <2>3. Len(cands[c].fed) \in Nat
    BY <2>1, SequenceShape DEF Talks
  <2> QED BY <2>1, <2>2, <2>3, WordsShape
<1> QED BY <1>1 DEF Readable

\* The turn of a word of a channel.
TurnAt(m, ws, u, x) == \E q : Span(ws[x[1]], x[2], q) /\ u = Turn(m, x[1], ws[x[1]], x[2], q)

\* The turns of a dialogue: one for every word where a turn begins.
TurnsAre(m, sel, ws, turns) ==
    /\ IsFiniteSet(turns)
    /\ \A u \in turns : \E x \in sel \X Nat : TurnAt(m, ws, u, x)
    /\ \A c \in sel : \A p \in Starts(ws[c]) : \E u \in turns : TurnAt(m, ws, u, <<c, p>>)

LEMMA TurnAtIs ==
    ASSUME NEW m, NEW sel, NEW cands, Readable(sel, cands), NEW u, NEW x \in sel \X Nat,
           TurnAt(m, WordsOf(sel, cands), u, x)
    PROVE  LET w == WordsOf(sel, cands)[x[1]]
           IN  /\ x[2] \in Starts(w) /\ x[2] \in 1..Len(w) /\ Len(w) \in Nat
               /\ u.channel = x[1] /\ u.index = Cardinality(StartsBelow(w, x[2]))
               /\ u.index \in Nat
               /\ u.start = Speech[x[1]][x[2]].start /\ u.start \in Nat
<1> DEFINE c == x[1]
           p == x[2]
           w == WordsOf(sel, cands)[c]
           cand == cands[c]
<1>1. c \in sel
  OBVIOUS
<1>2. WordsAre(c, cand, w) /\ Len(cand.fed) \in Nat
  BY <1>1 DEF Readable
<1>3. PICK q : Span(w, p, q) /\ u = Turn(m, c, w, p, q)
  BY DEF TurnAt
<1>4. TurnIs(u, c, w, p, q)
  <2> HIDE DEF w, c, p, cand
  <2> QED BY <1>2, <1>3, TurnFields
<1>5. p \in Starts(w) /\ p \in 1..Len(w)
  BY <1>3 DEF Span, Starts
<1>6. Len(w) \in Nat /\ w[p].start = Speech[c][p].start /\ w[p].start \in Nat
  BY <1>2, <1>5 DEF WordsAre
<1>7. Cardinality(StartsBelow(w, p)) \in Nat
  BY <1>6, StartsShape
<1> QED BY <1>4, <1>5, <1>6, <1>7 DEF TurnIs

\* A turn is the turn of one word, and comes before another when that word does.
LEMMA TurnAtOrder ==
    ASSUME NEW m, NEW sel, NEW cands, Readable(sel, cands),
           NEW u, NEW x \in sel \X Nat, TurnAt(m, WordsOf(sel, cands), u, x),
           NEW v, NEW y \in sel \X Nat, TurnAt(m, WordsOf(sel, cands), v, y)
    PROVE  /\ u.channel = v.channel /\ u.index = v.index => x = y
           /\ Before(u, v) <=> Sooner(x, y)
<1> DEFINE a == WordsOf(sel, cands)[x[1]]
           b == WordsOf(sel, cands)[y[1]]
           s == Speech[x[1]][x[2]].start
           t == Speech[y[1]][y[2]].start
<1>1. /\ x[2] \in Starts(a) /\ Len(a) \in Nat
      /\ u.channel = x[1] /\ u.index = Cardinality(StartsBelow(a, x[2]))
      /\ u.start = s
  BY TurnAtIs
<1>2. /\ y[2] \in Starts(b) /\ Len(b) \in Nat
      /\ v.channel = y[1] /\ v.index = Cardinality(StartsBelow(b, y[2]))
      /\ v.start = t
  BY TurnAtIs
<1>3. x[1] = y[1] => /\ u.index = v.index => x[2] = y[2]
                     /\ u.index < v.index <=> x[2] < y[2]
  <2> HAVE x[1] = y[1]
  <2>1. a = b /\ y[2] \in Starts(a)
    BY <1>2
  <2> HIDE DEF a, b
  <2>2. /\ x[2] < y[2] <=> Cardinality(StartsBelow(a, x[2])) < Cardinality(StartsBelow(a, y[2]))
        /\ Cardinality(StartsBelow(a, x[2])) = Cardinality(StartsBelow(a, y[2])) => x[2] = y[2]
    BY <1>1, <2>1, StartsRank
  <2> QED BY <1>1, <1>2, <2>1, <2>2
<1>4. x = <<x[1], x[2]>> /\ y = <<y[1], y[2]>>
  OBVIOUS
<1>5. Before(u, v) <=> Sooner(x, y)
  BY <1>1, <1>2, <1>3 DEF Before, Sooner
<1> HIDE DEF a, b, s, t
<1>6. u.channel = v.channel /\ u.index = v.index => x = y
  BY <1>1, <1>2, <1>3, <1>4
<1> QED BY <1>5, <1>6

LEMMA TurnsAreOrdered ==
    ASSUME NEW m, NEW sel, NEW cands, NEW turns, Readable(sel, cands),
           TurnsAre(m, sel, WordsOf(sel, cands), turns)
    PROVE  IsOrder(turns)
<1> DEFINE ws == WordsOf(sel, cands)
<1>1. \A u \in turns : \E x \in sel \X Nat : TurnAt(m, ws, u, x)
  BY DEF TurnsAre
<1>2. ASSUME NEW u \in turns
      PROVE  u.start \in Int /\ u.channel \in Int /\ u.index \in Int
  <2>1. PICK x \in sel \X Nat : TurnAt(m, ws, u, x)
    BY <1>1
  <2>2. u.channel = x[1] /\ u.index \in Nat /\ u.start \in Nat
    BY <2>1, TurnAtIs
  <2>3. x[1] \in Channels
    BY DEF Readable
  <2>4. x[1] \in Int
    BY <2>3 DEF Channels, AllChannels
  <2> QED BY <2>2, <2>4
<1>3. ASSUME NEW u \in turns, NEW v \in turns, u.channel = v.channel, u.index = v.index
      PROVE  u = v
  <2>1. PICK x \in sel \X Nat : TurnAt(m, ws, u, x)
    BY <1>1
  <2>2. PICK y \in sel \X Nat : TurnAt(m, ws, v, y)
    BY <1>1
  <2>3. x = y
    BY <1>3, <2>1, <2>2, TurnAtOrder
  <2> DEFINE w == ws[x[1]]
             p == x[2]
  <2>4. PICK q : Span(w, p, q) /\ u = Turn(m, x[1], w, p, q)
    BY <2>1 DEF TurnAt
  <2>5. PICK r : Span(w, p, r) /\ v = Turn(m, x[1], w, p, r)
    BY <2>2, <2>3 DEF TurnAt
  <2>6. Len(w) \in Nat
    BY <2>1, TurnAtIs
  <2> HIDE DEF w, p
  <2>7. q = r
    <3>1. /\ q \in p..Len(w) /\ r \in p..Len(w) /\ p \in 1..Len(w)
          /\ \A i \in Starts(w) : ~ (p < i /\ i <= q)
          /\ \A i \in Starts(w) : ~ (p < i /\ i <= r)
          /\ (q = Len(w) \/ q + 1 \in Starts(w)) /\ (r = Len(w) \/ r + 1 \in Starts(w))
      BY <2>4, <2>5 DEF Span, Starts
    <3>2. q \in Int /\ r \in Int /\ p \in Int /\ p <= q /\ p <= r /\ q <= Len(w) /\ r <= Len(w)
      BY <2>6, <3>1
    <3>3. ~ (q < r)
      BY <2>6, <3>1, <3>2
    <3>4. ~ (r < q)
      BY <2>6, <3>1, <3>2
    <3> QED BY <3>2, <3>3, <3>4
  <2> QED BY <2>4, <2>5, <2>7
<1> QED BY <1>2, <1>3 DEF IsOrder

\* The place of a turn is one behind the words before it where turns begin.
LEMMA TurnPlace ==
    ASSUME NEW m, NEW sel, NEW cands, NEW turns, Readable(sel, cands),
           TurnsAre(m, sel, WordsOf(sel, cands), turns),
           NEW c \in sel, NEW p \in Nat, NEW t, TurnAt(m, WordsOf(sel, cands), t, <<c, p>>)
    PROVE  Cardinality({u \in turns : Before(u, t)})
             = Cardinality(Preceding(sel, WordsOf(sel, cands), c, p))
<1> DEFINE ws == WordsOf(sel, cands)
           S == {u \in turns : Before(u, t)}
           T == Preceding(sel, ws, c, p)
           word(u) == CHOOSE x \in sel \X Nat : TurnAt(m, ws, u, x)
           f == [u \in S |-> word(u)]
<1>1. /\ IsFiniteSet(turns)
      /\ \A u \in turns : \E x \in sel \X Nat : TurnAt(m, ws, u, x)
      /\ \A d \in sel : \A i \in Starts(ws[d]) : \E u \in turns : TurnAt(m, ws, u, <<d, i>>)
  BY DEF TurnsAre
<1>2. IsFiniteSet(S)
  <2>1. S \in SUBSET turns
    OBVIOUS
  <2> HIDE DEF S
  <2> QED BY <1>1, <2>1, FS_Subset
<1>3. \A u \in turns : word(u) \in sel \X Nat /\ TurnAt(m, ws, u, word(u))
  BY <1>1
<1> HIDE DEF word
<1>4. <<c, p>> \in sel \X Nat /\ TurnAt(m, ws, t, <<c, p>>)
  OBVIOUS
<1>5. ASSUME NEW u \in S PROVE word(u) \in T
  <2>1. u \in turns /\ Before(u, t) /\ word(u) \in sel \X Nat /\ TurnAt(m, ws, u, word(u))
    BY <1>3
  <2> DEFINE x == word(u)
             y == <<c, p>>
  <2>2. x \in sel \X Nat /\ y \in sel \X Nat /\ TurnAt(m, ws, u, x) /\ TurnAt(m, ws, t, y)
    BY <1>4, <2>1
  <2> HIDE DEF x, y
  <2>3. Sooner(x, y)
    BY <2>1, <2>2, TurnAtOrder
  <2>4. x[2] \in Starts(ws[x[1]])
    BY <2>2, TurnAtIs
  <2> QED BY <2>2, <2>3, <2>4 DEF Preceding, x, y
<1>6. ASSUME NEW u \in S, NEW v \in S, word(u) = word(v) PROVE u = v
  <2>1. IsOrder(turns)
    BY TurnsAreOrdered
  <2>2. u \in turns /\ v \in turns
    OBVIOUS
  <2> DEFINE x == word(u)
  <2>3. x \in sel \X Nat /\ TurnAt(m, ws, u, x) /\ TurnAt(m, ws, v, x)
    BY <1>3, <1>6, <2>2
  <2> HIDE DEF x
  <2>4. u.channel = v.channel /\ u.index = v.index
    <3>1. u.channel = x[1] /\ u.index = Cardinality(StartsBelow(ws[x[1]], x[2]))
      BY <2>3, TurnAtIs
    <3>2. v.channel = x[1] /\ v.index = Cardinality(StartsBelow(ws[x[1]], x[2]))
      BY <2>3, TurnAtIs
    <3> QED BY <3>1, <3>2
  <2> QED BY <2>1, <2>2, <2>4 DEF IsOrder
<1>7. ASSUME NEW x \in T PROVE \E u \in S : word(u) = x
  <2>1. x \in sel \X Nat /\ x[2] \in Starts(ws[x[1]]) /\ Sooner(x, <<c, p>>)
    BY DEF Preceding
  <2>2. x = <<x[1], x[2]>> /\ x[1] \in sel
    BY <2>1
  <2>3. PICK u \in turns : TurnAt(m, ws, u, x)
    BY <1>1, <2>1, <2>2
  <2>4. Before(u, t)
    <3> DEFINE y == <<c, p>>
    <3>1. y \in sel \X Nat /\ TurnAt(m, ws, t, y) /\ Sooner(x, y)
      BY <1>4, <2>1
    <3> HIDE DEF y
    <3> QED BY <2>1, <2>3, <3>1, TurnAtOrder
  <2>5. word(u) = x
    <3> DEFINE y == word(u)
    <3>1. y \in sel \X Nat /\ TurnAt(m, ws, u, y)
      BY <1>3
    <3> HIDE DEF y
    <3>2. y = x
      BY <2>1, <2>3, <3>1, TurnAtOrder
    <3> QED BY <3>2 DEF y
  <2> QED BY <2>4, <2>5
<1> HIDE DEF S, T
<1>8. f \in Bijection(S, T)
  <2>1. f \in [S -> T]
    BY <1>5
  <2>2. \A u, v \in S : f[u] = f[v] => u = v
    BY <1>6
  <2>3. \A x \in T : \E u \in S : f[u] = x
    BY <1>7
  <2> HIDE DEF f
  <2> QED BY <2>1, <2>2, <2>3 DEF Bijection, Injection, Surjection, IsInjective
<1>9. ExistsBijection(S, T)
  BY <1>8 DEF ExistsBijection
<1>10. Cardinality(T) = Cardinality(S)
  BY <1>2, <1>9, FS_Bijection
<1> QED BY <1>10 DEF S, T

-----------------------------------------------------------------------------
(* The dialogue of the words that some sessions show (DialogueIs).           *)

LEMMA SnapshotFields ==
    ASSUME NEW c, NEW cand
    PROVE  LET s == Snapshot(c, cand)
           IN  s.channel = c /\ s.cut = cand.cut /\ s.stable = cand.cut
<1> DEFINE heard == Heard(c, Len(cand.fed))
           done == cand.done
           Mark(w, f) == [start |-> w.start, end |-> w.end, text |-> w.text,
                          final |-> f, stable |-> f]
           words == [i \in 1..cand.shown |->
                      IF i <= Len(done) THEN Mark(done[i], TRUE) ELSE Mark(heard[i], FALSE)]
<1>1. Snapshot(c, cand) = [channel |-> c, cut |-> cand.cut, stable |-> cand.cut,
                           words |-> words]
  BY Zenon DEF Snapshot
<1> HIDE DEF words
<1> QED BY <1>1

\* Each channel's snapshot gives its turns.
LEMMA SnapshotTurns ==
    ASSUME NEW m, NEW sel, NEW cands, Readable(sel, cands), Count \in Nat
    PROVE  LET order == Ascending(sel)
               snapshots == [i \in DOMAIN order |-> Snapshot(order[i], cands[order[i]])]
           IN  TurnsAre(m, sel, WordsOf(sel, cands),
                        UNION {ToSet(Segment(m, snapshots[i])) : i \in DOMAIN snapshots})
<1> DEFINE order == Ascending(sel)
           n == Len(order)
           snapshots == [i \in DOMAIN order |-> Snapshot(order[i], cands[order[i]])]
           ws == WordsOf(sel, cands)
           part == [i \in 1..n |-> ToSet(Segment(m, snapshots[i]))]
           turns == UNION {ToSet(Segment(m, snapshots[i])) : i \in DOMAIN snapshots}
<1>1. sel \in SUBSET Int /\ IsFiniteSet(sel)
  <2>1. sel \in SUBSET (0..(Count - 1))
    BY DEF Readable, Channels, AllChannels
  <2>2. 0 \in Int /\ Count - 1 \in Int
    OBVIOUS
  <2>3. IsFiniteSet(0..(Count - 1))
    BY <2>2, FS_Interval
  <2>4. IsFiniteSet(sel)
    BY <2>1, <2>3, FS_Subset
  <2> QED BY <2>1, <2>4
<1>2. Lists(sel, Smaller(sel), order)
  BY <1>1, AscendingLists
<1> HIDE DEF order, n
<1>3. /\ n \in Nat /\ DOMAIN order = 1..n /\ \A i \in 1..n : order[i] \in sel
      /\ \A c \in sel : \E i \in 1..n : order[i] = c
  <2>1. IsSequence(order)
    BY <1>2 DEF Lists
  <2> QED BY <1>2, <2>1, SequenceShape DEF Lists, n
<1>4. ASSUME NEW i \in 1..n
      PROVE  LET c == order[i]
             IN  c \in sel /\ SegmentIs(m, snapshots[i], c, ws[c])
  <2> DEFINE c == order[i]
             snapshot == snapshots[i]
             w == ws[c]
  <2>1. c \in sel /\ snapshot = Snapshot(c, cands[c])
    BY <1>3
  <2>2. w = Snapshot(c, cands[c]).words
    BY <2>1 DEF WordsOf, Words
  <2>3. snapshot.channel = c
    BY <2>1, SnapshotFields
  <2>4. IsSequence(w)
    <3>1. \A d \in sel : WordsAre(d, cands[d], ws[d])
      BY DEF Readable
    <3> HIDE DEF ws, c, snapshot
    <3> QED BY <2>1, <3>1 DEF WordsAre
  <2> HIDE DEF c, snapshot, w
  <2>5. SegmentIs(m, snapshot, c, w)
    BY <2>1, <2>2, <2>3, <2>4, SegmentShape
  <2> QED BY <2>1, <2>5 DEF c, snapshot, w
<1>5. DOMAIN snapshots = 1..n
  BY <1>3
<1> HIDE DEF snapshots
<1>6. turns = UNION {part[i] : i \in 1..n}
  BY <1>5
<1>7. IsFiniteSet(turns)
  <2>1. 1 \in Int /\ n \in Int
    BY <1>3
  <2>2. IsFiniteSet(1..n)
    BY <2>1, FS_Interval
  <2> DEFINE parts == {part[i] : i \in 1..n}
  <2>3. part \in Surjection(1..n, parts)
    BY DEF Surjection
  <2>4. \A P \in parts : IsFiniteSet(P)
    BY <1>4 DEF SegmentIs
  <2> HIDE DEF part, parts, turns
  <2>5. IsFiniteSet(parts)
    BY <2>2, <2>3, FS_Surjection
  <2>6. IsFiniteSet(UNION parts)
    BY <2>4, <2>5, FS_UNION
  <2> QED BY <1>6, <2>6 DEF parts
<1>8. ASSUME NEW u \in turns PROVE \E x \in sel \X Nat : TurnAt(m, ws, u, x)
  <2>1. PICK i \in 1..n : u \in ToSet(Segment(m, snapshots[i]))
    BY <1>5
  <2> DEFINE c == order[i]
  <2>2. c \in sel /\ SegmentIs(m, snapshots[i], c, ws[c])
    BY <1>4
  <2> HIDE DEF c, ws
  <2>3. PICK p, q : Span(ws[c], p, q) /\ u = Turn(m, c, ws[c], p, q)
    BY <2>1, <2>2 DEF SegmentIs
  <2>4. p \in Nat
    BY <2>3 DEF Span, Starts
  <2>5. <<c, p>> \in sel \X Nat /\ TurnAt(m, ws, u, <<c, p>>)
    BY <2>2, <2>3, <2>4 DEF TurnAt
  <2> QED BY <2>5
<1>9. ASSUME NEW c \in sel, NEW p \in Starts(ws[c])
      PROVE  \E u \in turns : TurnAt(m, ws, u, <<c, p>>)
  <2>1. PICK i \in 1..n : order[i] = c
    BY <1>3
  <2>2. SegmentIs(m, snapshots[i], c, ws[c])
    BY <1>4, <2>1
  <2> HIDE DEF ws
  <2>3. PICK q : Span(ws[c], p, q) /\ Turn(m, c, ws[c], p, q) \in ToSet(Segment(m, snapshots[i]))
    BY <2>2 DEF SegmentIs
  <2>4. Turn(m, c, ws[c], p, q) \in turns
    BY <1>5, <2>3
  <2>5. TurnAt(m, ws, Turn(m, c, ws[c], p, q), <<c, p>>)
    BY <2>3 DEF TurnAt
  <2> QED BY <2>4, <2>5
<1> QED BY <1>7, <1>8, <1>9 DEF TurnsAre, order, turns, snapshots

\* A turn's place in the dialogue of a selection, and all that is known of it.
Place(sel, ws, c, p) == 1 + Cardinality(Preceding(sel, ws, c, p))

DialogueTurn(D, m, sel, cands, j, c, p, q) ==
    LET w == WordsOf(sel, cands)[c]
    IN  /\ c \in sel /\ Span(w, p, q) /\ Stretch(w, p, q) /\ TurnIs(D[j], c, w, p, q)
        /\ D[j].final = (q <= Len(cands[c].done) /\ D[j].end <= m.final)
        /\ D[j].final => D[j].stable
        /\ j = Place(sel, WordsOf(sel, cands), c, p)

DialogueIs(D, m, sel, cands) ==
    /\ IsSequence(D)
    /\ \A j \in 1..Len(D) : \E c, p, q : DialogueTurn(D, m, sel, cands, j, c, p, q)
    /\ \A c \in sel : \A p \in Starts(WordsOf(sel, cands)[c]) :
         \E j \in 1..Len(D) : \E q : DialogueTurn(D, m, sel, cands, j, c, p, q)
    /\ \A i, j \in 1..Len(D) : i < j => Before(D[i], D[j])

\* Marks a turn as a backchannel or not.
Marked(t, b) == [t EXCEPT !.backchannel = b]

LEMMA MarkedIs ==
    ASSUME NEW t, NEW b, IsTurn(t)
    PROVE  /\ IsTurn(Marked(t, b))
           /\ LET u == Marked(t, b)
              IN  /\ u.channel = t.channel /\ u.index = t.index /\ u.start = t.start
                  /\ u.end = t.end /\ u.text = t.text /\ u.final = t.final
                  /\ u.stable = t.stable
<1> DEFINE ch == t.channel
           ix == t.index
           st == t.start
           en == t.end
           tx == t.text
           fi == t.final
           sb == t.stable
           bc == t.backchannel
<1>1. t = [channel |-> ch, index |-> ix, start |-> st, end |-> en,
           text |-> tx, final |-> fi, stable |-> sb, backchannel |-> bc]
  BY Zenon DEF IsTurn
<1> HIDE DEF ch, ix, st, en, tx, fi, sb, bc
<1>2. Marked(t, b) = [channel |-> ch, index |-> ix, start |-> st, end |-> en,
           text |-> tx, final |-> fi, stable |-> sb, backchannel |-> b]
  BY <1>1 DEF Marked
<1> DEFINE u == Marked(t, b)
<1>3. /\ u.channel = ch /\ u.index = ix /\ u.start = st /\ u.end = en
      /\ u.text = tx /\ u.final = fi /\ u.stable = sb /\ u.backchannel = b
  BY <1>2
<1>4. IsTurn(u)
  BY <1>2, <1>3 DEF IsTurn
<1> QED BY <1>3, <1>4 DEF ch, ix, st, en, tx, fi, sb

LEMMA MarkedDialogue ==
    ASSUME NEW S, IsSequence(S), \A j \in 1..Len(S) : IsTurn(S[j])
    PROVE  LET D == MarkBackchannels(S)
           IN  /\ IsSequence(D) /\ Len(D) = Len(S)
               /\ \A j \in 1..Len(S) :
                    /\ IsTurn(D[j])
                    /\ D[j].channel = S[j].channel /\ D[j].index = S[j].index
                    /\ D[j].start = S[j].start /\ D[j].end = S[j].end
                    /\ D[j].text = S[j].text /\ D[j].final = S[j].final
                    /\ D[j].stable = S[j].stable
<1> DEFINE Length(turn) == turn.end - turn.start
           Overlapped(turn) == \E peer \in ToSet(S) :
            /\ peer.channel # turn.channel
            /\ peer.start <= turn.start /\ peer.end >= turn.end
            /\ Length(peer) > Length(turn)
           b(i) == Length(S[i]) <= Backchannel[1] /\ Overlapped(S[i])
           D == MarkBackchannels(S)
<1>1. Len(S) \in Nat /\ DOMAIN S = 1..Len(S)
  BY SequenceShape
<1>2. CASE Backchannel = <<>>
  <2>1. D = S
    BY <1>2 DEF MarkBackchannels
  <2> HIDE DEF D
  <2> QED BY <2>1 DEF D
<1>3. CASE Backchannel # <<>>
  <2>1. D = [i \in DOMAIN S |-> [S[i] EXCEPT !.backchannel = b(i)]]
    BY <1>3, Zenon DEF MarkBackchannels
  <2> HIDE DEF b
  <2>2. D = [i \in DOMAIN S |-> Marked(S[i], b(i))]
    BY <2>1 DEF Marked
  <2> HIDE DEF D
  <2>3. IsSequence(D) /\ Len(D) = Len(S)
    <3>1. DOMAIN D = 1..Len(S) /\ D = [i \in DOMAIN D |-> D[i]]
      BY <1>1, <2>2
    <3> QED BY <1>1, <3>1, FunctionIsSequence
  <2>4. ASSUME NEW j \in 1..Len(S)
        PROVE  /\ IsTurn(D[j])
               /\ D[j].channel = S[j].channel /\ D[j].index = S[j].index
               /\ D[j].start = S[j].start /\ D[j].end = S[j].end
               /\ D[j].text = S[j].text /\ D[j].final = S[j].final
               /\ D[j].stable = S[j].stable
    <3> DEFINE t == S[j]
               x == D[j]
    <3>1. x = Marked(t, b(j)) /\ IsTurn(t)
      BY <1>1, <2>2
    <3> HIDE DEF t, x
    <3>2. /\ IsTurn(x) /\ x.channel = t.channel /\ x.index = t.index /\ x.start = t.start
          /\ x.end = t.end /\ x.text = t.text /\ x.final = t.final /\ x.stable = t.stable
      BY <3>1, MarkedIs
    <3> QED BY <3>2 DEF t, x
  <2> QED BY <2>3, <2>4 DEF D
<1> QED BY <1>2, <1>3

\* The dialogue of some turns, in order and marked.
LEMMA DialogueShape ==
    ASSUME NEW m, NEW sel, NEW cands, NEW turns, Readable(sel, cands),
           TurnsAre(m, sel, WordsOf(sel, cands), turns)
    PROVE  DialogueIs(MarkBackchannels(Sorted(turns)), m, sel, cands)
<1> DEFINE ws == WordsOf(sel, cands)
           S == Sorted(turns)
           D == MarkBackchannels(S)
           R == Earlier(turns)
           n == Len(S)
<1>1. /\ IsFiniteSet(turns)
      /\ \A u \in turns : \E x \in sel \X Nat : TurnAt(m, ws, u, x)
      /\ \A c \in sel : \A p \in Starts(ws[c]) : \E u \in turns : TurnAt(m, ws, u, <<c, p>>)
  BY DEF TurnsAre
<1>2. /\ Lists(turns, R, S)
      /\ \A t \in turns : Rank(turns, R, t) = Cardinality({u \in turns : Before(u, t)})
  BY <1>1, TurnsAreOrdered, SortedLists
<1> HIDE DEF S, R, n
<1>3. /\ IsSequence(S) /\ n \in Nat
      /\ \A k \in 1..n : S[k] \in turns /\ Rank(turns, R, S[k]) = k - 1
      /\ \A t \in turns : Rank(turns, R, t) + 1 \in 1..n /\ S[Rank(turns, R, t) + 1] = t
      /\ \A i, j \in 1..n : i < j => Before(S[i], S[j])
  <2>1. /\ IsSequence(S) /\ n \in Nat
        /\ \A k \in 1..n : S[k] \in turns /\ Rank(turns, R, S[k]) = k - 1
        /\ \A t \in turns : Rank(turns, R, t) + 1 \in 1..n /\ S[Rank(turns, R, t) + 1] = t
        /\ \A i, j \in 1..n : i < j <=> <<S[i], S[j]>> \in R
    BY <1>2 DEF Lists, n
  <2>2. \A i, j \in 1..n : <<S[i], S[j]>> \in R => Before(S[i], S[j])
    BY DEF R, Earlier
  <2> QED BY <2>1, <2>2
\* All of a turn but its mark.
<1> DEFINE Known(t, j, c, p, q) ==
             /\ c \in sel /\ Span(ws[c], p, q) /\ Stretch(ws[c], p, q) /\ TurnIs(t, c, ws[c], p, q)
             /\ t.final = (q <= Len(cands[c].done) /\ t.end <= m.final)
             /\ t.final => t.stable
             /\ j = Place(sel, ws, c, p)
<1>4. ASSUME NEW c \in sel, NEW p \in Nat, NEW t \in turns, TurnAt(m, ws, t, <<c, p>>)
      PROVE  \E q : Known(t, Rank(turns, R, t) + 1, c, p, q)
  <2>1. PICK q : Span(ws[c], p, q) /\ t = Turn(m, c, ws[c], p, q)
    BY <1>4 DEF TurnAt
  <2>2. WordsAre(c, cands[c], ws[c]) /\ Len(cands[c].fed) \in Nat
    BY DEF Readable
  <2> DEFINE w == ws[c]
             cand == cands[c]
  <2>3. /\ Stretch(w, p, q) /\ TurnIs(t, c, w, p, q)
        /\ t.final = (q <= Len(cand.done) /\ t.end <= m.final) /\ (t.final => t.stable)
    <3>1. /\ Span(w, p, q) /\ t = Turn(m, c, w, p, q)
          /\ WordsAre(c, cand, w) /\ Len(cand.fed) \in Nat
      BY <2>1, <2>2
    <3> HIDE DEF w, cand, ws
    <3> QED BY <3>1, TurnFields
  <2>4. Rank(turns, R, t) = Cardinality(Preceding(sel, ws, c, p))
    <3>1. Rank(turns, R, t) = Cardinality({u \in turns : Before(u, t)})
      BY <1>2
    <3>2. Cardinality({u \in turns : Before(u, t)}) = Cardinality(Preceding(sel, ws, c, p))
      BY <1>4, TurnPlace
    <3> QED BY <3>1, <3>2, Zenon
  <2>5. Rank(turns, R, t) \in Int
    <3> DEFINE below == {y \in turns : <<y, t>> \in R}
    <3>1. below \in SUBSET turns
      OBVIOUS
    <3> HIDE DEF below
    <3>2. Cardinality(below) \in Nat
      BY <1>1, <3>1, FS_Subset, FS_CardinalityType
    <3> QED BY <3>2 DEF below, Rank
  <2> DEFINE x == Rank(turns, R, t)
             y == Cardinality(Preceding(sel, ws, c, p))
  <2>6. x + 1 = 1 + y
    <3>1. x = y /\ x \in Int
      BY <2>4, <2>5
    <3> HIDE DEF x, y
    <3> QED BY <3>1
  <2>7. x + 1 = Place(sel, ws, c, p)
    BY <2>6 DEF Place
  <2> HIDE DEF x, y, ws
  <2> QED BY <2>1, <2>3, <2>7 DEF x
<1> HIDE DEF ws
<1>5. ASSUME NEW k \in 1..n PROVE \E c, p, q : Known(S[k], k, c, p, q)
  <2>1. S[k] \in turns /\ Rank(turns, R, S[k]) + 1 = k
    BY <1>3
  <2>2. PICK x \in sel \X Nat : TurnAt(m, ws, S[k], x)
    BY <1>1, <2>1
  <2>3. x = <<x[1], x[2]>> /\ x[1] \in sel /\ x[2] \in Nat
    OBVIOUS
  <2> DEFINE t == S[k]
             c == x[1]
             p == x[2]
  <2>4. c \in sel /\ p \in Nat /\ t \in turns /\ TurnAt(m, ws, t, <<c, p>>)
    BY <2>1, <2>2, <2>3
  <2> HIDE DEF t, c, p, Known
  <2>5. \E q : Known(t, Rank(turns, R, t) + 1, c, p, q)
    BY <1>4, <2>4
  <2>6. \E q : Known(S[k], k, c, p, q)
    BY <2>1, <2>5 DEF t
  <2> QED BY <2>6
<1>6. ASSUME NEW c \in sel, NEW p \in Starts(ws[c])
      PROVE  \E j \in 1..n : \E q : Known(S[j], j, c, p, q)
  <2>1. PICK t \in turns : TurnAt(m, ws, t, <<c, p>>)
    BY <1>1
  <2>2. p \in Nat
    BY DEF Starts
  <2> DEFINE j == Rank(turns, R, t) + 1
  <2>3. j \in 1..n /\ S[j] = t
    BY <1>3
  <2> HIDE DEF Known
  <2>4. \E q : Known(t, j, c, p, q)
    BY <1>4, <2>1, <2>2
  <2> HIDE DEF j
  <2> QED BY <2>3, <2>4
<1>7. \A k \in 1..n : IsTurn(S[k])
  <2> TAKE k \in 1..n
  <2>1. PICK c, p, q : Known(S[k], k, c, p, q)
    BY <1>5
  <2> QED BY <2>1 DEF TurnIs
<1>8. /\ IsSequence(D) /\ Len(D) = n
      /\ \A j \in 1..n :
           /\ IsTurn(D[j])
           /\ D[j].channel = S[j].channel /\ D[j].index = S[j].index
           /\ D[j].start = S[j].start /\ D[j].end = S[j].end
           /\ D[j].text = S[j].text /\ D[j].final = S[j].final
           /\ D[j].stable = S[j].stable
  BY <1>3, <1>7, MarkedDialogue DEF n
<1> HIDE DEF D
<1>9. ASSUME NEW j \in 1..n, NEW c, NEW p, NEW q, Known(S[j], j, c, p, q)
      PROVE  DialogueTurn(D, m, sel, cands, j, c, p, q)
  <2> DEFINE t == S[j]
             u == D[j]
             w == ws[c]
  <2>1. /\ IsTurn(u) /\ u.channel = t.channel /\ u.index = t.index
        /\ u.start = t.start /\ u.end = t.end /\ u.text = t.text /\ u.final = t.final
        /\ u.stable = t.stable
    BY <1>8
  <2>2. /\ c \in sel /\ Span(w, p, q) /\ Stretch(w, p, q) /\ TurnIs(t, c, w, p, q)
        /\ t.final = (q <= Len(cands[c].done) /\ t.end <= m.final)
        /\ (t.final => t.stable)
        /\ j = Place(sel, ws, c, p)
    BY <1>9
  <2> HIDE DEF t, u, w
  <2>3. TurnIs(u, c, w, p, q)
    BY <2>1, <2>2 DEF TurnIs
  <2>4. u.final = (q <= Len(cands[c].done) /\ u.end <= m.final) /\ (u.final => u.stable)
    BY <2>1, <2>2
  <2> QED BY <2>2, <2>3, <2>4 DEF DialogueTurn, u, w, ws
<1> HIDE DEF Known
<1>10. \A j \in 1..n : \E c, p, q : DialogueTurn(D, m, sel, cands, j, c, p, q)
  BY <1>5, <1>9
<1>11. \A c \in sel : \A p \in Starts(ws[c]) :
          \E j \in 1..n : \E q : DialogueTurn(D, m, sel, cands, j, c, p, q)
  <2> TAKE c \in sel
  <2> TAKE p \in Starts(ws[c])
  <2>1. PICK j, q : j \in 1..n /\ Known(S[j], j, c, p, q)
    BY <1>6
  <2> QED BY <1>9, <2>1
<1>12. \A i, j \in 1..n : i < j => Before(D[i], D[j])
  BY <1>3, <1>8 DEF Before
<1> QED BY <1>8, <1>10, <1>11, <1>12 DEF DialogueIs, D, ws, S

-----------------------------------------------------------------------------
(* Final turns: what they say and where they are, no later word changes.     *)

DoneOf(sel, cands) == [c \in sel |-> cands[c].done]

LEMMA DoneAgrees ==
    ASSUME NEW c, NEW old, NEW new, Talks(c, old), Went(c, old, new)
    PROVE  Agree(old.done, new.done) /\ Len(new.done) <= Len(Speech[c])
<1>1. Len(old.done) \in Nat /\ Len(new.done) \in Nat
  BY SequenceShape DEF Talks, Went, DoneIs
<1>2. Len(old.done) <= Len(new.done) /\ \A i \in 1..Len(old.done) : new.done[i] = old.done[i]
  BY DEF Went, Grows
<1>3. Len(new.done) <= Len(Speech[c])
  BY DEF Went, Talks, DoneIs
<1> QED BY <1>1, <1>2, <1>3 DEF Agree

LEMMA WordsAgree ==
    ASSUME NEW c, NEW cand, NEW w, Talks(c, cand), WordsAre(c, cand, w)
    PROVE  Agree(cand.done, w) /\ Len(w) <= Len(Speech[c])
<1>1. /\ Len(w) \in Nat /\ Len(cand.done) \in Nat /\ Len(cand.done) <= Len(w)
      /\ Len(w) <= Len(Speech[c])
      /\ \A i \in 1..Len(w) : w[i].text = Speech[c][i].text
      /\ \A i \in 1..Len(cand.done) :
           w[i].start = cand.done[i].start /\ w[i].end = cand.done[i].end
  BY DEF WordsAre
<1>2. \A i \in 1..Len(cand.done) : cand.done[i].text = Speech[c][i].text
  BY DEF Talks, DoneIs
<1>3. \A i \in 1..Len(cand.done) : i \in 1..Len(w)
  BY <1>1
<1> QED BY <1>1, <1>2, <1>3 DEF Agree

\* A turn that is final: its words are, it ends behind the frontier, and it has its
\* place among the final words of all channels.
FinalTurn(t, j, F, sel, dn, c, p, q) ==
    /\ c \in sel /\ Stretch(dn[c], p, q) /\ TurnIs(t, c, dn[c], p, q) /\ t.end <= F
    /\ j = Place(sel, dn, c, p)

FinalTurns(L, F, sel, dn) ==
    \A j \in 1..Len(L) : L[j].final => \E c, p, q : FinalTurn(L[j], j, F, sel, dn, c, p, q)

LEMMA FinalTurnBegins ==
    ASSUME NEW t, NEW j, NEW F, NEW sel, NEW cands, NEW c, NEW p, NEW q,
           sel \in SUBSET Channels, AllTalk(cands), F \in Int,
           FinalTurn(t, j, F, sel, DoneOf(sel, cands), c, p, q)
    PROVE  LET d == DoneOf(sel, cands)[c]
           IN  /\ c \in sel /\ c \in Channels /\ d = cands[c].done /\ Len(d) \in Nat
               /\ p \in 1..Len(Speech[c]) /\ Speech[c][p].start < F
               /\ t.start = Speech[c][p].start /\ t.end \in Int
               /\ q \in p..Len(d) /\ p \in 1..Len(d)
<1> DEFINE d == DoneOf(sel, cands)[c]
<1>1. /\ c \in sel /\ Stretch(d, p, q) /\ TurnIs(t, c, d, p, q) /\ t.end <= F
  BY DEF FinalTurn
<1>2. c \in Channels /\ d = cands[c].done /\ Talks(c, cands[c])
  BY <1>1 DEF DoneOf, AllTalk
<1> HIDE DEF d
<1>3. /\ IsSequence(d) /\ Len(d) <= Len(Speech[c])
      /\ \A i \in 1..Len(d) :
         /\ d[i].start = Speech[c][i].start /\ d[i].end \in Int /\ d[i].start < d[i].end
  BY <1>2 DEF Talks, DoneIs
<1>4. Len(d) \in Nat /\ Len(Speech[c]) \in Nat
      /\ \A i \in 1..Len(Speech[c]) : Speech[c][i].start \in Nat
  BY <1>2, <1>3, SequenceShape, SpeechShape DEF SpeechIs
<1>5. p \in 1..Len(d) /\ q \in p..Len(d)
  BY <1>1 DEF Stretch, Starts
<1>6. p \in 1..Len(Speech[c]) /\ p \in p..q /\ \A i \in p..q : i \in 1..Len(d)
  BY <1>3, <1>4, <1>5
<1>7. t.start = d[p].start /\ d[p].end <= t.end /\ t.end \in {d[i].end : i \in p..q}
  BY <1>1, <1>6 DEF TurnIs
<1>8. t.end \in Int
  BY <1>3, <1>6, <1>7
<1>9. d[p].start = Speech[c][p].start /\ d[p].start < d[p].end /\ d[p].end \in Int
      /\ d[p].start \in Nat
  BY <1>3, <1>4, <1>5, <1>6
<1>10. Speech[c][p].start < F
  <2> DEFINE a == Speech[c][p].start
             b == d[p].end
             e == t.end
  <2>1. a \in Nat /\ b \in Int /\ e \in Int /\ a < b /\ b <= e /\ e <= F
    BY <1>1, <1>7, <1>8, <1>9
  <2> HIDE DEF a, b, e
  <2>2. a < F
    BY <2>1
  <2> QED BY <2>2 DEF a
<1> QED BY <1>1, <1>2, <1>4, <1>5, <1>6, <1>7, <1>8, <1>9, <1>10 DEF d

\* What a final turn says is said by the words that go on from these.
LEMMA FinalTurnCarries ==
    ASSUME NEW t, NEW j, NEW F, NEW sel, NEW cands, NEW ws, NEW c, NEW p, NEW q,
           sel \in SUBSET Channels, AllTalk(cands), F \in Int,
           OpenBehind(sel, DoneOf(sel, cands), F),
           \A d \in sel : Agree(cands[d].done, ws[d]) /\ Len(ws[d]) <= Len(Speech[d]),
           FinalTurn(t, j, F, sel, DoneOf(sel, cands), c, p, q)
    PROVE  FinalTurn(t, j, F, sel, ws, c, p, q)
<1> DEFINE dn == DoneOf(sel, cands)
<1>1. /\ c \in sel /\ p \in 1..Len(Speech[c]) /\ Speech[c][p].start < F
      /\ Len(dn[c]) \in Nat /\ q \in p..Len(dn[c]) /\ p \in 1..Len(dn[c])
  BY FinalTurnBegins
<1>2. \A d \in sel : Agree(dn[d], ws[d]) /\ Len(ws[d]) <= Len(Speech[d])
  BY DEF DoneOf
<1>3. /\ Stretch(dn[c], p, q) /\ TurnIs(t, c, dn[c], p, q) /\ t.end <= F
      /\ j = Place(sel, dn, c, p)
  BY DEF FinalTurn
<1> HIDE DEF dn
<1>4. q <= Len(dn[c])
  BY <1>1
<1>5. Agree(dn[c], ws[c])
  BY <1>1, <1>2
<1>6. Stretch(ws[c], p, q)
  BY <1>3, <1>4, <1>5, TurnCarries
<1>7. TurnIs(t, c, ws[c], p, q)
  BY <1>3, <1>4, <1>5, TurnCarries
<1>8. Preceding(sel, dn, c, p) = Preceding(sel, ws, c, p)
  BY <1>1, <1>2, PrecedingStays DEF dn
<1>9. j = Place(sel, ws, c, p)
  BY <1>3, <1>8 DEF Place
<1> QED BY <1>1, <1>3, <1>6, <1>7, <1>9 DEF FinalTurn

\* The final turns of the dialogue of some words.
LEMMA DialogueFinal ==
    ASSUME NEW D, NEW m, NEW sel, NEW cands, sel \in SUBSET Channels, AllTalk(cands),
           m.final \in Int, OpenBehind(sel, DoneOf(sel, cands), m.final),
           DialogueIs(D, m, sel, cands)
    PROVE  FinalTurns(D, m.final, sel, DoneOf(sel, cands))
<1> DEFINE dn == DoneOf(sel, cands)
           ws == WordsOf(sel, cands)
<1> SUFFICES ASSUME NEW j \in 1..Len(D), D[j].final
             PROVE  \E c, p, q : FinalTurn(D[j], j, m.final, sel, dn, c, p, q)
  BY DEF FinalTurns
<1>1. PICK c, p, q : DialogueTurn(D, m, sel, cands, j, c, p, q)
  BY DEF DialogueIs
<1>2. /\ c \in sel /\ Span(ws[c], p, q) /\ Stretch(ws[c], p, q) /\ TurnIs(D[j], c, ws[c], p, q)
      /\ q <= Len(cands[c].done) /\ D[j].end <= m.final
      /\ j = Place(sel, ws, c, p)
  BY <1>1 DEF DialogueTurn
<1>3. \A d \in sel : /\ Agree(dn[d], ws[d]) /\ Len(ws[d]) <= Len(Speech[d])
                     /\ dn[d] = cands[d].done /\ Talks(d, cands[d])
  <2> TAKE d \in sel
  <2>1. Talks(d, cands[d]) /\ dn[d] = cands[d].done
    BY DEF AllTalk, DoneOf
  <2>2. WordsAre(d, cands[d], ws[d])
    BY TalkIsReadable DEF Readable
  <2> HIDE DEF ws, dn
  <2> QED BY <2>1, <2>2, WordsAgree
<1> HIDE DEF ws, dn
<1>4. q <= Len(dn[c]) /\ Agree(dn[c], ws[c])
  BY <1>2, <1>3
<1>5. Stretch(dn[c], p, q)
  BY <1>2, <1>4, TurnCarries
<1>6. TurnIs(D[j], c, dn[c], p, q)
  BY <1>2, <1>4, <1>5, TurnCarries
<1>7. p \in 1..Len(Speech[c]) /\ Speech[c][p].start < m.final
  <2> DEFINE d == dn[c]
  <2>1. /\ IsSequence(d) /\ Len(d) <= Len(Speech[c])
        /\ \A i \in 1..Len(d) :
           /\ d[i].start = Speech[c][i].start /\ d[i].end \in Int /\ d[i].start < d[i].end
    BY <1>2, <1>3 DEF Talks, DoneIs
  <2>2. c \in Channels /\ Len(d) \in Nat /\ Len(Speech[c]) \in Nat
        /\ \A i \in 1..Len(Speech[c]) : Speech[c][i].start \in Nat
    BY <1>2, <2>1, SequenceShape, SpeechShape DEF SpeechIs
  <2>3. p \in 1..Len(d) /\ q \in p..Len(d)
    BY <1>5 DEF Stretch, Starts
  <2>4. /\ D[j].end \in {d[i].end : i \in p..q} /\ \A i \in p..q : d[i].end <= D[j].end
    BY <1>6 DEF TurnIs
  <2> HIDE DEF d
  <2>5. p \in p..q /\ p \in 1..Len(Speech[c]) /\ \A i \in p..q : i \in 1..Len(d)
    BY <2>1, <2>2, <2>3
  <2>6. D[j].end \in Int
    BY <2>1, <2>4, <2>5
  <2> DEFINE a == Speech[c][p].start
             b == d[p].end
             e == D[j].end
             F == m.final
  <2>7. a \in Nat /\ b \in Int /\ e \in Int /\ a < b /\ b <= e /\ e <= F /\ F \in Int
    BY <1>2, <2>1, <2>2, <2>3, <2>4, <2>5, <2>6
  <2> HIDE DEF a, b, e, F
  <2>8. a < F
    BY <2>7
  <2> QED BY <2>5, <2>8 DEF a, F
<1>8. Preceding(sel, dn, c, p) = Preceding(sel, ws, c, p)
  <2>1. OpenBehind(sel, dn, m.final)
    BY DEF dn
  <2>2. \A d \in sel : Agree(dn[d], ws[d]) /\ Len(ws[d]) <= Len(Speech[d])
    BY <1>3
  <2> DEFINE F == m.final
  <2>3. F \in Int /\ Speech[c][p].start < F /\ OpenBehind(sel, dn, F)
    BY <1>7, <2>1
  <2> HIDE DEF F
  <2> QED BY <1>2, <1>7, <2>2, <2>3, PrecedingStays
<1>9. j = Place(sel, dn, c, p)
  BY <1>2, <1>8 DEF Place
<1>10. FinalTurn(D[j], j, m.final, sel, dn, c, p, q)
  BY <1>2, <1>5, <1>6, <1>9 DEF FinalTurn
<1> QED BY <1>10

LEMMA PrefixOfFunctions ==
    ASSUME NEW s, NEW t, IsSequence(s), IsSequence(t), Len(s) <= Len(t),
           \A i \in 1..Len(s) : s[i] = t[i]
    PROVE  IsPrefix(s, t)
<1>1. Len(s) \in Nat /\ Len(t) \in Nat
  BY SequenceShape
<1> DEFINE n == Len(s)
<1>2. n \in 0..n /\ n \in 0..Len(t) /\ 0 \in 0..n
  BY <1>1
<1> DEFINE a == SubSeq(s, 0 + 1, n)
           b == SubSeq(t, 0 + 1, n)
<1>3. IsSequence(a) /\ Len(a) = n - 0 /\ \A i \in 1..(n - 0) : a[i] = s[0 + i]
  BY <1>2, Part
<1>4. IsSequence(b) /\ Len(b) = n - 0 /\ \A i \in 1..(n - 0) : b[i] = t[0 + i]
  BY <1>2, Part
<1> HIDE DEF a, b
<1>5. \A i \in 1..n : 0 + i = i /\ i \in 1..(n - 0)
  BY <1>1
<1>6. \A i \in 1..Len(a) : a[i] = b[i]
  BY <1>1, <1>3, <1>4, <1>5
<1>7. a = b
  BY <1>3, <1>4, <1>6, SameSequence
<1>8. SubSeq(s, 1, n) = SubSeq(t, 1, n)
  BY <1>7 DEF a, b
<1> QED BY <1>8 DEF IsPrefix

\* What the client sees of a turn that was final stays.
TurnKeeps(t, u) ==
    /\ u.channel = t.channel /\ u.index = t.index /\ u.start = t.start
    /\ IsPrefix(t.text, u.text)

\* The words of a turn.
TextIs(x, w, p, q) ==
    /\ IsSequence(x) /\ Len(x) = q - p + 1 /\ DOMAIN x = 1..(q - p + 1)
    /\ \A k \in 1..(q - p + 1) : x[k] = w[p + k - 1].text

LEMMA TextShape ==
    ASSUME NEW t, NEW c, NEW w, NEW p, NEW q, TurnIs(t, c, w, p, q), p \in Nat, q \in Nat, p <= q
    PROVE  TextIs(t.text, w, p, q)
<1> DEFINE n == q - p + 1
           x == t.text
<1>1. x = [k \in 1..n |-> w[p + k - 1].text] /\ n \in Nat
  BY DEF TurnIs
<1> HIDE DEF n, x
<1>2. DOMAIN x = 1..n /\ x = [k \in DOMAIN x |-> x[k]]
  BY <1>1
<1>3. IsSequence(x) /\ Len(x) = n
  BY <1>1, <1>2, FunctionIsSequence
<1>4. \A k \in 1..n : x[k] = w[p + k - 1].text
  BY <1>1
<1> QED BY <1>2, <1>3, <1>4 DEF TextIs, n, x

\* In a later dialogue a final turn is where it was, and begins as it did.
LEMMA FinalStays ==
    ASSUME NEW t, NEW j, NEW F, NEW sel, NEW cands, NEW c, NEW p, NEW q, NEW m, NEW D,
           sel \in SUBSET Channels, AllTalk(cands), F \in Int,
           OpenBehind(sel, DoneOf(sel, cands), F),
           FinalTurn(t, j, F, sel, DoneOf(sel, cands), c, p, q),
           DialogueIs(D, m, sel, cands)
    PROVE  j \in 1..Len(D) /\ TurnKeeps(t, D[j])
<1> DEFINE ws == WordsOf(sel, cands)
           w == ws[c]
<1>1. \A d \in sel : Agree(cands[d].done, ws[d]) /\ Len(ws[d]) <= Len(Speech[d])
  <2> TAKE d \in sel
  <2>1. Talks(d, cands[d])
    BY DEF AllTalk
  <2>2. WordsAre(d, cands[d], ws[d])
    BY TalkIsReadable DEF Readable
  <2> HIDE DEF ws
  <2> QED BY <2>1, <2>2, WordsAgree
<1>2. FinalTurn(t, j, F, sel, ws, c, p, q)
  <2> HIDE DEF ws
  <2> QED BY <1>1, FinalTurnCarries
<1>3. /\ c \in sel /\ Stretch(w, p, q) /\ TurnIs(t, c, w, p, q) /\ j = Place(sel, ws, c, p)
  BY <1>2 DEF FinalTurn
<1>4. p \in Starts(w) /\ p \in 1..Len(w) /\ q \in p..Len(w)
      /\ \A i \in Starts(w) : ~ (p < i /\ i <= q)
  BY <1>3 DEF Stretch, Starts
<1>5. PICK k, r : k \in 1..Len(D) /\ DialogueTurn(D, m, sel, cands, k, c, p, r)
  BY <1>3, <1>4 DEF DialogueIs
<1>6. k = j /\ Span(w, p, r) /\ TurnIs(D[j], c, w, p, r)
  BY <1>3, <1>5 DEF DialogueTurn
<1>7. Len(w) \in Nat
  BY <1>1, <1>3 DEF Agree
<1> HIDE DEF w
<1>8. r \in p..Len(w) /\ (r = Len(w) \/ r + 1 \in Starts(w))
  BY <1>6 DEF Span
<1>9. q <= r /\ p \in Nat /\ q \in Nat /\ r \in Nat /\ p <= q /\ p <= r
  <2>1. p \in Nat /\ q \in Nat /\ r \in Nat /\ p <= q /\ p <= r /\ q <= Len(w)
    BY <1>4, <1>7, <1>8
  <2>2. ~ (r + 1 <= q)
    BY <1>4, <1>7, <1>8, <2>1
  <2> QED BY <2>1, <2>2
<1> DEFINE u == D[j]
<1>10. /\ IsSequence(t.text) /\ Len(t.text) = q - p + 1
       /\ \A i \in 1..(q - p + 1) : t.text[i] = w[p + i - 1].text
  <2>1. TextIs(t.text, w, p, q)
    BY <1>3, <1>9, TextShape
  <2> QED BY <2>1 DEF TextIs
<1>11. /\ IsSequence(u.text) /\ Len(u.text) = r - p + 1
       /\ \A i \in 1..(r - p + 1) : u.text[i] = w[p + i - 1].text
  <2>1. TextIs(u.text, w, p, r)
    BY <1>6, <1>9, TextShape
  <2> QED BY <2>1 DEF TextIs
<1>12. IsPrefix(t.text, u.text)
  <2> DEFINE a == t.text
             b == u.text
             M == q - p + 1
             N == r - p + 1
  <2>1. M \in Nat /\ N \in Nat /\ M <= N
    BY <1>9
  <2>2. \A i \in 1..M : i \in 1..N
    <3> HIDE DEF M, N
    <3> QED BY <2>1
  <2>3. \A i \in 1..M : a[i] = b[i]
    BY <1>10, <1>11, <2>2
  <2>4. IsSequence(a) /\ IsSequence(b) /\ Len(a) = M /\ Len(b) = N
    BY <1>10, <1>11
  <2> HIDE DEF a, b, M, N
  <2>5. IsPrefix(a, b)
    BY <2>1, <2>3, <2>4, PrefixOfFunctions
  <2> QED BY <2>5 DEF a, b
<1>13. u.channel = t.channel /\ u.index = t.index /\ u.start = t.start
  BY <1>3, <1>6 DEF TurnIs
<1>14. j \in 1..Len(D)
  BY <1>5, <1>6
<1> QED BY <1>12, <1>13, <1>14 DEF TurnKeeps

\* A final turn that looks the same is the same.
LEMMA SameFinal ==
    ASSUME NEW t, NEW u, NEW i, NEW j, NEW F, NEW G, NEW sel, NEW cands,
           NEW c, NEW p, NEW q, NEW d, NEW r, NEW s,
           sel \in SUBSET Channels, AllTalk(cands), F \in Int, G \in Int,
           FinalTurn(t, i, F, sel, DoneOf(sel, cands), c, p, q),
           FinalTurn(u, j, G, sel, DoneOf(sel, cands), d, r, s),
           SameTurn(t, u)
    PROVE  t = u
<1> DEFINE w == DoneOf(sel, cands)[c]
<1>1. /\ Len(w) \in Nat /\ q \in p..Len(w) /\ p \in 1..Len(w) /\ t.end \in Int
      /\ Stretch(w, p, q) /\ TurnIs(t, c, w, p, q)
  <2>1. Stretch(w, p, q) /\ TurnIs(t, c, w, p, q)
    BY DEF FinalTurn
  <2>2. Len(w) \in Nat /\ q \in p..Len(w) /\ p \in 1..Len(w) /\ t.end \in Int
    BY FinalTurnBegins
  <2> QED BY <2>1, <2>2
<1>2. d = c
  BY DEF FinalTurn, TurnIs, SameTurn
<1>3. /\ s \in r..Len(w) /\ r \in 1..Len(w) /\ u.end \in Int
      /\ Stretch(w, r, s) /\ TurnIs(u, c, w, r, s)
  <2>1. FinalTurn(u, j, G, sel, DoneOf(sel, cands), c, r, s)
    BY <1>2
  <2>2. Stretch(w, r, s) /\ TurnIs(u, c, w, r, s)
    BY <2>1 DEF FinalTurn
  <2>3. s \in r..Len(w) /\ r \in 1..Len(w) /\ u.end \in Int
    BY <2>1, FinalTurnBegins
  <2> QED BY <2>2, <2>3
<1> HIDE DEF w
<1>4. p = r
  <2>1. p \in Starts(w) /\ r \in Starts(w)
    BY <1>1, <1>3 DEF Stretch
  <2>2. Cardinality(StartsBelow(w, p)) = Cardinality(StartsBelow(w, r))
    BY <1>1, <1>3 DEF TurnIs, SameTurn
  <2> QED BY <1>1, <2>1, <2>2, StartsRank
<1>5. p \in Nat /\ q \in Nat /\ s \in Nat /\ p <= q /\ p <= s
  BY <1>1, <1>3, <1>4
<1>6. q = s
  <2>1. Len(t.text) = q - p + 1
    <3>1. TextIs(t.text, w, p, q)
      BY <1>1, <1>5, TextShape
    <3> QED BY <3>1 DEF TextIs
  <2>2. Len(u.text) = s - p + 1
    <3>1. TextIs(u.text, w, p, s)
      BY <1>3, <1>4, <1>5, TextShape
    <3> QED BY <3>1 DEF TextIs
  <2>3. t.text = u.text
    BY DEF SameTurn
  <2>4. q - p + 1 = s - p + 1
    BY <2>1, <2>2, <2>3
  <2> QED BY <1>5, <2>4
<1>7. t.end = u.end
  <2> DEFINE E == {w[k].end : k \in p..q}
             a == t.end
             b == u.end
  <2>1. a \in E /\ b \in E
    BY <1>1, <1>3, <1>4, <1>6 DEF TurnIs
  <2>2. (\A k \in p..q : w[k].end <= a) /\ (\A k \in p..q : w[k].end <= b)
    BY <1>1, <1>3, <1>4, <1>6 DEF TurnIs
  <2>3. a \in Int /\ b \in Int
    BY <1>1, <1>3
  <2>4. a <= b /\ b <= a
    <3> HIDE DEF a, b
    <3> QED BY <2>1, <2>2
  <2> HIDE DEF a, b
  <2>5. a = b
    BY <2>3, <2>4
  <2> QED BY <2>5 DEF a, b
<1>8. t.start = u.start
  BY <1>1, <1>3, <1>4 DEF TurnIs
<1>9. IsTurn(t) /\ IsTurn(u)
  BY <1>1, <1>3 DEF TurnIs
<1>10. /\ t.channel = u.channel /\ t.index = u.index /\ t.text = u.text
       /\ t.stable = u.stable /\ t.final = u.final /\ t.backchannel = u.backchannel
  BY DEF SameTurn
<1> QED BY <1>7, <1>8, <1>9, <1>10, Zenon DEF IsTurn

-----------------------------------------------------------------------------
(* The frontier never passes an open word (FrontierAdvances).                *)

LEMMA MinimumExists ==
    ASSUME NEW S, S \in SUBSET Int, IsFiniteSet(S), S # {}
    PROVE  Min(S) \in S /\ \A y \in S : Min(S) <= y
<1> DEFINE a == Ascending(S)
<1>1. Lists(S, Smaller(S), a)
  BY AscendingLists
<1> HIDE DEF a
<1>2. /\ Len(a) \in Nat /\ \A k \in 1..Len(a) : a[k] \in S
      /\ \A x \in S : Rank(S, Smaller(S), x) + 1 \in 1..Len(a)
                      /\ a[Rank(S, Smaller(S), x) + 1] = x
      /\ \A i, j \in 1..Len(a) : i < j <=> <<a[i], a[j]>> \in Smaller(S)
  BY <1>1 DEF Lists
<1>3. \A x \in S : \E k \in 1..Len(a) : a[k] = x
  BY <1>2
<1>4. 1 \in 1..Len(a)
  <2>1. PICK x \in S : TRUE
    OBVIOUS
  <2>2. PICK k \in 1..Len(a) : a[k] = x
    BY <1>3
  <2>3. Len(a) \in Nat
    BY <1>2
  <2> DEFINE n == Len(a)
  <2> HIDE DEF n
  <2>4. k \in 1..n /\ n \in Nat
    BY <2>3 DEF n
  <2>5. 1 \in 1..n
    BY <2>4
  <2> QED BY <2>5 DEF n
<1>5. \A y \in S : a[1] <= y
  <2> TAKE y \in S
  <2>1. PICK k \in 1..Len(a) : a[k] = y
    BY <1>3
  <2>2. k = 1 \/ 1 < k
    BY <1>2
  <2>3. 1 < k => a[1] < y
    BY <1>2, <1>4, <2>1 DEF Smaller
  <2>4. a[1] \in Int /\ y \in Int
    BY <1>2, <1>4
  <2> QED BY <2>1, <2>2, <2>3, <2>4
<1>6. \E x \in S : \A y \in S : x <= y
  BY <1>2, <1>4, <1>5
<1> QED BY <1>6 DEF Min

\* How far the frontiers have come.
FrontierIs(new, m, sel, cands, mode) ==
    /\ new.last = m.last /\ {"last", "final", "stable"} \subseteq DOMAIN new
    /\ new.final \in Int /\ new.stable \in Int /\ m.final <= new.final
    /\ OpenBehind(sel, DoneOf(sel, cands), new.final)
    /\ mode = "Terminal" =>
         \A N \in Int : (\A c \in sel : Len(cands[c].fed) = N) /\ sel # {} => N <= new.final

IsMerger(m) == /\ {"last", "final", "stable"} \subseteq DOMAIN m
               /\ m.final \in Int /\ m.stable \in Int

\* The channels of a selection, in order, each with its snapshot.
SnapshotsOf(sel, cands) ==
    [i \in DOMAIN Ascending(sel) |-> Snapshot(Ascending(sel)[i], cands[Ascending(sel)[i]])]

LEMMA SnapshotsAre ==
    ASSUME NEW sel, NEW cands, sel \in SUBSET Channels, Count \in Nat
    PROVE  LET s == SnapshotsOf(sel, cands)
               order == Ascending(sel)
           IN  /\ IsSequence(s) /\ Len(s) \in Nat /\ DOMAIN s = 1..Len(s)
               /\ \A i \in 1..Len(s) : order[i] \in sel /\ s[i] = Snapshot(order[i], cands[order[i]])
               /\ \A c \in sel : \E i \in 1..Len(s) : s[i] = Snapshot(c, cands[c])
<1> DEFINE s == SnapshotsOf(sel, cands)
           order == Ascending(sel)
           n == Len(order)
<1>1. sel \in SUBSET Int /\ IsFiniteSet(sel)
  <2>1. sel \in SUBSET (0..(Count - 1))
    BY DEF Channels, AllChannels
  <2>2. 0 \in Int /\ Count - 1 \in Int
    OBVIOUS
  <2>3. IsFiniteSet(0..(Count - 1))
    BY <2>2, FS_Interval
  <2>4. IsFiniteSet(sel)
    BY <2>1, <2>3, FS_Subset
  <2> QED BY <2>1, <2>4
<1>2. Lists(sel, Smaller(sel), order)
  BY <1>1, AscendingLists
<1>3. s = [i \in DOMAIN order |-> Snapshot(order[i], cands[order[i]])]
  BY DEF SnapshotsOf
<1> HIDE DEF order, n, s
<1>4. /\ n \in Nat /\ DOMAIN order = 1..n /\ \A i \in 1..n : order[i] \in sel
      /\ \A c \in sel : \E i \in 1..n : order[i] = c
  <2>1. IsSequence(order)
    BY <1>2 DEF Lists
  <2> QED BY <1>2, <2>1, SequenceShape DEF Lists, n
<1>5. IsSequence(s) /\ Len(s) = n
  <2>1. DOMAIN s = 1..n /\ s = [i \in DOMAIN s |-> s[i]]
    BY <1>3, <1>4
  <2> QED BY <1>4, <2>1, FunctionIsSequence
<1>6. DOMAIN s = 1..Len(s)
  BY <1>5, SequenceShape
<1>7. \A i \in 1..n : s[i] = Snapshot(order[i], cands[order[i]])
  BY <1>3, <1>4
<1>8. \A c \in sel : \E i \in 1..n : s[i] = Snapshot(c, cands[c])
  BY <1>4, <1>7
<1> QED BY <1>4, <1>5, <1>6, <1>7, <1>8 DEF s, order

\* advance_frontiers.
LEMMA FrontierAdvances ==
    ASSUME NEW m, NEW sel, NEW cands, NEW mode, IsMerger(m), sel \in SUBSET Channels,
           AllTalk(cands), Count \in Nat, OpenBehind(sel, DoneOf(sel, cands), m.final),
           mode \in {"Incremental", "Terminal"},
           mode = "Terminal" => \A c \in sel : Flush(c, cands[c])
    PROVE  FrontierIs(AdvanceFrontiers(m, SnapshotsOf(sel, cands), mode), m, sel, cands, mode)
<1> DEFINE s == SnapshotsOf(sel, cands)
           fuzz == IF mode = "Incremental" THEN Fuzz ELSE 0
           cuts == {s[i].cut - fuzz : i \in DOMAIN s}
           stables == {s[i].stable : i \in DOMAIN s}
           new == AdvanceFrontiers(m, s, mode)
           order == Ascending(sel)
           dn == DoneOf(sel, cands)
           n == Len(s)
<1>1. /\ IsSequence(s) /\ n \in Nat /\ DOMAIN s = 1..n
      /\ \A i \in 1..n : order[i] \in sel /\ s[i] = Snapshot(order[i], cands[order[i]])
      /\ \A c \in sel : \E i \in 1..n : s[i] = Snapshot(c, cands[c])
  BY SnapshotsAre
<1>2. fuzz \in Nat /\ Slack \in Nat /\ (mode = "Incremental" => Slack <= fuzz)
  BY MultiStreamAssumption
<1>3. /\ {"last", "final", "stable"} \subseteq DOMAIN m /\ m.final \in Int /\ m.stable \in Int
  BY DEF IsMerger
<1>4. \A c \in sel : /\ Talks(c, cands[c]) /\ cands[c].cut \in Int
                     /\ dn[c] = cands[c].done
  BY DEF AllTalk, Talks, DoneOf
<1> HIDE DEF s, n, order, fuzz, dn
<1>5. \A i \in 1..n : /\ s[i].cut = cands[order[i]].cut /\ s[i].stable = cands[order[i]].cut
                      /\ s[i].cut \in Int
  BY <1>1, <1>4, SnapshotFields
<1>6. CASE s = <<>>
  <2>1. new = m
    BY <1>6 DEF AdvanceFrontiers
  <2>2. n = 0
    BY <1>6 DEF n
  <2>3. sel = {}
    BY <1>1, <2>2
  <2> HIDE DEF new
  <2> QED BY <1>3, <2>1, <2>3 DEF FrontierIs, new, s
<1>7. CASE s # <<>>
  <2>1. new = [m EXCEPT !.final = Max({@, Min(cuts)}), !.stable = Max({@, Min(stables)})]
    BY <1>7, Zenon DEF AdvanceFrontiers, fuzz
  <2>2. IsFiniteSet(1..n)
    <3>1. 1 \in Int /\ n \in Int
      BY <1>1
    <3> QED BY <3>1, FS_Interval
  <2>3. 1 \in 1..n
    <3>1. n # 0
      <4> SUFFICES ASSUME n = 0 PROVE s = <<>>
        BY <1>7
      <4>1. DOMAIN s = 1..0
        BY <1>1
      <4>2. IsSequence(<<>>) /\ Len(<<>>) = 0
        BY EmptyTells
      <4>3. Len(s) = 0
        BY DEF n
      <4> QED BY <1>1, <4>2, <4>3, SameSequence
    <3> QED BY <1>1, <3>1
  <2>4. Min(cuts) \in cuts /\ Min(cuts) \in Int /\ \A y \in cuts : Min(cuts) <= y
    <3>1. cuts \in SUBSET Int /\ cuts # {}
      BY <1>1, <1>2, <1>5, <2>3
    <3> DEFINE f == [i \in 1..n |-> s[i].cut - fuzz]
    <3>2. f \in Surjection(1..n, cuts)
      BY <1>1 DEF Surjection
    <3> HIDE DEF f, cuts
    <3>3. IsFiniteSet(cuts)
      BY <2>2, <3>2, FS_Surjection
    <3>4. Min(cuts) \in cuts /\ \A y \in cuts : Min(cuts) <= y
      BY <3>1, <3>3, MinimumExists
    <3> QED BY <3>1, <3>4
  <2>5. Min(stables) \in Int
    <3>1. stables \in SUBSET Int /\ stables # {}
      BY <1>1, <1>5, <2>3, SMTT(30)
    <3> DEFINE f == [i \in 1..n |-> s[i].stable]
    <3>2. f \in Surjection(1..n, stables)
      BY <1>1 DEF Surjection
    <3> HIDE DEF f, stables
    <3>3. IsFiniteSet(stables)
      BY <2>2, <3>2, FS_Surjection
    <3> QED BY <3>1, <3>3, MinimumExists
  <2> DEFINE a == m.final
             b == Min(cuts)
             x == Max({a, b})
             y == Max({m.stable, Min(stables)})
  <2>6. new = [m EXCEPT !.final = x, !.stable = y]
    BY <2>1
  <2>7. a \in Int /\ b \in Int
    BY <1>3, <2>4
  <2> HIDE DEF cuts, stables
  <2>8. y \in Int
    <3> DEFINE e == m.stable
               f == Min(stables)
    <3>1. e \in Int /\ f \in Int
      BY <1>3, <2>5
    <3> HIDE DEF e, f
    <3>2. Max({e, f}) \in {e, f}
      BY <3>1, OfTwo, Zenon
    <3>3. Max({e, f}) \in Int
      BY <3>1, <3>2
    <3> QED BY <3>3 DEF e, f
  <2> HIDE DEF a, b, y, new
  <2>9. x \in {a, b} /\ x >= a /\ x >= b
    BY <2>7, OfTwo, Zenon
  <2> HIDE DEF x
  <2>10. x \in Int /\ a <= x /\ b <= x
    BY <2>7, <2>9
  <2>11. new.final = x /\ new.stable = y /\ new.last = m.last /\ DOMAIN new = DOMAIN m
    BY <1>3, <2>6
  <2>12. ASSUME NEW c \in sel PROVE b <= cands[c].cut - fuzz
    <3>1. PICK i \in 1..n : s[i] = Snapshot(c, cands[c])
      BY <1>1
    <3>2. s[i].cut = cands[c].cut
      BY <3>1, SnapshotFields
    <3>3. s[i].cut - fuzz \in cuts
      BY <1>1 DEF cuts
    <3>4. cands[c].cut - fuzz \in cuts
      BY <3>2, <3>3
    <3> QED BY <2>4, <3>4 DEF b
  <2>13. ASSUME NEW c \in sel, NEW i \in 1..Len(Speech[c]), i > Len(dn[c])
         PROVE  Speech[c][i].start >= x
    <3> DEFINE e == Speech[c][i].start
               cut == cands[c].cut
    <3>1. c \in Channels /\ Len(Speech[c]) \in Nat /\ e \in Nat
      BY SpeechShape DEF SpeechIs
    <3>2. e >= a
      BY <2>13 DEF OpenBehind, a, dn
    <3>3. e >= b
      <4>1. cut \in Int /\ b <= cut - fuzz
        BY <1>4, <2>12
      <4>2. CASE mode = "Incremental"
        <5>1. OpenFrom(c, cands[c].done, cut - Slack)
          BY <1>4 DEF Talks
        <5>2. e >= cut - Slack
          BY <1>4, <2>13, <5>1 DEF OpenFrom
        <5> HIDE DEF e, cut
        <5> QED BY <1>2, <2>7, <3>1, <4>1, <4>2, <5>2
      <4>3. CASE mode = "Terminal"
        <5> DEFINE now == Len(cands[c].fed)
                   h == Heard(c, now)
        <5>1. cut = now /\ Len(cands[c].done) = Len(h)
          BY <4>3 DEF Flush
        <5>2. IsSequence(cands[c].fed)
          BY <1>4 DEF Talks
        <5>3. now \in Nat
          BY <5>2, SequenceShape
        <5>4. HeardIs(c, now, h)
          BY <3>1, <5>3, HeardShape
        <5>5. Len(h) \in 0..Len(Speech[c]) /\ (i <= Len(h) <=> e < now)
          BY <5>4 DEF HeardIs
        <5>6. ~ (i <= Len(h))
          <6>1. i > Len(h) /\ Len(h) \in Int /\ i \in Int
            BY <1>4, <2>13, <3>1, <5>1, <5>5
          <6> HIDE DEF h
          <6> QED BY <6>1
        <5>7. ~ (e < now)
          BY <5>5, <5>6
        <5> HIDE DEF e, cut, now, h
        <5>8. cut = now
          BY <5>1
        <5> QED BY <1>2, <2>7, <3>1, <4>1, <5>3, <5>7, <5>8
      <4> QED BY <4>2, <4>3
    <3> HIDE DEF e
    <3>4. e >= x
      BY <2>7, <2>9, <3>1, <3>2, <3>3
    <3> QED BY <3>4 DEF e
  <2>14. OpenBehind(sel, dn, x)
    BY <2>13 DEF OpenBehind
  <2>15. ASSUME mode = "Terminal", NEW N \in Int, \A c \in sel : Len(cands[c].fed) = N, sel # {}
         PROVE  N <= x
    <3>1. fuzz = 0
      BY <2>15 DEF fuzz
    <3>2. PICK i \in 1..n : b = s[i].cut - fuzz
      BY <1>1, <2>4 DEF b, cuts
    <3>3. order[i] \in sel /\ s[i].cut = cands[order[i]].cut /\ s[i].cut \in Int
      BY <1>1, <1>5
    <3>4. cands[order[i]].cut = N
      BY <2>15, <3>3 DEF Flush
    <3>5. b = N
      BY <3>1, <3>2, <3>3, <3>4
    <3> QED BY <2>10, <3>5
  <2>16. FrontierIs(new, m, sel, cands, mode)
    BY <1>3, <2>8, <2>10, <2>11, <2>14, <2>15 DEF FrontierIs, a, dn
  <2> QED BY <2>16 DEF new, s
<1> QED BY <1>6, <1>7

-----------------------------------------------------------------------------
(* What the client makes of a patch (PatchShows).                            *)

\* Turns that differ at most in their times.
Alike(t, u) ==
    /\ IsTurn(t) /\ IsTurn(u)
    /\ t.channel = u.channel /\ t.index = u.index /\ t.text = u.text
    /\ t.final = u.final /\ t.stable = u.stable /\ t.backchannel = u.backchannel

Tells(cl, D) ==
    /\ IsSequence(cl) /\ IsSequence(D) /\ Len(cl) = Len(D)
    /\ \A i \in 1..Len(cl) : Alike(cl[i], D[i])

\* What the client holds of the dialogue that the merger holds.
Shows(cl, L) == Tells(cl, L) /\ \A i \in 1..Len(cl) : cl[i].final => cl[i] = L[i]

\* first_difference.
LEMMA FirstDifferenceIs ==
    ASSUME NEW L, NEW D, IsSequence(L), IsSequence(D)
    PROVE  LET r == FirstDifference(L, D)
           IN  /\ r \in 0..Len(L) /\ r \in 0..Len(D)
               /\ \A i \in 1..r : SameTurn(L[i], D[i])
<1> DEFINE n == Min({Len(L), Len(D)})
           shared == 1..n
           differ == {i \in shared : ~SameTurn(L[i], D[i])}
           r == FirstDifference(L, D)
<1>1. Len(L) \in Nat /\ Len(D) \in Nat
  BY SequenceShape
<1>2. n \in Nat /\ n <= Len(L) /\ n <= Len(D)
  <2> DEFINE a == Len(L)
             b == Len(D)
  <2>1. a \in Int /\ b \in Int /\ a \in Nat /\ b \in Nat
    BY <1>1
  <2> HIDE DEF a, b
  <2>2. Min({a, b}) \in {a, b} /\ Min({a, b}) <= a /\ Min({a, b}) <= b
    BY <2>1, OfTwo, Zenon
  <2>3. Min({a, b}) \in Nat
    BY <2>1, <2>2
  <2> QED BY <2>2, <2>3 DEF a, b
<1>3. r = IF differ = {} THEN Cardinality(shared) ELSE Min(differ) - 1
  BY Zenon DEF FirstDifference
<1> HIDE DEF n, r
<1>4. Cardinality(shared) = n
  <2>1. 1 \in Int /\ n \in Int
    BY <1>2
  <2>2. Cardinality(1..n) = IF 1 > n THEN 0 ELSE n - 1 + 1
    BY <2>1, FS_Interval
  <2> QED BY <1>2, <2>2
<1>5. CASE differ = {}
  <2>1. r = n
    BY <1>3, <1>4, <1>5
  <2>2. \A i \in 1..n : SameTurn(L[i], D[i])
    BY <1>5
  <2>3. r \in 0..Len(L) /\ r \in 0..Len(D)
    BY <1>1, <1>2, <2>1
  <2> QED BY <2>1, <2>2, <2>3 DEF r
<1>6. CASE differ # {}
  <2>1. PICK x \in differ : \A y \in differ : x <= y
    <3>1. differ \in SUBSET Nat
      OBVIOUS
    <3> HIDE DEF differ
    <3> QED BY <1>6, <3>1, LeastExists
  <2> DEFINE k == Min(differ)
  <2>2. k \in differ /\ \A y \in differ : k <= y
    <3> HIDE DEF differ
    <3> QED BY <2>1 DEF Min
  <2>3. r = k - 1
    BY <1>3, <1>6
  <2> HIDE DEF k
  <2>4. k \in 1..n
    BY <2>2
  <2>5. \A i \in 1..r : SameTurn(L[i], D[i])
    <3> TAKE i \in 1..r
    <3>1. i \in shared /\ ~ (k <= i)
      BY <1>2, <2>3, <2>4
    <3>2. i \notin differ
      BY <2>2, <3>1
    <3> QED BY <3>1, <3>2
  <2>6. r \in 0..Len(L) /\ r \in 0..Len(D)
    BY <1>1, <1>2, <2>3, <2>4
  <2> QED BY <2>5, <2>6 DEF r
<1> QED BY <1>5, <1>6

\* A dialogue that shows another: its own turns, and from a place on the other's.
Follows(new, cl, D, r) ==
    /\ Shows(new, D)
    /\ \A i \in 1..Len(new) : new[i] = IF i <= r THEN cl[i] ELSE D[i]

\* The client replaces its tail.
LEMMA PatchShows ==
    ASSUME NEW cl, NEW L, NEW D, NEW r, Shows(cl, L), IsSequence(D),
           \A i \in 1..Len(D) : IsTurn(D[i]),
           r \in 0..Len(L), r \in 0..Len(D),
           \A i \in 1..r : SameTurn(L[i], D[i]) /\ (L[i].final => L[i] = D[i])
    PROVE  Follows(SubSeq(cl, 1, r) \o SubSeq(D, r + 1, Len(D)), cl, D, r)
<1> DEFINE n == Len(D)
           head == SubSeq(cl, 0 + 1, r)
           tail == SubSeq(D, r + 1, n)
           new == SubSeq(cl, 1, r) \o SubSeq(D, r + 1, Len(D))
<1>1. /\ IsSequence(cl) /\ IsSequence(L) /\ Len(cl) = Len(L)
      /\ \A i \in 1..Len(cl) : Alike(cl[i], L[i]) /\ (cl[i].final => cl[i] = L[i])
  BY DEF Shows, Tells
<1>2. Len(cl) \in Nat /\ n \in Nat /\ r \in Nat
  BY <1>1, SequenceShape
<1>3. IsSequence(head) /\ Len(head) = r /\ \A i \in 1..r : head[i] = cl[i]
  <2>1. r \in 0..Len(cl) /\ 0 \in 0..r /\ r - 0 = r /\ \A i \in 1..r : 0 + i = i
    BY <1>1, <1>2
  <2> DEFINE z == 0
             part == SubSeq(cl, z + 1, r)
  <2>a. r \in 0..Len(cl) /\ z \in 0..r
    BY <2>1
  <2> HIDE DEF z
  <2>b. IsSequence(part) /\ Len(part) = r - z /\ \A i \in 1..(r - z) : part[i] = cl[z + i]
    BY <1>1, <2>a, Part
  <2>c. part = head
    BY DEF z
  <2> HIDE DEF part, head
  <2>2. IsSequence(head) /\ Len(head) = r - 0 /\ \A i \in 1..(r - 0) : head[i] = cl[0 + i]
    BY <2>b, <2>c DEF z
  <2> HIDE DEF head
  <2> QED BY <2>1, <2>2
<1>4. IsSequence(tail) /\ Len(tail) = n - r /\ \A i \in 1..(n - r) : tail[i] = D[r + i]
  <2>1. n \in 0..Len(D) /\ r \in 0..n
    BY <1>2
  <2> HIDE DEF n
  <2> QED BY <2>1, Part
<1>5. new = head \o tail
  OBVIOUS
<1> HIDE DEF head, tail, new, n
<1>6. r <= n
  BY <1>2 DEF n
<1>7. IsSequence(new) /\ Len(new) = n
      /\ \A i \in 1..n : new[i] = IF i <= r THEN head[i] ELSE tail[i - r]
  <2>1. /\ IsSequence(new) /\ Len(new) = Len(head) + Len(tail)
        /\ \A i \in 1..(Len(head) + Len(tail)) :
             new[i] = IF i <= Len(head) THEN head[i] ELSE tail[i - Len(head)]
    <3> DEFINE j == head \o tail
    <3>1. /\ IsSequence(j) /\ Len(j) = Len(head) + Len(tail)
          /\ \A i \in 1..(Len(head) + Len(tail)) :
               j[i] = IF i <= Len(head) THEN head[i] ELSE tail[i - Len(head)]
      BY <1>3, <1>4, Joined
    <3>2. new = j
      BY <1>5
    <3> HIDE DEF j
    <3> QED BY <3>1, <3>2
  <2>2. Len(head) + Len(tail) = n
    BY <1>2, <1>3, <1>4, <1>6
  <2> QED BY <1>3, <2>1, <2>2
<1>8. ASSUME NEW i \in 1..n
      PROVE  new[i] = IF i <= r THEN cl[i] ELSE D[i]
  <2>1. CASE i <= r
    <3>1. i \in 1..r
      BY <1>2, <2>1
    <3> QED BY <1>3, <1>7, <2>1, <3>1
  <2>2. CASE ~ (i <= r)
    <3>1. i - r \in 1..(n - r) /\ r + (i - r) = i
      BY <1>2, <1>6, <2>2
    <3> DEFINE k == i - r
    <3>2. k \in 1..(n - r) /\ r + k = i /\ new[i] = tail[k]
      BY <1>7, <2>2, <3>1
    <3> HIDE DEF k
    <3>3. new[i] = D[i]
      BY <1>4, <3>2
    <3> QED BY <2>2, <3>3
  <2> QED BY <2>1, <2>2
<1>9. ASSUME NEW i \in 1..n
      PROVE  Alike(new[i], D[i]) /\ (new[i].final => new[i] = D[i])
  <2>1. IsTurn(D[i])
    BY DEF n
  <2>2. CASE i <= r
    <3>1. i \in 1..r /\ i \in 1..Len(cl)
      BY <1>1, <1>2, <2>2
    <3> DEFINE x == cl[i]
               y == L[i]
               z == D[i]
    <3>2. /\ Alike(x, y) /\ (x.final => x = y) /\ SameTurn(y, z) /\ (y.final => y = z)
          /\ IsTurn(z) /\ new[i] = x
      BY <1>1, <1>8, <2>1, <2>2, <3>1
    <3> HIDE DEF x, y, z
    <3>3. Alike(x, z)
      BY <3>2 DEF Alike, SameTurn
    <3>4. x.final => x = z
      BY <3>2
    <3> QED BY <3>2, <3>3, <3>4 DEF z
  <2>3. CASE ~ (i <= r)
    <3>1. new[i] = D[i]
      BY <1>8, <2>3
    <3> QED BY <2>1, <3>1 DEF Alike
  <2> QED BY <2>2, <2>3
<1>10. Shows(new, D)
  BY <1>7, <1>9 DEF Shows, Tells, n
<1>11. \A i \in 1..Len(new) : new[i] = IF i <= r THEN cl[i] ELSE D[i]
  BY <1>7, <1>8
<1> QED BY <1>10, <1>11 DEF Follows, new

\* Nothing is sent when the dialogue looks the same.
LEMMA SameShows ==
    ASSUME NEW cl, NEW L, NEW D, Shows(cl, L), IsSequence(D), Len(D) = Len(L),
           \A i \in 1..Len(D) : IsTurn(D[i]),
           \A i \in 1..Len(D) : SameTurn(L[i], D[i])
    PROVE  Tells(cl, D)
<1>1. /\ IsSequence(cl) /\ Len(cl) = Len(L) /\ \A i \in 1..Len(cl) : Alike(cl[i], L[i])
  BY DEF Shows, Tells
<1>2. \A i \in 1..Len(cl) : Alike(cl[i], D[i])
  <2> TAKE i \in 1..Len(cl)
  <2> DEFINE x == cl[i]
             y == L[i]
             z == D[i]
  <2>1. Alike(x, y) /\ SameTurn(y, z) /\ IsTurn(z)
    BY <1>1
  <2> HIDE DEF x, y, z
  <2>2. Alike(x, z)
    BY <2>1 DEF Alike, SameTurn
  <2> QED BY <2>2 DEF x, z
<1> QED BY <1>1, <1>2 DEF Tells

-----------------------------------------------------------------------------
(* What holds of the dialogue (Dialog): no word begins behind the frontier,  *)
(* final turns are made of final words, and the client holds what the merger *)
(* holds.                                                                    *)

\* What the sessions, the merger and the client have to do with each other.
Dialog(sel, cands, m, cl) ==
    /\ sel \in SUBSET Channels /\ AllTalk(cands) /\ IsMerger(m)
    /\ OpenBehind(sel, DoneOf(sel, cands), m.final)
    /\ FinalTurns(m.last, m.final, sel, DoneOf(sel, cands))
    /\ Shows(cl, m.last)

\* The client's final turns stay.
Keeps(old, new) ==
    \A i \in 1..Len(old) : old[i].final => i \in 1..Len(new) /\ TurnKeeps(old[i], new[i])

\* It stays so while the sessions go on.
LEMMA DialogWent ==
    ASSUME NEW sel, NEW cands, NEW m, NEW cl, NEW new,
           Dialog(sel, cands, m, cl), AllWent(cands, new)
    PROVE  Dialog(sel, new, m, cl)
<1> DEFINE dn == DoneOf(sel, cands)
           ws == DoneOf(sel, new)
           F == m.final
<1>1. /\ sel \in SUBSET Channels /\ AllTalk(cands) /\ IsMerger(m) /\ OpenBehind(sel, dn, F)
      /\ FinalTurns(m.last, F, sel, dn) /\ Shows(cl, m.last)
  BY DEF Dialog
<1>2. AllTalk(new)
  BY DEF AllWent, Went, AllTalk
<1>3. \A d \in sel : /\ Agree(cands[d].done, ws[d]) /\ Len(ws[d]) <= Len(Speech[d])
                     /\ dn[d] = cands[d].done
  <2> TAKE d \in sel
  <2>1. Talks(d, cands[d]) /\ Went(d, cands[d], new[d])
    BY <1>1 DEF AllTalk, AllWent
  <2>2. ws[d] = new[d].done /\ dn[d] = cands[d].done
    BY DEF DoneOf
  <2> HIDE DEF ws, dn
  <2> QED BY <2>1, <2>2, DoneAgrees
<1>4. OpenBehind(sel, ws, F)
  <2> SUFFICES ASSUME NEW d \in sel, NEW i \in 1..Len(Speech[d]), i > Len(ws[d])
               PROVE  Speech[d][i].start >= F
    BY DEF OpenBehind
  <2> HIDE DEF ws, dn
  <2>1. Len(dn[d]) \in Nat /\ Len(ws[d]) \in Nat /\ Len(dn[d]) <= Len(ws[d])
    BY <1>3 DEF Agree
  <2>2. i > Len(dn[d])
    BY <2>1
  <2> QED BY <1>1, <2>2 DEF OpenBehind
<1>5. F \in Int
  BY <1>1 DEF IsMerger
<1>6. FinalTurns(m.last, F, sel, ws)
  <2> SUFFICES ASSUME NEW j \in 1..Len(m.last), m.last[j].final
               PROVE  \E c, p, q : FinalTurn(m.last[j], j, F, sel, ws, c, p, q)
    BY DEF FinalTurns
  <2>1. PICK c, p, q : FinalTurn(m.last[j], j, F, sel, dn, c, p, q)
    BY <1>1 DEF FinalTurns
  <2> HIDE DEF F, ws
  <2>2. FinalTurn(m.last[j], j, F, sel, ws, c, p, q)
    BY <1>1, <1>3, <1>5, <2>1, FinalTurnCarries
  <2> QED BY <2>2
<1> QED BY <1>1, <1>2, <1>4, <1>6 DEF Dialog

LEMMA FrontierMayMove ==
    ASSUME NEW L, NEW F, NEW G, NEW sel, NEW cands, sel \in SUBSET Channels, AllTalk(cands),
           F \in Int, G \in Int, F <= G, FinalTurns(L, F, sel, DoneOf(sel, cands))
    PROVE  FinalTurns(L, G, sel, DoneOf(sel, cands))
<1> DEFINE dn == DoneOf(sel, cands)
<1> SUFFICES ASSUME NEW j \in 1..Len(L), L[j].final
             PROVE  \E c, p, q : FinalTurn(L[j], j, G, sel, dn, c, p, q)
  BY DEF FinalTurns
<1>1. PICK c, p, q : FinalTurn(L[j], j, F, sel, dn, c, p, q)
  BY DEF FinalTurns
<1>2. L[j].end \in Int
  BY <1>1, FinalTurnBegins
<1> HIDE DEF dn
<1>3. L[j].end <= F
  BY <1>1 DEF FinalTurn
<1> DEFINE e == L[j].end
<1>4. e <= G
  <2>1. e \in Int /\ e <= F
    BY <1>2, <1>3
  <2> HIDE DEF e
  <2> QED BY <2>1
<1>5. FinalTurn(L[j], j, G, sel, dn, c, p, q)
  BY <1>1, <1>4 DEF FinalTurn
<1> QED BY <1>5

LEMMA DialogueOfFrontier ==
    ASSUME NEW D, NEW m, NEW new, NEW sel, NEW cands, DialogueIs(D, m, sel, cands),
           new.final = m.final
    PROVE  DialogueIs(D, new, sel, cands)
BY DEF DialogueIs, DialogueTurn

\* update_with.
UpdateIs(update, m, sel, cands, mode) ==
    \E D, ahead :
      /\ DialogueIs(D, ahead, sel, cands) /\ FrontierIs(ahead, m, sel, cands, mode)
      /\ \/ /\ update.patch = <<>> /\ update.merger = ahead
            /\ Len(D) = Len(m.last) /\ FirstDifference(m.last, D) = Len(D)
         \/ /\ update.patch # <<>> /\ update.merger = [ahead EXCEPT !.last = D]
            /\ update.patch[1].from = FirstDifference(m.last, D)
            /\ update.patch[1].turns = SubSeq(D, FirstDifference(m.last, D) + 1, Len(D))

LEMMA UpdateShape ==
    ASSUME NEW m, NEW sel, NEW cands, NEW mode, IsMerger(m), sel \in SUBSET Channels,
           AllTalk(cands), Count \in Nat, OpenBehind(sel, DoneOf(sel, cands), m.final),
           mode \in {"Incremental", "Terminal"},
           mode = "Terminal" => \A c \in sel : Flush(c, cands[c])
    PROVE  LET update == UpdateWith(m, SnapshotsOf(sel, cands), mode)
           IN  update.ok => UpdateIs(update.value, m, sel, cands, mode)
<1> DEFINE snapshots == SnapshotsOf(sel, cands)
           ahead == AdvanceFrontiers(m, snapshots, mode)
           turns == UNION {ToSet(Segment(ahead, snapshots[i])) : i \in DOMAIN snapshots}
           D == MarkBackchannels(Sorted(turns))
           revise == FirstDifference(m.last, D)
           update == UpdateWith(m, snapshots, mode)
<1>1. FrontierIs(ahead, m, sel, cands, mode)
  BY FrontierAdvances
<1>2. Readable(sel, cands)
  BY TalkIsReadable
<1>3. DialogueIs(D, ahead, sel, cands)
  <2> HIDE DEF ahead
  <2>1. TurnsAre(ahead, sel, WordsOf(sel, cands), turns)
    BY <1>2, SnapshotTurns DEF SnapshotsOf
  <2> HIDE DEF turns
  <2> QED BY <1>2, <2>1, DialogueShape
<1>4. update = IF ~ValidChannels(snapshots) THEN Refused
               ELSE IF revise = Len(D) /\ Len(D) = Len(m.last)
                 THEN Ok([merger |-> ahead, patch |-> <<>>])
                 ELSE Ok([merger |-> [ahead EXCEPT !.last = D],
                          patch  |-> <<TurnsPatch(revise, SubSeq(D, revise + 1, Len(D)),
                                                  ahead.final)>>])
  BY Zenon DEF UpdateWith
<1> HIDE DEF update, revise, D, ahead, snapshots
<1>5. CASE ~ValidChannels(snapshots)
  <2>1. ~update.ok
    BY <1>4, <1>5 DEF Refused, Err
  <2> QED BY <2>1 DEF update, snapshots
<1>6. CASE ValidChannels(snapshots) /\ (revise = Len(D) /\ Len(D) = Len(m.last))
  <2>1. update.value.merger = ahead /\ update.value.patch = <<>>
    BY <1>4, <1>6 DEF Ok
  <2>2. UpdateIs(update.value, m, sel, cands, mode)
    BY <1>1, <1>3, <1>6, <2>1 DEF UpdateIs, revise
  <2> QED BY <2>2 DEF update, snapshots
<1>7. CASE ValidChannels(snapshots) /\ ~ (revise = Len(D) /\ Len(D) = Len(m.last))
  <2> DEFINE patch == TurnsPatch(revise, SubSeq(D, revise + 1, Len(D)), ahead.final)
             new == [ahead EXCEPT !.last = D]
  <2>1. update.value.merger = new /\ update.value.patch = <<patch>>
    BY <1>4, <1>7 DEF Ok
  <2>2. patch.from = revise /\ patch.turns = SubSeq(D, revise + 1, Len(D))
    BY DEF TurnsPatch
  <2>3. <<patch>> # <<>> /\ <<patch>>[1] = patch
    OBVIOUS
  <2> HIDE DEF patch
  <2>4. UpdateIs(update.value, m, sel, cands, mode)
    BY <1>1, <1>3, <2>1, <2>2, <2>3 DEF UpdateIs, revise
  <2> QED BY <2>4 DEF update, snapshots
<1> QED BY <1>5, <1>6, <1>7

LEMMA KeepsItself ==
    ASSUME NEW sel, NEW cands, NEW m, NEW cl, Dialog(sel, cands, m, cl)
    PROVE  Keeps(cl, cl)
<1> DEFINE L == m.last
<1>1. /\ sel \in SUBSET Channels /\ AllTalk(cands) /\ m.final \in Int
      /\ FinalTurns(L, m.final, sel, DoneOf(sel, cands))
      /\ Len(cl) = Len(L) /\ \A i \in 1..Len(cl) : cl[i].final => cl[i] = L[i]
  BY DEF Dialog, IsMerger, Shows, Tells
<1> SUFFICES ASSUME NEW i \in 1..Len(cl), cl[i].final PROVE TurnKeeps(cl[i], cl[i])
  BY DEF Keeps
<1> HIDE DEF L
<1> DEFINE t == cl[i]
<1>2. t = L[i] /\ L[i].final /\ i \in 1..Len(L)
  BY <1>1
<1>3. PICK c, p, q : FinalTurn(L[i], i, m.final, sel, DoneOf(sel, cands), c, p, q)
  BY <1>1, <1>2 DEF FinalTurns
<1> DEFINE w == DoneOf(sel, cands)[c]
<1>4. FinalTurn(t, i, m.final, sel, DoneOf(sel, cands), c, p, q)
  BY <1>2, <1>3
<1> HIDE DEF t
<1>5. Len(w) \in Nat /\ p \in 1..Len(w) /\ q \in p..Len(w)
  BY <1>1, <1>4, FinalTurnBegins
<1>6. TurnIs(t, c, w, p, q)
  BY <1>4 DEF FinalTurn
<1> HIDE DEF w
<1>7. p \in Nat /\ q \in Nat /\ p <= q
  BY <1>5
<1>8. TextIs(t.text, w, p, q)
  BY <1>6, <1>7, TextShape
<1>9. IsSequence(t.text)
  BY <1>8 DEF TextIs
<1>10. Len(t.text) \in Nat
  BY <1>9, SequenceShape
<1>11. IsPrefix(t.text, t.text)
  BY <1>9, <1>10, PrefixOfFunctions
<1>12. TurnKeeps(t, t)
  BY <1>11 DEF TurnKeeps
<1> QED BY <1>12 DEF t

\* The client's dialogue after a call of incremental_groups or terminal_groups.
MergedIs(call, r, sel, mode) ==
    /\ r.cands = call.cands /\ Dialog(sel, r.cands, r.merger, r.client)
    /\ Keeps(call.client, r.client)
    /\ setup.mode # "Words" /\ ~r.failed =>
         \E D : /\ DialogueIs(D, r.merger, sel, r.cands) /\ Tells(r.client, D)
                /\ mode = "Terminal" => \A N \in Int :
                     (\A c \in sel : Len(r.cands[c].fed) = N) /\ sel # {} => N <= r.merger.final

LEMMA UpdateMerges ==
    ASSUME NEW sel, NEW cands, NEW m, NEW cl, NEW D, NEW ahead, NEW mode,
           Dialog(sel, cands, m, cl), DialogueIs(D, ahead, sel, cands),
           FrontierIs(ahead, m, sel, cands, mode)
    PROVE  LET r == FirstDifference(m.last, D)
               new == SubSeq(cl, 1, r) \o SubSeq(D, r + 1, Len(D))
           IN  /\ Dialog(sel, cands, ahead, cl)
               /\ Len(D) = Len(m.last) /\ r = Len(D) => Tells(cl, D)
               /\ Dialog(sel, cands, [ahead EXCEPT !.last = D], new)
               /\ Keeps(cl, new)
<1> DEFINE L == m.last
           r == FirstDifference(L, D)
           new == SubSeq(cl, 1, r) \o SubSeq(D, r + 1, Len(D))
           F == ahead.final
           dn == DoneOf(sel, cands)
           next == [ahead EXCEPT !.last = D]
<1>1. /\ sel \in SUBSET Channels /\ AllTalk(cands) /\ m.final \in Int
      /\ FinalTurns(L, m.final, sel, dn) /\ Shows(cl, L)
  BY DEF Dialog, IsMerger
<1>2. /\ ahead.last = L /\ IsMerger(ahead) /\ F \in Int /\ m.final <= F
      /\ OpenBehind(sel, dn, F)
  BY DEF FrontierIs, IsMerger
<1>3. FinalTurns(L, F, sel, dn)
  <2> DEFINE G == m.final
  <2>1. G \in Int /\ G <= F /\ FinalTurns(L, G, sel, dn)
    BY <1>1, <1>2
  <2> HIDE DEF G, F, L
  <2> QED BY <1>1, <1>2, <2>1, FrontierMayMove
<1>4. FinalTurns(D, F, sel, dn)
  BY <1>1, <1>2, DialogueFinal
<1>5. /\ IsSequence(D) /\ \A i \in 1..Len(D) : IsTurn(D[i])
  <2>1. \A j \in 1..Len(D) : \E c, p, q : DialogueTurn(D, ahead, sel, cands, j, c, p, q)
    BY DEF DialogueIs
  <2>2. \A i \in 1..Len(D) : IsTurn(D[i])
    BY <2>1 DEF DialogueTurn, TurnIs
  <2> QED BY <2>2 DEF DialogueIs
<1>6. IsSequence(L) /\ Len(cl) = Len(L)
      /\ \A i \in 1..Len(cl) : cl[i].final => cl[i] = L[i]
  BY <1>1 DEF Shows, Tells
<1>7. /\ r \in 0..Len(L) /\ r \in 0..Len(D) /\ \A i \in 1..r : SameTurn(L[i], D[i])
  BY <1>5, <1>6, FirstDifferenceIs
<1> HIDE DEF L, r, F, dn
<1>a. Len(L) \in Nat /\ Len(D) \in Nat
  BY <1>5, <1>6, SequenceShape
<1>8. ASSUME NEW i \in 1..r, L[i].final PROVE L[i] = D[i]
  <2> DEFINE t == L[i]
             u == D[i]
  <2>1. i \in 1..Len(L) /\ i \in 1..Len(D)
    BY <1>7, <1>a
  <2>2. SameTurn(t, u) /\ u.final
    BY <1>7, <1>8 DEF SameTurn
  <2>3. PICK c, p, q : FinalTurn(t, i, F, sel, dn, c, p, q)
    BY <1>3, <1>8, <2>1 DEF FinalTurns
  <2>4. PICK d, k, s : FinalTurn(u, i, F, sel, dn, d, k, s)
    BY <1>4, <2>1, <2>2 DEF FinalTurns
  <2> HIDE DEF t, u
  <2>5. t = u
    BY <1>1, <1>2, <2>2, <2>3, <2>4, SameFinal DEF dn
  <2> QED BY <2>5 DEF t, u
<1>9. Shows(new, D) /\ \A i \in 1..Len(new) : new[i] = IF i <= r THEN cl[i] ELSE D[i]
  <2>1. \A i \in 1..r : SameTurn(L[i], D[i]) /\ (L[i].final => L[i] = D[i])
    BY <1>7, <1>8
  <2>2. Shows(cl, L) /\ IsSequence(D) /\ \A i \in 1..Len(D) : IsTurn(D[i])
    BY <1>1, <1>5
  <2>3. r \in 0..Len(L) /\ r \in 0..Len(D)
    BY <1>7
  <2>4. Follows(new, cl, D, r)
    BY <2>1, <2>2, <2>3, PatchShows
  <2> HIDE DEF new
  <2>5. Shows(new, D) /\ \A i \in 1..Len(new) : new[i] = IF i <= r THEN cl[i] ELSE D[i]
    BY <2>4 DEF Follows
  <2> QED BY <2>5 DEF new
<1>10. Len(D) = Len(L) /\ r = Len(D) => Tells(cl, D)
  BY <1>1, <1>5, <1>7, SameShows
<1>11. Len(new) = Len(D)
  BY <1>9 DEF Shows, Tells
<1> HIDE DEF new
<1>12. ASSUME NEW i \in 1..Len(cl), cl[i].final
       PROVE  i \in 1..Len(new) /\ TurnKeeps(cl[i], new[i])
  <2> DEFINE t == cl[i]
             u == D[i]
  <2>1. t = L[i] /\ i \in 1..Len(L) /\ L[i].final
    BY <1>6, <1>12
  <2>2. PICK c, p, q : FinalTurn(L[i], i, F, sel, dn, c, p, q)
    BY <1>3, <2>1 DEF FinalTurns
  <2>3. FinalTurn(t, i, F, sel, dn, c, p, q)
    BY <2>1, <2>2
  <2> HIDE DEF t
  <2>4. i \in 1..Len(D) /\ TurnKeeps(t, D[i])
    BY <1>1, <1>2, <2>3, FinalStays DEF dn
  <2>5. new[i] = D[i]
    <3>1. i <= r => i \in 1..r
      BY <1>7, <1>a
    <3>2. i <= r => L[i] = D[i]
      BY <1>8, <2>1, <3>1
    <3>3. i <= r => cl[i] = D[i]
      BY <2>1, <3>2 DEF t
    <3> QED BY <1>9, <1>11, <2>4, <3>3
  <2> QED BY <1>11, <2>4, <2>5 DEF t
<1>13. Keeps(cl, new)
  BY <1>12 DEF Keeps
<1>14. Dialog(sel, cands, ahead, cl)
  BY <1>1, <1>2, <1>3 DEF Dialog, F, dn
<1>15. IsMerger(next) /\ next.last = D /\ next.final = F
  BY <1>2 DEF IsMerger, F
<1> HIDE DEF next
<1>16. Dialog(sel, cands, next, new)
  BY <1>1, <1>2, <1>4, <1>9, <1>15 DEF Dialog, dn
<1> QED BY <1>10, <1>13, <1>14, <1>16 DEF new, r, L, next

\* incremental_groups and terminal_groups.
LEMMA MergedDialog ==
    ASSUME NEW call, NEW sel, NEW mode, IsCall(call),
           Dialog(sel, call.cands, call.merger, call.client), Count \in Nat,
           mode \in {"Incremental", "Terminal"},
           mode = "Terminal" => \A c \in sel : Flush(c, call.cands[c])
    PROVE  MergedIs(call, Merged(call, sel, mode), sel, mode)
<1> DEFINE cands == call.cands
           m == call.merger
           cl == call.client
           snapshots == SnapshotsOf(sel, cands)
           update == UpdateWith(m, snapshots, mode)
           r == Merged(call, sel, mode)
           value == update.value
           patch == value.patch[1]
<1>1. Keeps(cl, cl)
  BY KeepsItself
<1>2. {"failed", "cands", "merger", "client", "observations"} \subseteq DOMAIN call
  BY DEF IsCall
<1>3. r = IF setup.mode = "Words" THEN call
          ELSE IF ~update.ok THEN [call EXCEPT !.failed = TRUE]
          ELSE IF value.patch = <<>> THEN [call EXCEPT !.merger = value.merger]
          ELSE [call EXCEPT !.merger = value.merger,
                            !.client = Patched(@, patch),
                            !.observations = Append(@, Observation("DialogPatchGenerated", {}))]
  BY Zenon DEF Merged, SnapshotsOf
<1>4. update.ok => UpdateIs(value, m, sel, cands, mode)
  BY UpdateShape DEF Dialog
<1> HIDE DEF update, snapshots, r, value, patch
<1>5. CASE setup.mode = "Words"
  <2>1. r = call
    BY <1>3, <1>5
  <2> QED BY <1>1, <1>5, <2>1 DEF MergedIs, r
<1>6. CASE setup.mode # "Words" /\ ~update.ok
  <2>1. r.failed /\ r.cands = cands /\ r.merger = m /\ r.client = cl
    BY <1>2, <1>3, <1>6
  <2> QED BY <1>1, <2>1 DEF MergedIs, r
<1>7. CASE setup.mode # "Words" /\ update.ok
  <2>1. PICK D, ahead :
          /\ DialogueIs(D, ahead, sel, cands) /\ FrontierIs(ahead, m, sel, cands, mode)
          /\ \/ /\ value.patch = <<>> /\ value.merger = ahead
                /\ Len(D) = Len(m.last) /\ FirstDifference(m.last, D) = Len(D)
             \/ /\ value.patch # <<>> /\ value.merger = [ahead EXCEPT !.last = D]
                /\ value.patch[1].from = FirstDifference(m.last, D)
                /\ value.patch[1].turns = SubSeq(D, FirstDifference(m.last, D) + 1, Len(D))
    BY <1>4, <1>7 DEF UpdateIs
  <2> DEFINE f == FirstDifference(m.last, D)
             new == SubSeq(cl, 1, f) \o SubSeq(D, f + 1, Len(D))
             next == [ahead EXCEPT !.last = D]
  <2>2. /\ Dialog(sel, cands, ahead, cl)
        /\ Len(D) = Len(m.last) /\ f = Len(D) => Tells(cl, D)
        /\ Dialog(sel, cands, next, new)
        /\ Keeps(cl, new)
    BY <2>1, UpdateMerges
  <2> DEFINE Reached(k) == mode = "Terminal" => \A N \in Int :
                 (\A c \in sel : Len(cands[c].fed) = N) /\ sel # {} => N <= k.final
  <2>3. Reached(ahead) /\ next.final = ahead.final
    BY <2>1 DEF FrontierIs
  <2>4. DialogueIs(D, next, sel, cands)
    <3>1. next.final = ahead.final
      BY <2>3
    <3> HIDE DEF next
    <3> QED BY <2>1, <3>1, DialogueOfFrontier
  <2>5. Reached(next)
    <3> HIDE DEF next
    <3> QED BY <2>3
  <2>6. CASE value.patch = <<>>
    <3>1. value.merger = ahead /\ Tells(cl, D)
      BY <2>1, <2>2, <2>6
    <3>2. r.cands = cands /\ r.merger = ahead /\ r.client = cl
      BY <1>2, <1>3, <1>7, <2>6, <3>1
    <3>3. Reached(r.merger)
      BY <2>3, <3>2
    <3> HIDE DEF f, new, next
    <3>4. /\ r.cands = call.cands /\ Dialog(sel, r.cands, r.merger, r.client)
          /\ Keeps(call.client, r.client)
      BY <1>1, <2>2, <3>2
    <3>5. DialogueIs(D, r.merger, sel, r.cands) /\ Tells(r.client, D)
      BY <2>1, <3>1, <3>2
    <3>6. mode = "Terminal" => \A N \in Int :
            (\A c \in sel : Len(r.cands[c].fed) = N) /\ sel # {} => N <= r.merger.final
      BY <3>2, <3>3
    <3> HIDE DEF Reached
    <3> QED BY <3>4, <3>5, <3>6 DEF MergedIs, r
  <2>7. CASE value.patch # <<>>
    <3>1. /\ value.merger = next /\ patch.from = f /\ patch.turns = SubSeq(D, f + 1, Len(D))
      BY <2>1, <2>7 DEF patch
    <3>2. Patched(cl, patch) = new
      BY <3>1 DEF Patched
    <3> HIDE DEF f, new, next
    <3>3. r.cands = cands /\ r.merger = next /\ r.client = new
      BY <1>2, <1>3, <1>7, <2>7, <3>1, <3>2
    <3>4. Reached(r.merger)
      BY <2>5, <3>3
    <3>5. Tells(new, D)
      <4>1. Shows(new, next.last)
        BY <2>2 DEF Dialog
      <4>2. next.last = D
        BY <2>1 DEF next, FrontierIs
      <4> QED BY <4>1, <4>2 DEF Shows
    <3>6. /\ r.cands = call.cands /\ Dialog(sel, r.cands, r.merger, r.client)
          /\ Keeps(call.client, r.client)
      BY <2>2, <3>3
    <3>7. DialogueIs(D, r.merger, sel, r.cands) /\ Tells(r.client, D)
      BY <2>4, <3>3, <3>5
    <3>8. mode = "Terminal" => \A N \in Int :
            (\A c \in sel : Len(r.cands[c].fed) = N) /\ sel # {} => N <= r.merger.final
      BY <3>3, <3>4
    <3> HIDE DEF Reached
    <3> QED BY <3>6, <3>7, <3>8 DEF MergedIs, r
  <2> QED BY <2>6, <2>7
<1> QED BY <1>5, <1>6, <1>7

\* A call whose sessions went on.
AfterIs(call, next, outcome, sel, mode) ==
    /\ next.cands = outcome.cands /\ Dialog(sel, next.cands, next.merger, next.client)
    /\ Keeps(call.client, next.client)
    /\ outcome.failed => next.failed
    /\ setup.mode # "Words" /\ ~next.failed =>
         \E D : /\ DialogueIs(D, next.merger, sel, next.cands) /\ Tells(next.client, D)
                /\ mode = "Terminal" => \A N \in Int :
                     (\A c \in sel : Len(next.cands[c].fed) = N) /\ sel # {}
                       => N <= next.merger.final

LEMMA AfterDialog ==
    ASSUME NEW call, NEW outcome, NEW sel, NEW mode, IsCall(call),
           Dialog(sel, call.cands, call.merger, call.client), Count \in Nat,
           AllWent(call.cands, outcome.cands),
           mode \in {"Incremental", "Terminal"},
           mode = "Terminal" /\ ~outcome.failed => \A c \in sel : Flush(c, outcome.cands[c])
    PROVE  AfterIs(call, After(call, outcome, sel, mode), outcome, sel, mode)
<1> DEFINE with == [call EXCEPT !.cands = outcome.cands]
           next == After(call, outcome, sel, mode)
<1>1. Dialog(sel, outcome.cands, call.merger, call.client)
  BY DialogWent
<1>2. /\ with.cands = outcome.cands /\ with.merger = call.merger /\ with.client = call.client
      /\ with.failed = call.failed /\ IsCall(with)
      /\ DOMAIN with = DOMAIN call
  BY DEF IsCall
<1>3. next = IF outcome.failed THEN [with EXCEPT !.failed = TRUE] ELSE Merged(with, sel, mode)
  BY Zenon DEF After
<1>4. Keeps(call.client, call.client)
  BY KeepsItself
<1> HIDE DEF with, next
<1>5. CASE outcome.failed
  <2>1. /\ next.failed /\ next.cands = outcome.cands /\ next.merger = call.merger
        /\ next.client = call.client
    BY <1>2, <1>3, <1>5 DEF IsCall
  <2> QED BY <1>1, <1>4, <2>1 DEF AfterIs, next
<1>6. CASE ~outcome.failed
  <2>1. next = Merged(with, sel, mode)
    BY <1>3, <1>6
  <2>2. Dialog(sel, with.cands, with.merger, with.client)
        /\ (mode = "Terminal" => \A c \in sel : Flush(c, with.cands[c]))
    BY <1>1, <1>2, <1>6
  <2>3. MergedIs(with, next, sel, mode)
    BY <1>2, <2>1, <2>2, MergedDialog
  <2> QED BY <1>2, <1>6, <2>3 DEF MergedIs, AfterIs, next
<1> QED BY <1>5, <1>6

-----------------------------------------------------------------------------
(* After a flush every turn is final, and the turns take every word once.    *)

\* The turns of a channel, put one after the other, are these words.
TurnsSay(cl, c, words) ==
    LET turns == {i \in DOMAIN cl : cl[i].channel = c}
    IN  \E first \in [turns -> DOMAIN words] :
          /\ \A i \in turns : \A k \in DOMAIN cl[i].text :
               /\ first[i] + k - 1 \in DOMAIN words
               /\ cl[i].text[k] = words[first[i] + k - 1].text
          /\ \A i, j \in turns : i < j => first[i] + Len(cl[i].text) <= first[j]
          /\ \A p \in DOMAIN words :
               \E i \in turns : p - first[i] + 1 \in DOMAIN cl[i].text

\* A turn of a dialogue.
LEMMA DialogueTurnFacts ==
    ASSUME NEW D, NEW m, NEW sel, NEW cands, NEW j, NEW c, NEW p, NEW q,
           Readable(sel, cands), DialogueTurn(D, m, sel, cands, j, c, p, q)
    PROVE  LET w == WordsOf(sel, cands)[c]
           IN  /\ c \in sel /\ Span(w, p, q) /\ Len(w) \in Nat /\ p \in 1..Len(w)
               /\ q \in p..Len(w) /\ TextIs(D[j].text, w, p, q)
               /\ D[j].channel = c /\ D[j].start = w[p].start
               /\ D[j].index = Cardinality(StartsBelow(w, p))
               /\ D[j].end \in Int /\ D[j].end <= Len(cands[c].fed)
               /\ D[j].final = (q <= Len(cands[c].done) /\ D[j].end <= m.final)
               /\ D[j].final => D[j].stable
<1> DEFINE w == WordsOf(sel, cands)[c]
<1>1. /\ c \in sel /\ Span(w, p, q) /\ Stretch(w, p, q) /\ TurnIs(D[j], c, w, p, q)
      /\ D[j].final = (q <= Len(cands[c].done) /\ D[j].end <= m.final)
      /\ D[j].final => D[j].stable
  BY DEF DialogueTurn
<1>2. WordsAre(c, cands[c], w) /\ Len(cands[c].fed) \in Nat
  BY <1>1 DEF Readable
<1> HIDE DEF w
<1>3. /\ Len(w) \in Nat
      /\ \A i \in 1..Len(w) : w[i].end \in Int /\ w[i].end <= Len(cands[c].fed)
  BY <1>2 DEF WordsAre
<1>4. p \in 1..Len(w) /\ q \in p..Len(w)
  BY <1>1 DEF Stretch, Starts
<1>5. TextIs(D[j].text, w, p, q)
  BY <1>1, <1>3, <1>4, TextShape
<1>6. /\ D[j].channel = c /\ D[j].start = w[p].start
      /\ D[j].index = Cardinality(StartsBelow(w, p))
      /\ D[j].end \in {w[i].end : i \in p..q}
  BY <1>1 DEF TurnIs
<1>7. PICK i \in p..q : D[j].end = w[i].end
  BY <1>6
<1>8. i \in 1..Len(w)
  BY <1>3, <1>4
<1>9. D[j].end \in Int /\ D[j].end <= Len(cands[c].fed)
  BY <1>3, <1>7, <1>8
<1> QED BY <1>1, <1>3, <1>4, <1>5, <1>6, <1>9 DEF w

\* After a flush, every turn is final.
LEMMA FlushedIsFinal ==
    ASSUME NEW D, NEW m, NEW sel, NEW cands, NEW N, NEW j \in 1..Len(D),
           Readable(sel, cands), DialogueIs(D, m, sel, cands), m.final \in Int, N \in Int,
           \A c \in sel : Flush(c, cands[c]) /\ Len(cands[c].fed) = N,
           sel # {} => N <= m.final
    PROVE  D[j].final /\ D[j].stable
<1>1. PICK c, p, q : DialogueTurn(D, m, sel, cands, j, c, p, q)
  BY DEF DialogueIs
<1> DEFINE w == WordsOf(sel, cands)[c]
           d == Len(cands[c].done)
           e == D[j].end
           F == m.final
<1>2. /\ c \in sel /\ Len(w) \in Nat /\ q \in p..Len(w) /\ p \in 1..Len(w)
      /\ e \in Int /\ e <= Len(cands[c].fed)
      /\ D[j].final = (q <= d /\ e <= F) /\ (D[j].final => D[j].stable)
  BY <1>1, DialogueTurnFacts
<1>3. WordsAre(c, cands[c], w)
  BY <1>2 DEF Readable
<1> HIDE DEF w, d, e, F
<1>4. Len(w) = d
  BY <1>2, <1>3 DEF WordsAre, Flush, d
<1>5. e <= N /\ N <= F /\ F \in Int
  BY <1>2 DEF F
<1>6. q <= d /\ e <= F
  BY <1>2, <1>4, <1>5
<1>7. D[j].final
  BY <1>2, <1>6
<1> QED BY <1>2, <1>7

\* The last start up to a word.
LEMMA StartBefore ==
    ASSUME NEW w, Len(w) \in Nat, NEW p \in 1..Len(w)
    PROVE  \E s \in Starts(w) : s <= p /\ \A i \in Starts(w) : i <= p => i <= s
<1> DEFINE Q == {s \in Starts(w) : s <= p}
           M == {p - s : s \in Q}
<1>1. \A i \in Starts(w) : i \in 1..Len(w)
  BY StartsShape
<1>2. 1 \in Starts(w)
  BY StartsShape
<1>3. M \subseteq Nat /\ p - 1 \in M
  BY <1>1, <1>2
<1> HIDE DEF M
<1>4. PICK x \in M : \A y \in M : x <= y
  BY <1>3, LeastExists
<1>5. PICK s \in Q : x = p - s
  BY <1>4 DEF M
<1>6. ASSUME NEW i \in Starts(w), i <= p PROVE i <= s
  <2>1. p - i \in M
    BY <1>6 DEF M
  <2>2. p - s <= p - i
    BY <1>4, <1>5, <2>1
  <2> QED BY <1>1, <1>5, <2>2
<1> QED BY <1>5, <1>6

\* What is known of the turns of one channel: a turn for every start, in order.
ChannelTurns(D, c, w, n) ==
    /\ \A j \in 1..n : D[j].channel = c =>
         \E p, q : /\ Span(w, p, q) /\ TextIs(D[j].text, w, p, q)
                   /\ D[j].start = w[p].start /\ D[j].index = Cardinality(StartsBelow(w, p))
    /\ \A p \in Starts(w) : \E j \in 1..n : \E q :
         /\ D[j].channel = c /\ Span(w, p, q) /\ TextIs(D[j].text, w, p, q)
         /\ D[j].index = Cardinality(StartsBelow(w, p))
    /\ \A i, j \in 1..n : i < j => Before(D[i], D[j])

TakeWords(D, c, w, n) ==
    LET turns == {i \in 1..n : D[i].channel = c}
    IN  \E first \in [turns -> 1..Len(w)] :
          /\ \A i \in turns : \E q : /\ Span(w, first[i], q)
                                     /\ TextIs(D[i].text, w, first[i], q)
          /\ \A i, j \in turns : i < j => first[i] + Len(D[i].text) <= first[j]
          /\ \A p \in 1..Len(w) : \E i \in turns : p - first[i] + 1 \in 1..Len(D[i].text)

\* Such turns take every word once.
LEMMA TurnsTakeWords ==
    ASSUME NEW D, NEW c \in Int, NEW w, NEW n \in Nat, Len(w) \in Nat,
           ChannelTurns(D, c, w, n),
           \A i \in 1..Len(w) : w[i].start \in Int,
           \A i, j \in 1..Len(w) : i <= j => w[i].start <= w[j].start
    PROVE  TakeWords(D, c, w, n)
<1> DEFINE turns == {i \in 1..n : D[i].channel = c}
           At(i, p) == /\ \E q : Span(w, p, q) /\ TextIs(D[i].text, w, p, q)
                       /\ D[i].start = w[p].start
                       /\ D[i].index = Cardinality(StartsBelow(w, p))
           first == [i \in turns |-> CHOOSE p : At(i, p)]
<1>1. \A i \in turns : At(i, first[i])
  <2>1. \A i \in turns : \E p : At(i, p)
    BY DEF ChannelTurns
  <2> HIDE DEF At
  <2>2. \A i \in turns : first[i] = CHOOSE p : At(i, p)
    OBVIOUS
  <2> HIDE DEF first
  <2> QED BY <2>1, <2>2
<1>2. \A s \in Starts(w) : s \in 1..Len(w)
  BY StartsShape
<1>3. \A i \in turns : first[i] \in Starts(w) /\ first[i] \in 1..Len(w)
  BY <1>1, <1>2 DEF Span
<1>4. first \in [turns -> 1..Len(w)]
  BY <1>3
<1> HIDE DEF first
<1>5. \A i \in turns : \E q : Span(w, first[i], q) /\ TextIs(D[i].text, w, first[i], q)
  BY <1>1
<1>6. ASSUME NEW i \in turns, NEW j \in turns, i < j
      PROVE  first[i] + Len(D[i].text) <= first[j]
  <2> DEFINE a == first[i]
             b == first[j]
             x == w[a].start
             y == w[b].start
  <2>1. /\ D[i].start = x /\ D[j].start = y /\ D[i].channel = c /\ D[j].channel = c
        /\ D[i].index = Cardinality(StartsBelow(w, a))
        /\ D[j].index = Cardinality(StartsBelow(w, b))
    BY <1>1
  <2>2. /\ a \in Starts(w) /\ b \in Starts(w) /\ a \in 1..Len(w) /\ b \in 1..Len(w)
        /\ x \in Int /\ y \in Int
    BY <1>3
  <2>3. Before(D[i], D[j])
    BY <1>6 DEF ChannelTurns
  <2>4. D[i].index < D[j].index => a < b
    BY <2>1, <2>2, StartsRank
  <2>5. b <= a => y <= x
    BY <2>2
  <2>6. PICK q : Span(w, a, q) /\ TextIs(D[i].text, w, a, q)
    BY <1>5
  <2> HIDE DEF a, b, x, y
  <2>7. x < y \/ D[i].index < D[j].index
    BY <2>1, <2>3 DEF Before
  <2>8. a < b
    BY <2>2, <2>4, <2>5, <2>7
  <2>9. q \in a..Len(w) /\ ~ (a < b /\ b <= q)
    BY <2>2, <2>6 DEF Span
  <2>10. Len(D[i].text) = q - a + 1
    BY <2>6 DEF TextIs
  <2>11. a + Len(D[i].text) <= b
    BY <2>2, <2>8, <2>9, <2>10
  <2> QED BY <2>11 DEF a, b
<1>7. ASSUME NEW p \in 1..Len(w)
      PROVE  \E i \in turns : p - first[i] + 1 \in 1..Len(D[i].text)
  <2>1. PICK s \in Starts(w) : s <= p /\ \A i \in Starts(w) : i <= p => i <= s
    BY StartBefore
  <2>2. PICK j, q : /\ j \in 1..n /\ D[j].channel = c /\ Span(w, s, q)
                     /\ TextIs(D[j].text, w, s, q)
                     /\ D[j].index = Cardinality(StartsBelow(w, s))
    BY DEF ChannelTurns
  <2>3. j \in turns
    BY <2>2
  <2>4. first[j] = s
    <3> DEFINE f == first[j]
    <3>1. f \in Starts(w) /\ D[j].index = Cardinality(StartsBelow(w, f))
      BY <1>1, <1>3, <2>3
    <3> HIDE DEF f
    <3>2. Cardinality(StartsBelow(w, f)) = Cardinality(StartsBelow(w, s)) => f = s
      BY <3>1, StartsRank
    <3> QED BY <2>2, <3>1, <3>2 DEF f
  <2>5. s \in 1..Len(w) /\ q \in s..Len(w) /\ (q = Len(w) \/ q + 1 \in Starts(w))
    BY <1>2, <2>2 DEF Span
  <2>6. p <= q
    BY <2>1, <2>5
  <2>7. Len(D[j].text) = q - s + 1
    BY <2>2 DEF TextIs
  <2>8. p - s + 1 \in 1..Len(D[j].text)
    <3> DEFINE l == Len(D[j].text)
    <3>1. l = q - s + 1
      BY <2>7
    <3>2. s \in Int /\ q \in Int /\ p \in Int /\ s <= p
      BY <2>1, <2>5
    <3> HIDE DEF l
    <3>3. p - s + 1 \in 1..l
      BY <2>6, <3>1, <3>2
    <3> QED BY <3>3 DEF l
  <2> QED BY <2>3, <2>4, <2>8
<1> QED BY <1>4, <1>5, <1>6, <1>7 DEF TakeWords

LEMMA TurnsAreSaid ==
    ASSUME NEW D, NEW cl, NEW m, NEW sel, NEW cands, NEW c \in sel, NEW words,
           Readable(sel, cands), DialogueIs(D, m, sel, cands), Tells(cl, D), Count \in Nat,
           Flush(c, cands[c]), words = Heard(c, Len(cands[c].fed)), HeardIs(c, Len(cands[c].fed), words)
    PROVE  TurnsSay(cl, c, words)
<1> DEFINE w == WordsOf(sel, cands)[c]
           n == Len(D)
<1>1. WordsAre(c, cands[c], w) /\ c \in Int
  BY DEF Readable, Channels, AllChannels
<1>2. n \in Nat /\ DOMAIN cl = 1..n /\ \A i \in 1..n : Alike(cl[i], D[i])
  BY SequenceShape DEF Tells
<1>3. DOMAIN words = 1..Len(words) /\ Len(words) \in Nat
  BY SequenceShape DEF HeardIs
<1>4. ChannelTurns(D, c, w, n)
  <2>1. ASSUME NEW j \in 1..n, D[j].channel = c
        PROVE  \E p, q : /\ Span(w, p, q) /\ TextIs(D[j].text, w, p, q)
                         /\ D[j].start = w[p].start
                         /\ D[j].index = Cardinality(StartsBelow(w, p))
    <3>1. PICK d, p, q : DialogueTurn(D, m, sel, cands, j, d, p, q)
      BY DEF DialogueIs
    <3>2. LET v == WordsOf(sel, cands)[d]
          IN  /\ D[j].channel = d /\ Span(v, p, q) /\ TextIs(D[j].text, v, p, q)
              /\ D[j].start = v[p].start
              /\ D[j].index = Cardinality(StartsBelow(v, p))
      BY <3>1, DialogueTurnFacts
    <3> QED BY <2>1, <3>2
  <2>2. ASSUME NEW p \in Starts(w)
        PROVE  \E j \in 1..n : \E q :
                 /\ D[j].channel = c /\ Span(w, p, q) /\ TextIs(D[j].text, w, p, q)
                 /\ D[j].index = Cardinality(StartsBelow(w, p))
    <3>1. PICK j, q : j \in 1..n /\ DialogueTurn(D, m, sel, cands, j, c, p, q)
      BY DEF DialogueIs
    <3> QED BY <3>1, DialogueTurnFacts
  <2>3. \A i, j \in 1..n : i < j => Before(D[i], D[j])
    BY DEF DialogueIs
  <2> HIDE DEF w
  <2> QED BY <2>1, <2>2, <2>3 DEF ChannelTurns
<1> HIDE DEF w, n
<1>5. Len(w) = Len(words) /\ Len(w) \in Nat
  BY <1>1, <1>3 DEF WordsAre, Flush
<1>6. \A i \in 1..Len(w) : words[i].text = w[i].text
  BY <1>1, <1>5 DEF WordsAre, HeardIs
<1>7. /\ \A i \in 1..Len(w) : w[i].start \in Int
      /\ \A i, j \in 1..Len(w) : i <= j => w[i].start <= w[j].start
  BY <1>1 DEF WordsAre
<1> DEFINE turns == {i \in 1..n : D[i].channel = c}
<1>8. PICK first \in [turns -> 1..Len(w)] :
        /\ \A i \in turns : \E q : Span(w, first[i], q) /\ TextIs(D[i].text, w, first[i], q)
        /\ \A i, j \in turns : i < j => first[i] + Len(D[i].text) <= first[j]
        /\ \A p \in 1..Len(w) : \E i \in turns : p - first[i] + 1 \in 1..Len(D[i].text)
  <2>1. TakeWords(D, c, w, n)
    BY <1>1, <1>2, <1>4, <1>5, <1>7, TurnsTakeWords
  <2> QED BY <2>1 DEF TakeWords
<1>9. \A i \in 1..n : cl[i].text = D[i].text /\ cl[i].channel = D[i].channel
  BY <1>2 DEF Alike
<1>10. ASSUME NEW i \in turns
       PROVE  /\ DOMAIN cl[i].text = 1..Len(cl[i].text) /\ Len(cl[i].text) = Len(D[i].text)
              /\ \A k \in DOMAIN cl[i].text :
                   /\ first[i] + k - 1 \in DOMAIN words
                   /\ cl[i].text[k] = words[first[i] + k - 1].text
  <2> DEFINE x == D[i].text
             a == first[i]
  <2>1. PICK q : Span(w, a, q) /\ TextIs(x, w, a, q)
    BY <1>8
  <2>2. a \in 1..Len(w)
    BY <1>8
  <2>3. cl[i].text = x
    BY <1>9
  <2> HIDE DEF x, a
  <2>4. q \in a..Len(w)
    BY <2>1 DEF Span
  <2>5. DOMAIN x = 1..(q - a + 1) /\ Len(x) = q - a + 1
    BY <2>1 DEF TextIs
  <2>6. ASSUME NEW k \in 1..(q - a + 1)
        PROVE  a + k - 1 \in 1..Len(w) /\ x[k] = words[a + k - 1].text
    <3>1. a + k - 1 \in 1..Len(w)
      BY <1>5, <2>2, <2>4
    <3>2. x[k] = w[a + k - 1].text
      BY <2>1 DEF TextIs
    <3> QED BY <1>6, <3>1, <3>2
  <2>7. /\ DOMAIN x = 1..Len(x)
        /\ \A k \in DOMAIN x : a + k - 1 \in DOMAIN words /\ x[k] = words[a + k - 1].text
    BY <1>3, <1>5, <2>5, <2>6
  <2> QED BY <2>3, <2>7 DEF x, a
<1>11. turns = {i \in DOMAIN cl : cl[i].channel = c}
  BY <1>2, <1>9
<1> HIDE DEF turns
<1>12. first \in [turns -> DOMAIN words]
  BY <1>3, <1>5, <1>8
<1>13. \A i, j \in turns : i < j => first[i] + Len(cl[i].text) <= first[j]
  BY <1>8, <1>10
<1>14. ASSUME NEW p \in DOMAIN words
       PROVE  \E i \in turns : p - first[i] + 1 \in DOMAIN cl[i].text
  <2>1. PICK i \in turns : p - first[i] + 1 \in 1..Len(D[i].text)
    BY <1>3, <1>5, <1>8
  <2> QED BY <1>10, <2>1
<1> QED BY <1>10, <1>11, <1>12, <1>13, <1>14 DEF TurnsSay

-----------------------------------------------------------------------------
(* The calls, and the dialogue they leave (DialogInv).                       *)

\* A session before its first words.
LEMMA SilentTalks ==
    ASSUME NEW c, NEW cand, c \in Channels, {"fed", "done", "shown", "cut"} \subseteq DOMAIN cand,
           cand.fed = <<>>, cand.done = <<>>, cand.shown = 0, cand.cut = 0
    PROVE  Talks(c, cand)
<1> DEFINE h == Len(Heard(c, 0))
           s == Speech[c]
<1>1. IsSequence(<<>>) /\ Len(<<>>) = 0
  BY JoinedEmpty
<1>2. SpeechIs(c) /\ HeardIs(c, 0, Heard(c, 0))
  BY SpeechShape, HeardShape
<1>3. Len(s) \in Nat /\ \A i \in 1..Len(s) : s[i].start \in Nat
  BY <1>2 DEF SpeechIs
<1>4. h \in Nat
  BY <1>2, <1>3 DEF HeardIs
<1>5. Slack \in Nat
  BY MultiStreamAssumption
<1>6. DoneIs(c, <<>>, 0)
  BY <1>1, <1>3 DEF DoneIs
<1>7. OpenFrom(c, <<>>, 0 - Slack)
  BY <1>1, <1>3, <1>5 DEF OpenFrom
<1> HIDE DEF h
<1>8. 0 <= h /\ h = Len(Heard(c, Len(cand.fed)))
  BY <1>1, <1>4 DEF h
<1> QED BY <1>1, <1>6, <1>7, <1>8 DEF Talks

\* Nothing is said yet to anyone.
LEMMA NewDialog ==
    ASSUME NEW sel, NEW cands, sel \in SUBSET Channels, AllTalk(cands)
    PROVE  Dialog(sel, cands, NewMerger, <<>>)
<1> DEFINE m == NewMerger
<1>1. m.last = <<>> /\ m.final = Never /\ IsMerger(m) /\ Never \in Int /\ Never < 0
  BY MultiStreamAssumption DEF NewMerger, IsMerger
<1> HIDE DEF m
<1>2. OpenBehind(sel, DoneOf(sel, cands), m.final)
  <2>1. ASSUME NEW d \in sel, NEW i \in 1..Len(Speech[d]) PROVE Speech[d][i].start >= m.final
    <3>1. SpeechIs(d)
      BY SpeechShape
    <3>2. Speech[d][i].start \in Nat
      BY <3>1 DEF SpeechIs
    <3> QED BY <1>1, <3>2
  <2> QED BY <2>1 DEF OpenBehind
<1>3. Len(<<>>) = 0 /\ IsSequence(<<>>)
  BY JoinedEmpty
<1>4. FinalTurns(m.last, m.final, sel, DoneOf(sel, cands))
  BY <1>1, <1>3 DEF FinalTurns
<1>5. Shows(<<>>, m.last)
  BY <1>1, <1>3 DEF Shows, Tells
<1> QED BY <1>1, <1>2, <1>4, <1>5 DEF Dialog, m

LEMMA NothingToKeep == ASSUME NEW new PROVE Keeps(<<>>, new)
BY JoinedEmpty DEF Keeps

LEMMA WentTalks == ASSUME NEW old, NEW new, AllWent(old, new) PROVE AllTalk(new)
BY DEF AllWent, Went, AllTalk

\* select_pending chooses among the channels.
LEMMA SelectionIsOfChannels ==
    ASSUME NEW cands, Count \in Nat \ {0}
    PROVE  SelectPending(cands).value \in SUBSET Channels
<1>1. \A empty, alike : \E S \in SUBSET AllChannels(Count) :
        SelectPairwise(Count, "Deduplicate", empty, alike) = Ok(S)
  BY DEF SelectPairwise
<1>2. \E S \in SUBSET AllChannels(Count) : SelectPending(cands) = Ok(S)
  BY <1>1 DEF SelectPending
<1> QED BY <1>2 DEF Ok, Channels

\* The sessions of a selection that was fed to the end were fed equally much.
LEMMA FedAlike ==
    ASSUME NEW selection, NEW cands, NEW total \in Nat, setup \in Setups,
           Streams("Finished", selection, cands, total)
    PROVE  \E N \in Nat : \A c \in Channels : c \in selection => Len(cands[c].fed) = N
<1>1. FormatKnown /\ Count \in Nat \ {0} /\ GoodPlan(Plan)
  BY SetupIsGood
<1>2. PICK h \in 0..(total \div FrameSize) :
        \A c \in Channels : SourceAt(c, total) = ChannelPart(c, 0, h)
  BY <1>1, SourceIs
<1>3. h \in Nat
  BY <1>1, SizesArePositive, Quotient
<1>4. \A c \in Channels : IsSequence(SourceAt(c, total)) /\ Len(SourceAt(c, total)) = h
  <2>1. 0 \in Nat /\ 0 <= h /\ h - 0 = h
    BY <1>3
  <2>2. \A c : IsSequence(ChannelPart(c, 0, h)) /\ Len(ChannelPart(c, 0, h)) = h - 0
    BY <1>3, <2>1, SliceShape DEF ChannelPart
  <2> QED BY <1>2, <2>1, <2>2
<1>5. \A c \in Channels : c \in selection => cands[c].fed = Process(Plan, SourceAt(c, total))
  BY DEF Streams, FedWhole
<1>6. ASSUME NEW a, NEW b, IsSequence(a), IsSequence(b), Len(a) = h, Len(b) = h
      PROVE  Len(Process(Plan, a)) \in Nat /\ Len(Process(Plan, a)) = Len(Process(Plan, b))
  <2> DEFINE x == Process(Plan, a)
             y == Process(Plan, b)
  <2>1. IsSequence(x) /\ IsSequence(y)
    BY <1>1, <1>6, ProcessShape
  <2>2. \/ IsIdentity(Plan.pair) /\ x = a /\ y = b
        \/ DOMAIN x = DOMAIN y
    BY <1>6 DEF Process
  <2> HIDE DEF x, y
  <2>3. Len(x) \in Nat /\ Len(y) \in Nat /\ DOMAIN x = 1..Len(x) /\ DOMAIN y = 1..Len(y)
    BY <2>1, SequenceShape
  <2>4. ASSUME DOMAIN x = DOMAIN y PROVE Len(x) = Len(y)
    <3> DEFINE k == Len(x)
               l == Len(y)
    <3>1. k \in Nat /\ l \in Nat /\ 1..k = 1..l
      BY <2>3, <2>4
    <3> HIDE DEF k, l
    <3>2. (k > 0 => k \in 1..k) /\ (l > 0 => l \in 1..l)
      BY <3>1
    <3>3. (k > 0 => k \in 1..l) /\ (l > 0 => l \in 1..k)
      BY <3>1, <3>2, Zenon
    <3>4. k \in Nat /\ l \in Nat
      BY <3>1
    <3>5. k = l
      BY <3>3, <3>4
    <3> QED BY <3>5, SMTT(30) DEF k, l
  <2>5. x = a /\ y = b => Len(x) = Len(y)
    BY <1>6
  <2>6. Len(x) \in Nat /\ Len(x) = Len(y)
    <3>1. Len(x) = Len(y)
      BY <2>2, <2>4, <2>5, Zenon
    <3> QED BY <2>3, <3>1
  <2> QED BY <2>6 DEF x, y
<1>7. CASE \E d \in Channels : d \in selection
  <2>1. PICK d \in Channels : d \in selection
    BY <1>7
  <2> DEFINE N == Len(cands[d].fed)
  <2>2. N \in Nat /\ \A c \in Channels : c \in selection => Len(cands[c].fed) = N
    BY <1>4, <1>5, <1>6, <2>1
  <2> QED BY <2>2
<1> QED BY <1>7

\* A client whose dialogue is over: every turn is final, and the turns of the
\* selected channels say all that was heard.
Said(cl, selection, cands) ==
    /\ \A i \in DOMAIN cl : cl[i].final /\ cl[i].stable
    /\ \A c \in selection : TurnsSay(cl, c, Heard(c, Len(cands[c].fed)))

\* What the sessions, the merger and the client have to do with each other in a phase.
Tallies(phase, selection, cands, m, cl) ==
    /\ \E sel : Dialog(sel, cands, m, cl)
    /\ phase = "Buffering" => m = NewMerger /\ cl = <<>>
    /\ phase = "Active" => Dialog(selection, cands, m, cl)
    /\ phase = "Finished" /\ setup.mode # "Words" => Said(cl, selection, cands)

DialogInv == Tallies(lifecycle.phase, lifecycle.selection, candidates, merger, client)

LEMMA RefusalIs ==
    LET call == [Call(candidates, <<>>) EXCEPT !.failed = TRUE]
    IN  call.merger = merger /\ call.client = client /\ call.cands = candidates /\ call.failed
BY DEF Call

LEMMA DialogConcludes ==
    ASSUME NEW call, NEW phase, NEW selection, NEW sel, UNCHANGED setup,
           Dialog(sel, call.cands, call.merger, call.client), Keeps(client, call.client),
           ~call.failed => Tallies(phase, selection, call.cands, call.merger, call.client),
           Conclude(call, phase, selection)
    PROVE  DialogInv' /\ Keeps(client, client')
<1>1. /\ candidates' = call.cands /\ merger' = call.merger /\ client' = call.client
      /\ lifecycle' = IF call.failed THEN [phase |-> "Failed", selection |-> {}]
                      ELSE [phase |-> phase, selection |-> selection]
  BY DEF Conclude
<1>2. Tallies(lifecycle'.phase, lifecycle'.selection, candidates', merger', client')
  <2>1. CASE call.failed
    <3>1. lifecycle'.phase = "Failed"
      BY <1>1, <2>1
    <3>2. \E s : Dialog(s, candidates', merger', client')
      BY <1>1
    <3> QED BY <3>1, <3>2 DEF Tallies
  <2>2. CASE ~call.failed
    <3>1. lifecycle'.phase = phase /\ lifecycle'.selection = selection
      BY <1>1, <2>2
    <3> QED BY <1>1, <2>2, <3>1
  <2> QED BY <2>1, <2>2
<1>3. DialogInv'
  BY <1>2 DEF DialogInv, Tallies
<1> QED BY <1>1, <1>3

LEMMA InitDialog == Init => DialogInv
<1> SUFFICES ASSUME Init PROVE DialogInv
  OBVIOUS
<1>1. ASSUME NEW c \in Channels PROVE Talks(c, candidates[c])
  <2> DEFINE cand == candidates[c]
  <2>1. /\ {"fed", "done", "shown", "cut"} \subseteq DOMAIN cand
        /\ cand.fed = <<>> /\ cand.done = <<>> /\ cand.shown = 0 /\ cand.cut = 0
    BY DEF Init
  <2> HIDE DEF cand
  <2>2. Talks(c, cand)
    BY <2>1, SilentTalks
  <2> QED BY <2>2 DEF cand
<1>2. AllTalk(candidates)
  BY <1>1 DEF AllTalk
<1>3. Dialog(Channels, candidates, merger, client)
  BY <1>2, NewDialog DEF Init
<1>4. /\ lifecycle.phase \in {"Active", "Buffering"}
      /\ lifecycle.phase = "Active" => lifecycle.selection = Channels
      /\ merger = NewMerger /\ client = <<>>
  BY DEF Init
<1> QED BY <1>3, <1>4 DEF DialogInv, Tallies

\* What a call that ends the session leaves to the client.
LEMMA EndIsSaid ==
    ASSUME NEW call, NEW next, NEW outcome, NEW sel, NEW N, sel \in SUBSET Channels,
           AfterIs(call, next, outcome, sel, "Terminal"), ~next.failed, setup.mode # "Words",
           \A c \in sel : Flush(c, next.cands[c]) /\ Len(next.cands[c].fed) = N,
           N \in Nat, Count \in Nat
    PROVE  Said(next.client, sel, next.cands)
<1> DEFINE cands == next.cands
           m == next.merger
           cl == next.client
<1>1. Dialog(sel, cands, m, cl)
  BY DEF AfterIs
<1>2. PICK D : /\ DialogueIs(D, m, sel, cands) /\ Tells(cl, D)
               /\ \A n \in Int : (\A c \in sel : Len(cands[c].fed) = n) /\ sel # {} => n <= m.final
  BY DEF AfterIs
<1>3. \A c \in sel : Flush(c, cands[c]) /\ Len(cands[c].fed) = N
  OBVIOUS
<1> HIDE DEF cands, m, cl
<1>4. sel # {} => N <= m.final
  BY <1>2, <1>3
<1>5. AllTalk(cands) /\ m.final \in Int
  BY <1>1 DEF Dialog, IsMerger
<1>6. Readable(sel, cands)
  BY <1>5, TalkIsReadable
<1>7. ASSUME NEW i \in DOMAIN cl PROVE cl[i].final /\ cl[i].stable
  <2>1. i \in 1..Len(D) /\ Alike(cl[i], D[i])
    BY <1>2, SequenceShape DEF Tells
  <2>2. N \in Int
    OBVIOUS
  <2>3. D[i].final /\ D[i].stable
    BY <1>2, <1>3, <1>4, <1>5, <1>6, <2>1, <2>2, FlushedIsFinal
  <2> QED BY <2>1, <2>3 DEF Alike
<1>8. ASSUME NEW c \in sel PROVE TurnsSay(cl, c, Heard(c, Len(cands[c].fed)))
  <2> DEFINE words == Heard(c, Len(cands[c].fed))
  <2>1. Len(cands[c].fed) \in Nat /\ c \in Channels
    BY <1>3
  <2>2. HeardIs(c, Len(cands[c].fed), words)
    BY <2>1, HeardShape
  <2>3. words = Heard(c, Len(cands[c].fed))
    OBVIOUS
  <2> HIDE DEF words
  <2>4. TurnsSay(cl, c, words)
    BY <1>2, <1>3, <1>6, <2>2, <2>3, TurnsAreSaid
  <2> QED BY <2>3, <2>4
<1>9. Said(cl, sel, cands)
  BY <1>7, <1>8 DEF Said
<1> QED BY <1>9 DEF cl, cands

\* What is held back is audio.
LEMMA HeldIsAudio ==
    ASSUME StreamInv, lifecycle.phase = "Buffering", NEW channels,
           \A c \in Channels : IsSequence(channels[c + 1]), NEW c \in Channels
    PROVE  IsSequence(Held(candidates, channels)[c].pending)
<1> DEFINE cand == candidates[c]
           v == channels[c + 1]
           w == SourceAt(c, sent)
           pushed == PushSamples(cand.adapter, v)
           h == [cand EXCEPT !.adapter = pushed.state, !.pending = @ \o pushed.output]
<1>1. Waiting(cand, Plan, w) /\ IsSequence(v)
  BY DEF StreamInv, Streams
<1>2. Held(candidates, channels)[c] = h
  BY DEF Held
<1> HIDE DEF cand, v, w
<1>3. Waiting(h, Plan, w \o v)
  <2> DEFINE r == Plan
  <2>1. Waiting(cand, r, w) /\ IsSequence(v)
    BY <1>1
  <2> HIDE DEF r
  <2>2. Waiting(h, r, w \o v)
    BY <2>1, HeldWaits, Zenon
  <2> QED BY <2>2 DEF r
<1> HIDE DEF h
<1>4. IsStream(h.adapter, w \o v) /\ h.pending = Gave(h.adapter, w \o v)
  BY <1>3 DEF Waiting, Adapts
<1>5. IsSequence(h.pending)
  BY <1>4, ResamplerFinish
<1> QED BY <1>2, <1>5

LEMMA FinishedIsAudio ==
    ASSUME StreamInv, lifecycle.phase = "Buffering", NEW c \in Channels
    PROVE  IsSequence(FinishAdapters(candidates)[c].pending)
<1> DEFINE cand == candidates[c]
           w == SourceAt(c, sent)
           h == [cand EXCEPT !.pending = @ \o FinishSamples(cand.adapter)]
<1>1. FormatKnown /\ Count \in Nat \ {0} /\ GoodPlan(Plan) /\ sent \in Nat
  BY SetupIsGood DEF StreamInv
<1>2. Waiting(cand, Plan, w) /\ IsSequence(w)
  BY <1>1, SourceShape DEF StreamInv, Streams
<1>3. FinishAdapters(candidates)[c] = h
  BY DEF FinishAdapters
<1> HIDE DEF cand, w
<1>4. HeldWhole(h, Plan, w)
  BY <1>2, FinishedIsHeld
<1> HIDE DEF h
<1>5. IsSequence(Process(Plan, w))
  BY <1>1, <1>2, ProcessShape
<1> QED BY <1>3, <1>4, <1>5 DEF HeldWhole

\* A call of a session that goes on.
LEMMA GoesOnDialog ==
    ASSUME NEW call, NEW outcome, NEW sel, UNCHANGED setup, IsCall(call), Count \in Nat,
           Dialog(sel, call.cands, call.merger, call.client), call.client = client,
           AllWent(call.cands, outcome.cands),
           Conclude(After(call, outcome, sel, "Incremental"), "Active", sel)
    PROVE  DialogInv' /\ Keeps(client, client')
<1> DEFINE next == After(call, outcome, sel, "Incremental")
<1>1. AfterIs(call, next, outcome, sel, "Incremental")
  BY AfterDialog
<1>2. Conclude(next, "Active", sel)
  OBVIOUS
<1> HIDE DEF next
<1>3. Dialog(sel, next.cands, next.merger, next.client) /\ Keeps(client, next.client)
  BY <1>1 DEF AfterIs
<1>4. Tallies("Active", sel, next.cands, next.merger, next.client)
  BY <1>3 DEF Tallies
<1> QED BY <1>2, <1>3, <1>4, DialogConcludes

LEMMA PushBufferedDialog ==
    ASSUME NEW channels, StreamInv, DialogInv, UNCHANGED setup, lifecycle.phase = "Buffering",
           \A c \in Channels : IsSequence(channels[c + 1]),
           PushBuffered(channels)
    PROVE  DialogInv' /\ Keeps(client, client')
<1> DEFINE held == Held(candidates, channels)
           selection == SelectPending(held).value
<1>1. Count \in Nat \ {0} /\ setup \in Setups
  BY SetupIsGood DEF StreamInv
<1>2. AllTalk(candidates) /\ merger = NewMerger /\ client = <<>>
  BY DEF DialogInv, Tallies, Dialog
<1>3. \A c \in Channels : IsSequence(held[c].pending)
  BY HeldIsAudio
<1>4. AllTalk(held)
  BY <1>2, HeldWent, WentTalks
<1>5. \/ Conclude(Call(held, <<>>), "Buffering", {})
      \/ \E outcome \in ReleasePending(held, selection) :
           Conclude(After(Call(held, Committed(selection)), outcome, selection, "Incremental"),
                    "Active", selection)
  BY DEF PushBuffered
<1> HIDE DEF held
<1>6. selection \in SUBSET Channels
  BY <1>1, SelectionIsOfChannels
<1> HIDE DEF selection
<1>7. CASE Conclude(Call(held, <<>>), "Buffering", {})
  <2> DEFINE call == Call(held, <<>>)
  <2>1. call.cands = held /\ call.merger = NewMerger /\ call.client = <<>>
    BY <1>2 DEF Call
  <2>2. Conclude(call, "Buffering", {})
    BY <1>7
  <2> HIDE DEF call
  <2>3. Dialog({}, call.cands, call.merger, call.client)
    BY <1>4, <2>1, NewDialog
  <2>4. Keeps(client, call.client)
    BY <1>2, NothingToKeep
  <2>5. Tallies("Buffering", {}, call.cands, call.merger, call.client)
    BY <2>1, <2>3 DEF Tallies
  <2> QED BY <2>2, <2>3, <2>4, <2>5, DialogConcludes
<1>8. ASSUME NEW outcome \in ReleasePending(held, selection),
             Conclude(After(Call(held, Committed(selection)), outcome, selection, "Incremental"),
                      "Active", selection)
      PROVE  DialogInv' /\ Keeps(client, client')
  <2> DEFINE call == Call(held, Committed(selection))
  <2>1. IsCall(call)
    BY CallIsCall, CommittedTells
  <2>2. call.cands = held /\ call.merger = NewMerger /\ call.client = client /\ client = <<>>
    BY <1>2 DEF Call
  <2>3. Conclude(After(call, outcome, selection, "Incremental"), "Active", selection)
    BY <1>8
  <2> HIDE DEF call
  <2>4. Dialog(selection, call.cands, call.merger, call.client)
    BY <1>4, <1>6, <2>2, NewDialog
  <2>5. AllWent(call.cands, outcome.cands)
    BY <1>3, <1>4, <1>8, <2>2, ReleaseWent
  <2> QED BY <1>1, <2>1, <2>2, <2>3, <2>4, <2>5, GoesOnDialog
<1> QED BY <1>5, <1>7, <1>8

\* The samples that arrived are those of the channels.
LEMMA PushActiveDialog ==
    ASSUME NEW channels, NEW outcome, IInv, StreamInv, DialogInv, UNCHANGED setup,
           lifecycle.phase = "Active",
           \A c \in Channels : IsSequence(channels[c + 1]),
           outcome \in PushActive(candidates, lifecycle.selection, channels),
           Conclude(After(Call(candidates, <<>>), outcome, lifecycle.selection, "Incremental"),
                    "Active", lifecycle.selection)
    PROVE  DialogInv' /\ Keeps(client, client')
<1> DEFINE call == Call(candidates, <<>>)
           sel == lifecycle.selection
           w == [c \in Channels |-> SourceAt(c, sent)]
<1>1. FormatKnown /\ Count \in Nat \ {0} /\ sent \in Nat
  BY SetupIsGood DEF StreamInv
<1>2. \A c \in Channels : IsSequence(SourceAt(c, sent))
  BY <1>1, SourceShape
<1>3. FeedsOnly(candidates, sel, Plan, w)
  BY <1>2, ActiveCandidates DEF FeedsOnly
<1> HIDE DEF w
<1>4. Dialog(sel, candidates, merger, client) /\ AllTalk(candidates)
  BY DEF DialogInv, Tallies, Dialog
<1>5. AllWent(candidates, outcome.cands)
  BY <1>3, <1>4, PushActiveWent
<1>6. IsCall(call) /\ call.cands = candidates /\ call.merger = merger /\ call.client = client
  <2>1. IsCall(call)
    BY CallIsCall, EmptyTells
  <2>2. call.cands = candidates /\ call.merger = merger /\ call.client = client
    BY DEF Call
  <2> QED BY <2>1, <2>2
<1>7. Conclude(After(call, outcome, sel, "Incremental"), "Active", sel)
  OBVIOUS
<1> HIDE DEF call, sel
<1> QED BY <1>1, <1>4, <1>5, <1>6, <1>7, GoesOnDialog

\* A call that is refused shows nothing.
LEMMA RefusedDialog ==
    ASSUME NEW phase, DialogInv, UNCHANGED setup,
           Conclude([Call(candidates, <<>>) EXCEPT !.failed = TRUE], phase, {})
    PROVE  DialogInv' /\ Keeps(client, client')
<1> DEFINE call == [Call(candidates, <<>>) EXCEPT !.failed = TRUE]
<1>1. call.merger = merger /\ call.client = client /\ call.cands = candidates /\ call.failed
  BY RefusalIs
<1>2. Conclude(call, phase, {})
  OBVIOUS
<1> HIDE DEF call
<1>3. PICK sel : Dialog(sel, candidates, merger, client)
  BY DEF DialogInv, Tallies
<1>4. Keeps(client, client)
  BY <1>3, KeepsItself
<1> QED BY <1>1, <1>2, <1>3, <1>4, DialogConcludes

\* A call that ends the session.
LEMMA EndsDialog ==
    ASSUME NEW call, NEW outcome, NEW sel, StreamInv', UNCHANGED setup, IsCall(call),
           Count \in Nat, setup \in Setups,
           Dialog(sel, call.cands, call.merger, call.client), Keeps(client, call.client),
           \A x : Keeps(call.client, x) => Keeps(client, x),
           AllWent(call.cands, outcome.cands),
           ~outcome.failed => \A c \in Channels : c \in sel => Flush(c, outcome.cands[c]),
           Conclude(After(call, outcome, sel, "Terminal"), "Finished", sel)
    PROVE  DialogInv' /\ Keeps(client, client')
<1> DEFINE next == After(call, outcome, sel, "Terminal")
<1>1. sel \in SUBSET Channels
  BY DEF Dialog
<1>2. ~outcome.failed => \A c \in sel : Flush(c, outcome.cands[c])
  BY <1>1
<1>3. AfterIs(call, next, outcome, sel, "Terminal")
  BY <1>2, AfterDialog
<1>4. Conclude(next, "Finished", sel)
  OBVIOUS
<1> HIDE DEF next
<1>5. /\ Dialog(sel, next.cands, next.merger, next.client) /\ Keeps(client, next.client)
      /\ next.cands = outcome.cands /\ (outcome.failed => next.failed)
  BY <1>3 DEF AfterIs
<1>6. ASSUME ~next.failed, setup.mode # "Words"
      PROVE  Said(next.client, sel, next.cands)
  <2>1. /\ lifecycle' = [phase |-> "Finished", selection |-> sel] /\ candidates' = next.cands
    BY <1>4, <1>6 DEF Conclude
  <2>2. Streams(lifecycle.phase, lifecycle.selection, candidates, sent)' /\ sent' \in Nat
    BY DEF StreamInv
  <2>3. Streams(lifecycle'.phase, lifecycle'.selection, candidates', sent')
    BY <2>2, SetupStays DEF Streams
  <2>4. lifecycle'.phase = "Finished" /\ lifecycle'.selection = sel
    BY <2>1
  <2>5. Streams("Finished", sel, next.cands, sent')
    BY <2>1, <2>3, <2>4
  <2>6. PICK N \in Nat : \A c \in Channels : c \in sel => Len(next.cands[c].fed) = N
    BY <2>2, <2>5, FedAlike
  <2>7. \A c \in sel : Flush(c, next.cands[c]) /\ Len(next.cands[c].fed) = N
    BY <1>1, <1>2, <1>5, <1>6, <2>6
  <2> QED BY <1>1, <1>3, <1>6, <2>6, <2>7, EndIsSaid
<1>7. ~next.failed => Tallies("Finished", sel, next.cands, next.merger, next.client)
  BY <1>5, <1>6 DEF Tallies
<1> QED BY <1>4, <1>5, <1>7, DialogConcludes

LEMMA FinishBufferedDialog ==
    ASSUME StreamInv, StreamInv', DialogInv, UNCHANGED setup, lifecycle.phase = "Buffering",
           FinishBuffered
    PROVE  DialogInv' /\ Keeps(client, client')
<1> DEFINE held == FinishAdapters(candidates)
           selection == SelectPending(held).value
<1>1. Count \in Nat \ {0} /\ setup \in Setups
  BY SetupIsGood DEF StreamInv
<1>2. AllTalk(candidates) /\ merger = NewMerger /\ client = <<>>
  BY DEF DialogInv, Tallies, Dialog
<1>3. \A c \in Channels : IsSequence(held[c].pending)
  BY FinishedIsAudio
<1>4. AllTalk(held)
  <2>1. AllWent(candidates, held)
    BY <1>2, HeldWent
  <2> HIDE DEF held
  <2> QED BY <2>1, WentTalks
<1>5. PICK released : /\ released \in ReleasePending(held, selection)
                      /\ LET shown == After(Call(held, Committed(selection)), released,
                                            selection, "Incremental")
                         IN  \/ shown.failed /\ Conclude(shown, "Finished", selection)
                             \/ /\ ~shown.failed
                                /\ \E flushed \in FlushActive(shown.cands, selection) :
                                     Conclude(After(shown, flushed, selection, "Terminal"),
                                              "Finished", selection)
  BY DEF FinishBuffered
<1> HIDE DEF held
<1>6. selection \in SUBSET Channels
  BY <1>1, SelectionIsOfChannels
<1> HIDE DEF selection
<1> DEFINE first == Call(held, Committed(selection))
           shown == After(first, released, selection, "Incremental")
<1>7. IsCall(first)
  BY CallIsCall, CommittedTells
<1>8. first.cands = held /\ first.merger = NewMerger /\ first.client = <<>>
  BY <1>2 DEF Call
<1>9. \/ shown.failed /\ Conclude(shown, "Finished", selection)
      \/ /\ ~shown.failed
         /\ \E flushed \in FlushActive(shown.cands, selection) :
              Conclude(After(shown, flushed, selection, "Terminal"), "Finished", selection)
  BY <1>5
<1> HIDE DEF first
<1>10. Dialog(selection, first.cands, first.merger, first.client)
  BY <1>4, <1>6, <1>8, NewDialog
<1>11. AllWent(first.cands, released.cands)
  BY <1>3, <1>4, <1>5, <1>8, ReleaseWent
<1>12. IsCall(shown)
  BY <1>7, AfterKeeps
<1>13. AfterIs(first, shown, released, selection, "Incremental")
  BY <1>1, <1>7, <1>10, <1>11, AfterDialog
<1> HIDE DEF shown
<1>14. Dialog(selection, shown.cands, shown.merger, shown.client) /\ AllTalk(shown.cands)
  BY <1>13 DEF AfterIs, Dialog
<1>15. \A x : Keeps(client, x)
  BY <1>2, NothingToKeep
<1>16. CASE shown.failed /\ Conclude(shown, "Finished", selection)
  BY <1>14, <1>15, <1>16, DialogConcludes
<1>17. ASSUME NEW flushed, flushed \in FlushActive(shown.cands, selection),
              Conclude(After(shown, flushed, selection, "Terminal"), "Finished", selection)
       PROVE  DialogInv' /\ Keeps(client, client')
  <2>1. /\ AllWent(shown.cands, flushed.cands)
        /\ ~flushed.failed =>
             \A c \in Channels : c \in selection => Flush(c, flushed.cands[c])
    BY <1>1, <1>14, <1>17, FlushActiveWent
  <2> QED BY <1>1, <1>12, <1>14, <1>15, <1>17, <2>1, EndsDialog
<1> QED BY <1>9, <1>16, <1>17

LEMMA FinishActiveDialog ==
    ASSUME NEW outcome, IInv, StreamInv, StreamInv', DialogInv, UNCHANGED setup,
           lifecycle.phase = "Active",
           outcome \in FinishActive(candidates, lifecycle.selection),
           Conclude(After(Call(candidates, <<>>), outcome, lifecycle.selection, "Terminal"),
                    "Finished", lifecycle.selection)
    PROVE  DialogInv' /\ Keeps(client, client')
<1> DEFINE call == Call(candidates, <<>>)
           sel == lifecycle.selection
           w == [c \in Channels |-> SourceAt(c, sent)]
<1>1. FormatKnown /\ Count \in Nat \ {0} /\ sent \in Nat /\ setup \in Setups
  BY SetupIsGood DEF StreamInv
<1>2. \A c \in Channels : IsSequence(SourceAt(c, sent))
  BY <1>1, SourceShape
<1>3. FeedsOnly(candidates, sel, Plan, w)
  BY <1>2, ActiveCandidates DEF FeedsOnly
<1> HIDE DEF w
<1>4. Dialog(sel, candidates, merger, client) /\ AllTalk(candidates)
  BY DEF DialogInv, Tallies, Dialog
<1>5. /\ AllWent(candidates, outcome.cands)
      /\ ~outcome.failed => \A c \in Channels : c \in sel => Flush(c, outcome.cands[c])
  BY <1>1, <1>3, <1>4, FinishActiveWent
<1>6. IsCall(call) /\ call.cands = candidates /\ call.merger = merger /\ call.client = client
  <2>1. IsCall(call)
    BY CallIsCall, EmptyTells
  <2>2. call.cands = candidates /\ call.merger = merger /\ call.client = client
    BY DEF Call
  <2> QED BY <2>1, <2>2
<1>7. Conclude(After(call, outcome, sel, "Terminal"), "Finished", sel)
  OBVIOUS
<1>8. Keeps(client, client)
  BY <1>4, KeepsItself
<1> HIDE DEF call, sel
<1> QED BY <1>1, <1>4, <1>5, <1>6, <1>7, <1>8, EndsDialog

LEMMA FinishDialog ==
    ASSUME IInv, StreamInv, StreamInv', DialogInv, Finish
    PROVE  DialogInv' /\ Keeps(client, client')
<1>1. /\ UNCHANGED setup
      /\ \/ Conclude([Call(candidates, <<>>) EXCEPT !.failed = TRUE], "Finished", {})
         \/ lifecycle.phase = "Buffering" /\ FinishBuffered
         \/ /\ lifecycle.phase = "Active"
            /\ \E outcome \in FinishActive(candidates, lifecycle.selection) :
                 Conclude(After(Call(candidates, <<>>), outcome,
                                lifecycle.selection, "Terminal"),
                          "Finished", lifecycle.selection)
  BY DEF Finish
<1>2. CASE Conclude([Call(candidates, <<>>) EXCEPT !.failed = TRUE], "Finished", {})
  BY <1>1, <1>2, RefusedDialog
<1>3. ASSUME NEW outcome, lifecycle.phase = "Active",
             outcome \in FinishActive(candidates, lifecycle.selection),
             Conclude(After(Call(candidates, <<>>), outcome,
                            lifecycle.selection, "Terminal"),
                      "Finished", lifecycle.selection)
      PROVE  DialogInv' /\ Keeps(client, client')
  BY <1>1, <1>3, FinishActiveDialog
<1>4. CASE lifecycle.phase = "Buffering" /\ FinishBuffered
  BY <1>1, <1>4, FinishBufferedDialog
<1> QED BY <1>1, <1>2, <1>3, <1>4

LEMMA PushDialog ==
    ASSUME NEW n, n \in Nat, IInv, StreamInv, DialogInv, Push(n)
    PROVE  DialogInv' /\ Keeps(client, client')
<1> DEFINE pushed == PushBytes(decoder, Arriving(sent, n))
           channels == pushed.result.value
           old == sent \div FrameSize
           all == (sent + n) \div FrameSize
<1>1. FormatKnown /\ Count \in Nat \ {0} /\ sent \in Nat
  BY SetupIsGood DEF StreamInv
<1>2. lifecycle.phase \in {"Buffering", "Active"} /\ UNCHANGED setup
  BY DEF Push
<1>3. HasArrived(decoder, sent)
  BY <1>2 DEF StreamInv, Receives
<1>4. /\ old \in Nat /\ all \in Nat /\ old <= all
      /\ pushed.result.ok /\ channels # <<>> =>
           \A c \in Channels : channels[c + 1] = ChannelPart(c, old, all)
  <2>1. Arrives(pushed, sent, n)
    BY <1>1, <1>3, PushArrives
  <2> HIDE DEF pushed
  <2> QED BY <2>1 DEF Arrives
<1>5. \/ Conclude([Call(candidates, <<>>) EXCEPT !.failed = TRUE], "Failed", {})
      \/ UNCHANGED <<lifecycle, candidates, merger, client, observed>>
      \/ /\ pushed.result.ok /\ channels # <<>>
         /\ lifecycle.phase = "Buffering" /\ PushBuffered(channels)
      \/ /\ pushed.result.ok /\ channels # <<>> /\ lifecycle.phase = "Active"
         /\ \E outcome \in PushActive(candidates, lifecycle.selection, channels) :
              Conclude(After(Call(candidates, <<>>), outcome,
                             lifecycle.selection, "Incremental"),
                       "Active", lifecycle.selection)
  BY DEF Push
<1> HIDE DEF pushed, channels
<1>6. CASE Conclude([Call(candidates, <<>>) EXCEPT !.failed = TRUE], "Failed", {})
  BY <1>2, <1>6, RefusedDialog
<1>7. CASE UNCHANGED <<lifecycle, candidates, merger, client, observed>>
  <2>1. DialogInv'
    BY <1>2, <1>7 DEF DialogInv, Tallies
  <2>2. PICK sel : Dialog(sel, candidates, merger, client)
    BY DEF DialogInv, Tallies
  <2>3. Keeps(client, client)
    BY <2>2, KeepsItself
  <2> QED BY <1>7, <2>1, <2>3
<1>8. CASE pushed.result.ok /\ channels # <<>>
  <2>1. ASSUME NEW c, c \in Channels PROVE IsSequence(channels[c + 1])
    <3> HIDE DEF old, all
    <3>1. IsSequence(ChannelPart(c, old, all))
      BY <1>4, SliceShape DEF ChannelPart
    <3> QED BY <1>4, <1>8, <2>1, <3>1
  <2>2. CASE lifecycle.phase = "Buffering" /\ PushBuffered(channels)
    BY <1>2, <2>1, <2>2, PushBufferedDialog
  <2>3. ASSUME NEW outcome, lifecycle.phase = "Active",
               outcome \in PushActive(candidates, lifecycle.selection, channels),
               Conclude(After(Call(candidates, <<>>), outcome,
                              lifecycle.selection, "Incremental"),
                        "Active", lifecycle.selection)
        PROVE  DialogInv' /\ Keeps(client, client')
    BY <1>2, <2>1, <2>3, PushActiveDialog
  <2> QED BY <1>5, <1>6, <1>7, <1>8, <2>2, <2>3
<1> QED BY <1>5, <1>6, <1>7, <1>8

\* Every state's sessions, merger and client tally, and a call keeps the client's
\* final turns.
THEOREM MultiStreamTallies == Spec => [](IInv /\ StreamInv /\ DialogInv)
<1>1. Init => IInv /\ StreamInv /\ DialogInv
  BY InitEstablishes, InitStreams, InitDialog
<1>2. DialogInv /\ IInv /\ StreamInv /\ (IInv /\ StreamInv)' /\ [Next]_vars => DialogInv'
  <2> SUFFICES ASSUME DialogInv, IInv, StreamInv, StreamInv', [Next]_vars PROVE DialogInv'
    OBVIOUS
  <2>1. CASE UNCHANGED vars
    BY <2>1 DEF vars, DialogInv, Tallies
  <2>2. CASE Next
    <3>1. Finish \/ \E n : n \in Nat /\ Push(n)
      BY <2>2, MultiStreamAssumption DEF Next
    <3> QED BY <3>1, PushDialog, FinishDialog
  <2> QED BY <2>1, <2>2
<1>3. Spec => [](IInv /\ StreamInv)
  BY MultiStreamFeeds
<1> QED BY <1>1, <1>2, <1>3, PTL DEF Spec

LEMMA ClientHoldsTurns ==
    ASSUME NEW sel, Dialog(sel, candidates, merger, client)
    PROVE  ClientHoldsDialogue
<1> DEFINE L == merger.last
<1>1. /\ sel \in SUBSET Channels /\ AllTalk(candidates) /\ merger.final \in Int
      /\ FinalTurns(L, merger.final, sel, DoneOf(sel, candidates)) /\ Shows(client, L)
  BY DEF Dialog, IsMerger
<1> HIDE DEF L
<1>2. /\ Len(client) = Len(L) /\ Len(client) \in Nat /\ DOMAIN client = 1..Len(client)
      /\ \A i \in 1..Len(client) : Alike(client[i], L[i]) /\ (client[i].final => client[i] = L[i])
  BY <1>1, SequenceShape DEF Shows, Tells
<1>3. ASSUME NEW i \in DOMAIN client
      PROVE  /\ [client[i] EXCEPT !.start = L[i].start, !.end = L[i].end] = L[i]
             /\ client[i].final => SameTurn(client[i], L[i])
  <2> DEFINE t == client[i]
             u == L[i]
  <2>1. Alike(t, u) /\ (t.final => t = u) /\ i \in 1..Len(L)
    BY <1>2
  <2>2. u.final => \E c, p, q : FinalTurn(u, i, merger.final, sel, DoneOf(sel, candidates), c, p, q)
    BY <1>1, <2>1 DEF FinalTurns
  <2> HIDE DEF t, u
  <2>3. [t EXCEPT !.start = u.start, !.end = u.end] = u
    BY <2>1 DEF Alike, IsTurn
  <2>4. ASSUME t.final PROVE SameTurn(t, u)
    <3>1. t = u
      BY <2>1, <2>4
    <3>2. PICK c, p, q : FinalTurn(u, i, merger.final, sel, DoneOf(sel, candidates), c, p, q)
      BY <2>2, <2>4, <3>1
    <3>3. /\ u.start = Speech[c][p].start /\ u.end \in Int /\ c \in Channels
          /\ p \in 1..Len(Speech[c])
      BY <1>1, <3>2, FinalTurnBegins
    <3>4. SpeechIs(c)
      BY <3>3, SpeechShape
    <3>5. u.start \in Nat
      BY <3>3, <3>4 DEF SpeechIs
    <3>6. Fuzz \in Nat
      BY MultiStreamAssumption
    <3> DEFINE a == u.start
               b == u.end
    <3>7. a \in Int /\ b \in Int
      BY <3>3, <3>5
    <3> HIDE DEF a, b
    <3>8. a - a \in -Fuzz..Fuzz /\ b - b \in -Fuzz..Fuzz
      BY <3>6, <3>7
    <3> QED BY <3>1, <3>8 DEF SameTurn, a, b
  <2> QED BY <2>3, <2>4 DEF t, u
<1> QED BY <1>2, <1>3, Zenon DEF ClientHoldsDialogue, L

\* The patches that a client applies leave it the dialogue that the merger holds, and
\* when the session has finished every turn is final and the turns of the selected
\* channels take every word that was heard exactly once: for any number of channels,
\* any speech, and any cutting of it into turns, bytes and calls (dialog.rs
\* update_with, first_difference; multi_stream.rs incremental_groups,
\* terminal_groups).
THEOREM ClientHoldsAllHolds == Spec => []ClientHoldsAll
<1>1. DialogInv => ClientHoldsAll
  <2> SUFFICES ASSUME DialogInv PROVE ClientHoldsDialogue /\ FinishedIsFinal
    BY DEF ClientHoldsAll
  <2>1. ClientHoldsDialogue
    BY ClientHoldsTurns DEF DialogInv, Tallies
  <2>2. lifecycle.phase = "Finished" /\ setup.mode # "Words" =>
          Said(client, lifecycle.selection, candidates)
    BY DEF DialogInv, Tallies
  <2>3. FinishedIsFinal
    BY <2>2 DEF FinishedIsFinal, Said, TurnsSay, TurnsAreTheWords
  <2> QED BY <2>1, <2>3
<1> QED BY <1>1, MultiStreamTallies, PTL

\* A turn that the client was shown as final keeps its place, its channel, its start and
\* its words, whatever arrives later and however it is cut (dialog.rs advance_frontiers,
\* finish_turn; API.md, "the dialogue behind the frontier is immutable").
THEOREM FinalTurnKeepsItsWordsHolds == Spec => FinalTurnKeepsItsWords
<1> DEFINE Stays == \A i \in DOMAIN client : client[i].final =>
              /\ i <= Len(client')
              /\ client'[i].channel = client[i].channel
              /\ client'[i].index = client[i].index
              /\ client'[i].start = client[i].start
              /\ IsPrefix(client[i].text, client'[i].text)
<1>1. /\ IInv /\ StreamInv /\ DialogInv /\ (IInv /\ StreamInv /\ DialogInv)' /\ [Next]_vars
      => [Stays]_vars
  <2> SUFFICES ASSUME IInv, StreamInv, StreamInv', DialogInv, Next
               PROVE  Stays
    BY DEF DialogInv
  <2>1. Finish \/ \E n : n \in Nat /\ Push(n)
    BY MultiStreamAssumption DEF Next
  <2>2. Keeps(client, client')
    BY <2>1, PushDialog, FinishDialog
  <2>3. PICK sel : Dialog(sel, candidates, merger, client)
    BY DEF DialogInv, Tallies
  <2>4. DOMAIN client = 1..Len(client)
    BY <2>3, SequenceShape DEF Dialog, Shows, Tells
  <2>5. ASSUME NEW i \in DOMAIN client, client[i].final
        PROVE  /\ i <= Len(client')
               /\ client'[i].channel = client[i].channel
               /\ client'[i].index = client[i].index
               /\ client'[i].start = client[i].start
               /\ IsPrefix(client[i].text, client'[i].text)
    <3>1. i \in 1..Len(client') /\ TurnKeeps(client[i], client'[i])
      BY <2>2, <2>4, <2>5 DEF Keeps
    <3> QED BY <3>1 DEF TurnKeeps
  <2> QED BY <2>5
<1>2. Spec => [](IInv /\ StreamInv /\ DialogInv) /\ [][Next]_vars
  BY MultiStreamTallies DEF Spec
<1> QED BY <1>1, <1>2, PTL DEF FinalTurnKeepsItsWords

=============================================================================
