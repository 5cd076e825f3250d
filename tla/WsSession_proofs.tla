----------------------------- MODULE WsSession_proofs -----------------------------
(***************************************************************************)
(* A live-audio session, for any number of sessions with any channels: its  *)
(* frames come in order, it is recorded once, and its channels stay         *)
(* reserved from its admission to its last frame.  What admission           *)
(* guarantees is taken from Admission_proofs.                               *)
(***************************************************************************)
EXTENDS WsSession, FiniteSetTheorems, TLAPS

AdmissionProofs ==
    INSTANCE Admission_proofs
      WITH Tokens   <- Sessions,
           PoolOf   <- [s \in Sessions |-> "ws"],
           Weight   <- Channels,
           Capacity <- [p \in {"http", "uploads", "ws"} |-> IF p = "ws" THEN MaxWs ELSE 1]

\* Where a session is in its log: not opened, open, closed, or failed.
Before  == {"admit", "captured", "warm", "warming", "classify", "open", "beforeOpen"}
During  == {"select", "config", "push", "deliver", "finish", "flush", "record", "tooBig"}
Closing == {"end", "close"}
Failing == {"error", "errorClose"}

RecordInv(s) ==
    /\ step[s] \in Before => log[s].open = 0 /\ log[s].close = 0 /\ failures[s] = 0
    /\ step[s] \in During => log[s].open = 1 /\ log[s].close = 0 /\ failures[s] = 0
    /\ step[s] \in Closing => log[s].open = 1 /\ log[s].close = 1 /\ failures[s] = 0
    /\ step[s] \in Failing => log[s].open \in {0, 1} /\ log[s].close = 0 /\ failures[s] = 1
    /\ step[s] \in {"leave", "ended"} =>
         /\ failures[s] \in {0, 1} /\ log[s].open \in {0, 1} /\ log[s].close \in {0, 1}
         /\ log[s].close <= log[s].open
         /\ failures[s] = 0 => log[s].close = log[s].open

\* What the peer has been sent, given where the session is.
WireInv(s) ==
    /\ wire[s] \in Conversations
    /\ step[s] \in Before \cup {"config"} => wire[s] = <<>>
    /\ step[s] \in During \cup {"end", "error"} => wire[s] \in Talk
    /\ step[s] = "select" /\ unsent[s] => wire[s] = <<>>
    /\ step[s] \in {"config", "push", "deliver"} => ~unsent[s]
    /\ step[s] = "close" => \E w \in Talk : wire[s] = Ending(w)
    /\ step[s] = "errorClose" => \E w \in Talk : wire[s] = Erring(w)

ReservedInv(s) ==
    /\ step[s] \notin {"admit", "ended"} => stage[s] = "held"
    /\ step[s] = "ended" => stage[s] # "held"

SessionInv(s) == RecordInv(s) /\ WireInv(s) /\ ReservedInv(s)

\* Opaque to most steps below: they need no fact about sequences.
Transcripts == Seq(Frames)

SessionType ==
    /\ step \in [Sessions -> Steps]
    /\ unsent \in [Sessions -> BOOLEAN]
    /\ wire \in [Sessions -> Transcripts]
    /\ log \in [Sessions -> [open : Nat, close : Nat, error : Nat]]
    /\ failures \in [Sessions -> Nat]

IInv == /\ SessionType
        /\ AdmissionProofs!IInv
        /\ \A s \in Sessions : SessionInv(s)

----------------------------------------------------------------------------
(* Admission, as the sessions use it. *)

LEMMA SessionsAreAdmissible ==
    /\ [s \in Sessions |-> "ws"] \in [Sessions -> AdmissionProofs!Pools]
    /\ Channels \in [Sessions -> Nat \ {0}]
    /\ [p \in {"http", "uploads", "ws"} |-> IF p = "ws" THEN MaxWs ELSE 1]
         \in [AdmissionProofs!Pools -> Nat \ {0}]
BY SessionAssumption DEF AdmissionProofs!Pools

AdmissionStep ==
    \/ UNCHANGED admissionVars
    \/ \E s \in Sessions : Admission!Admit(s) \/ Admission!Release(s)
    \/ Admission!BeginDraining \/ Admission!Close

LEMMA AdmissionStepPreserves ==
    ASSUME AdmissionProofs!IInv, AdmissionStep
    PROVE  AdmissionProofs!IInv'
<1>1. AdmissionStep => AdmissionProofs!Next \/ UNCHANGED AdmissionProofs!vars
  BY DEF AdmissionStep, admissionVars, AdmissionProofs!vars, AdmissionProofs!Next,
         Admission!Admit, Admission!ReadPhase, Admission!TryAcquire,
         Admission!ClassifyRefusal, Admission!Commit, Admission!Surrender,
         Admission!Release, Admission!BeginDraining, Admission!Close,
         Admission!GiveBack, Admission!Goto, Admission!life, Admission!AfterClosing,
         Admission!Pools,
         AdmissionProofs!Admit, AdmissionProofs!ReadPhase, AdmissionProofs!TryAcquire,
         AdmissionProofs!ClassifyRefusal, AdmissionProofs!Commit,
         AdmissionProofs!Surrender, AdmissionProofs!Release,
         AdmissionProofs!BeginDraining, AdmissionProofs!Shutdown, AdmissionProofs!Close,
         AdmissionProofs!GiveBack, AdmissionProofs!Goto, AdmissionProofs!life,
         AdmissionProofs!AfterClosing, AdmissionProofs!Pools
<1> QED BY <1>1, SessionsAreAdmissible, AdmissionProofs!StepPreserves

\* An attempt moves its own stage; what is held stays held until it is released.
LEMMA StagesMoveAlone ==
    ASSUME IInv, NEW s \in Sessions
    PROVE  /\ Admission!Release(s) => stage' = [stage EXCEPT ![s] = "idle"]
           /\ Admission!Admit(s) => \E x \in Admission!Stages :
                                       stage' = [stage EXCEPT ![s] = x]
           /\ stage \in [Sessions -> Admission!Stages]
BY DEF IInv, AdmissionProofs!IInv, AdmissionProofs!TypeOK, AdmissionProofs!Stages,
       Admission!Stages, Admission!Release, Admission!Admit, Admission!ReadPhase,
       Admission!TryAcquire, Admission!ClassifyRefusal, Admission!Commit,
       Admission!Surrender, Admission!Goto

----------------------------------------------------------------------------
(* A session's steps touch no other session. *)

OthersKept(s) ==
    \A u \in Sessions \ {s} :
        /\ step'[u] = step[u] /\ unsent'[u] = unsent[u] /\ wire'[u] = wire[u]
        /\ log'[u] = log[u] /\ failures'[u] = failures[u] /\ stage'[u] = stage[u]

LEMMA FrameKeepsOthers ==
    ASSUME IInv, NEW s \in Sessions, OthersKept(s), SessionType', AdmissionStep,
           SessionInv(s)'
    PROVE  IInv'
<1>1. ASSUME NEW u \in Sessions \ {s} PROVE SessionInv(u)'
  BY <1>1 DEF IInv, OthersKept, SessionInv, RecordInv, WireInv, ReservedInv
<1>2. AdmissionProofs!IInv'
  BY AdmissionStepPreserves DEF IInv
<1> QED BY <1>1, <1>2 DEF IInv

----------------------------------------------------------------------------
(* How a conversation grows.                                               *)

LEMMA FramesGrow ==
    ASSUME NEW w \in Transcripts, NEW frame \in Frames
    PROVE  Heard(w, frame) \in Transcripts
BY DEF Heard, Transcripts

\* Both are the sequence of these two frames.
LEMMA ConfigThenText == Append(<<"config">>, "text") = <<"config", "text">>
<1> DEFINE u == Append(<<"config">>, "text")
           v == <<"config", "text">>
<1>1. <<"config">> \in Seq({"config", "text"})
  OBVIOUS
<1>2. u \in Seq({"config", "text"}) /\ Len(u) = 2 /\ u[1] = "config" /\ u[2] = "text"
  BY <1>1
<1>3. v \in Seq({"config", "text"}) /\ Len(v) = 2 /\ v[1] = "config" /\ v[2] = "text"
  OBVIOUS
<1>4. \A i \in 1..2 : u[i] = v[i]
  BY <1>2, <1>3
<1> HIDE DEF u, v
<1>5. u = v
  BY <1>2, <1>3, <1>4
<1> QED BY <1>5 DEF u, v

LEMMA TalkGrows ==
    /\ <<>> \in Talk /\ <<>> \in Transcripts
    /\ Heard(<<>>, "config") \in Talk
    /\ \A w \in Talk : Heard(w, "text") \in Talk
<1>1. <<>> \in Talk /\ <<>> \in Transcripts
  BY DEF Talk, Transcripts
<1>2. Heard(<<>>, "config") = <<"config">> /\ <<"config">> \in Talk
  BY DEF Heard, Talk
<1>3. ASSUME NEW w \in Talk PROVE Heard(w, "text") \in Talk
  <2>1. CASE w = <<>>
    <3>1. Heard(w, "text") = <<"text">>
      BY <2>1 DEF Heard
    <3> QED BY <3>1 DEF Talk
  <2>2. CASE w = <<"config">>
    <3>1. Heard(w, "text") = Append(<<"config">>, "text")
      BY <2>2 DEF Heard
    <3> QED BY <3>1, ConfigThenText DEF Talk
  <2>3. CASE w = <<"text">> \/ w = <<"config", "text">>
    <3>1. Heard(w, "text") = w
      BY <2>3 DEF Heard
    <3> QED BY <3>1
  <2> QED BY <2>1, <2>2, <2>3 DEF Talk
<1> QED BY <1>1, <1>2, <1>3

LEMMA ConversationsEnd ==
    /\ Talk \subseteq Conversations
    /\ \A w \in Talk : /\ Heard(w, "end") = Ending(w) /\ Ending(w) \in Conversations
                       /\ Heard(w, "error") = Erring(w) /\ Erring(w) \in Conversations
                       /\ Heard(w, "close") \in Conversations
                       /\ Heard(Ending(w), "close") \in Conversations
                       /\ Heard(Erring(w), "close") \in Conversations
<1>1. \A w : /\ Heard(w, "end") = Ending(w) /\ Heard(w, "error") = Erring(w)
             /\ Heard(w, "close") = Append(w, "close")
  BY DEF Heard, Ending, Erring
<1> QED BY <1>1 DEF Conversations

\* A record of a session touches no other session's.
LEMMA RecordsMoveAlone ==
    ASSUME SessionType, NEW s \in Sessions, NEW k \in Nat,
           log' = [log EXCEPT ![s].error = @ + k]
    PROVE  /\ log' \in [Sessions -> [open : Nat, close : Nat, error : Nat]]
           /\ log'[s].open = log[s].open /\ log'[s].close = log[s].close
           /\ \A u \in Sessions \ {s} : log'[u] = log[u]
<1> DEFINE new == [log[s] EXCEPT !.error = @ + k]
<1>1. log[s] \in [open : Nat, close : Nat, error : Nat]
  BY DEF SessionType
<1>2. new \in [open : Nat, close : Nat, error : Nat]
      /\ new.open = log[s].open /\ new.close = log[s].close
  BY <1>1
<1>3. log' = [log EXCEPT ![s] = new]
  OBVIOUS
<1>4. log \in [Sessions -> [open : Nat, close : Nat, error : Nat]]
  BY DEF SessionType
<1> HIDE DEF new
<1>5. log'[s] = new /\ \A u \in Sessions \ {s} : log'[u] = log[u]
  BY <1>3, <1>4
<1> QED BY <1>2, <1>3, <1>4, <1>5

LEMMA FailuresMoveAlone ==
    ASSUME SessionType, NEW s \in Sessions
    PROVE  /\ Diagnose(s) =>
                /\ log' \in [Sessions -> [open : Nat, close : Nat, error : Nat]]
                /\ \A u \in Sessions \ {s} : log'[u] = log[u]
           /\ Failed(s) =>
                /\ log' \in [Sessions -> [open : Nat, close : Nat, error : Nat]]
                /\ failures' \in [Sessions -> Nat]
                /\ \A u \in Sessions \ {s} : /\ log'[u] = log[u]
                                             /\ failures'[u] = failures[u]
<1>1. Diagnose(s) => /\ log' \in [Sessions -> [open : Nat, close : Nat, error : Nat]]
                     /\ \A u \in Sessions \ {s} : log'[u] = log[u]
  BY RecordsMoveAlone DEF Diagnose
<1>2. Failed(s) => /\ failures' \in [Sessions -> Nat]
                   /\ \A u \in Sessions \ {s} : failures'[u] = failures[u]
  BY DEF Failed, SessionType
<1>3. Failed(s) => Diagnose(s)
  BY DEF Failed
<1> QED BY <1>1, <1>2, <1>3

LEMMA DeliveriesMoveAlone ==
    ASSUME SessionType, NEW s \in Sessions, NEW from \in Steps, NEW frame \in Frames,
           NEW to \in Steps, Deliver(s, from, frame, to)
    PROVE  /\ step' \in [Sessions -> Steps] /\ wire' \in [Sessions -> Transcripts]
           /\ log' \in [Sessions -> [open : Nat, close : Nat, error : Nat]]
           /\ failures' \in [Sessions -> Nat]
           /\ \A u \in Sessions \ {s} : /\ step'[u] = step[u] /\ wire'[u] = wire[u]
                                        /\ log'[u] = log[u] /\ failures'[u] = failures[u]
<1>1. /\ log' \in [Sessions -> [open : Nat, close : Nat, error : Nat]]
      /\ failures' \in [Sessions -> Nat]
      /\ \A u \in Sessions \ {s} : log'[u] = log[u] /\ failures'[u] = failures[u]
  BY FailuresMoveAlone DEF Deliver, reports, SessionType
<1>2. /\ step' \in [Sessions -> Steps] /\ wire' \in [Sessions -> Transcripts]
      /\ \A u \in Sessions \ {s} : step'[u] = step[u] /\ wire'[u] = wire[u]
  BY FramesGrow, SMTT(30) DEF Deliver, Goto, Sent, Lost, SessionType, Steps
<1> QED BY <1>1, <1>2

\* A delivery keeps the invariant if it keeps its own session's.
LEMMA DeliveryKeeps ==
    ASSUME IInv, NEW s \in Sessions, NEW from \in Steps, NEW frame \in Frames,
           NEW to \in Steps, Deliver(s, from, frame, to),
           UNCHANGED <<admissionVars, seen, purpose, unsent, reading>>,
           SessionInv(s)'
    PROVE  IInv'
<1>1. SessionType /\ UNCHANGED <<unsent, stage>> /\ AdmissionStep
  BY DEF IInv, admissionVars, AdmissionStep
<1>2. SessionType' /\ OthersKept(s)
  BY <1>1, DeliveriesMoveAlone DEF SessionType, OthersKept
<1> QED BY <1>1, <1>2, FrameKeepsOthers

----------------------------------------------------------------------------
(* One lemma per action. *)

LEMMA RefusedKeeps ==
    ASSUME IInv, NEW s \in Sessions, Refused(s)
    PROVE  IInv'
<1>1. SessionType' /\ OthersKept(s) /\ AdmissionStep
  BY DEF IInv, SessionType, Steps, Frames, OthersKept, AdmissionStep, Refused,
         Goto, reports, admissionVars
<1>2. SessionInv(s)'
  BY DEF IInv, SessionType, SessionInv, RecordInv, WireInv, ReservedInv, Before,
         During, Closing, Failing, Steps, Frames, Refused,
         Goto, reports, admissionVars
<1> QED BY <1>1, <1>2, FrameKeepsOthers

LEMMA SubscribeKeeps ==
    ASSUME IInv, NEW s \in Sessions, Subscribe(s)
    PROVE  IInv'
<1>1. SessionType' /\ OthersKept(s) /\ AdmissionStep
  BY DEF IInv, SessionType, Steps, Frames, OthersKept, AdmissionStep, Subscribe,
         Goto, reports, admissionVars
<1>2. SessionInv(s)'
  BY DEF IInv, SessionType, SessionInv, RecordInv, WireInv, ReservedInv, Before,
         During, Closing, Failing, Steps, Frames, Subscribe,
         Goto, reports, admissionVars
<1> QED BY <1>1, <1>2, FrameKeepsOthers

LEMMA UpgradeKeeps ==
    ASSUME IInv, NEW s \in Sessions, Upgrade(s)
    PROVE  IInv'
<1>1. SessionType' /\ OthersKept(s) /\ AdmissionStep
  BY DEF IInv, SessionType, Steps, Frames, OthersKept, AdmissionStep, Upgrade,
         Goto, reports, admissionVars
<1>2. SessionInv(s)'
  BY DEF IInv, SessionType, SessionInv, RecordInv, WireInv, ReservedInv, Before,
         During, Closing, Failing, Steps, Frames, Upgrade,
         Goto, reports, admissionVars
<1> QED BY <1>1, <1>2, FrameKeepsOthers

LEMMA StartWarmupKeeps ==
    ASSUME IInv, NEW s \in Sessions, StartWarmup(s)
    PROVE  IInv'
<1>1. SessionType' /\ OthersKept(s) /\ AdmissionStep
  BY DEF IInv, SessionType, Steps, Frames, OthersKept, AdmissionStep,
         StartWarmup, Goto, reports, admissionVars
<1>2. SessionInv(s)'
  BY DEF IInv, SessionType, SessionInv, RecordInv, WireInv, ReservedInv, Before,
         During, Closing, Failing, Steps, Frames,
         StartWarmup, Goto, reports, admissionVars
<1> QED BY <1>1, <1>2, FrameKeepsOthers

LEMMA WarmedKeeps ==
    ASSUME IInv, NEW s \in Sessions, Warmed(s)
    PROVE  IInv'
<1>1. SessionType' /\ OthersKept(s) /\ AdmissionStep
  BY FailuresMoveAlone DEF IInv, SessionType, Steps, Frames, OthersKept, AdmissionStep,
         Warmed, Goto, reports, admissionVars
<1>2. SessionInv(s)'
  <2>1. RecordInv(s)' /\ ReservedInv(s)'
    BY SMTT(30) DEF IInv, SessionType, SessionInv, RecordInv, ReservedInv, Before,
           During, Closing, Failing, Steps, Warmed, Goto, Diagnose, Failed, reports,
           admissionVars
  <2>2. WireInv(s)'
    BY TalkGrows, SMTT(30) DEF IInv, SessionType, SessionInv, WireInv, Before, During,
           Closing, Failing, Steps, Warmed, Goto, admissionVars
  <2> QED BY <2>1, <2>2 DEF SessionInv
<1> QED BY <1>1, <1>2, FrameKeepsOthers

LEMMA ClassifyKeeps ==
    ASSUME IInv, NEW s \in Sessions, Classify(s)
    PROVE  IInv'
<1>1. SessionType' /\ OthersKept(s) /\ AdmissionStep
  BY DEF IInv, SessionType, Steps, Frames, OthersKept, AdmissionStep, Classify,
         Goto, reports, admissionVars
<1>2. SessionInv(s)'
  <2>1. RecordInv(s)' /\ ReservedInv(s)'
    BY SMTT(30) DEF IInv, SessionType, SessionInv, RecordInv, ReservedInv, Before,
           During, Closing, Failing, Steps, Classify, Goto, reports, admissionVars
  <2>2. WireInv(s)'
    BY TalkGrows, SMTT(30) DEF IInv, SessionType, SessionInv, WireInv, Before, During,
           Closing, Failing, Steps, Classify, Goto, admissionVars
  <2> QED BY <2>1, <2>2 DEF SessionInv
<1> QED BY <1>1, <1>2, FrameKeepsOthers

LEMMA CloseBeforeOpenKeeps ==
    ASSUME IInv, NEW s \in Sessions, CloseBeforeOpen(s)
    PROVE  IInv'
<1>1. SessionInv(s)'
  <2>1. RecordInv(s)' /\ ReservedInv(s)'
    BY SMTT(30) DEF IInv, SessionType, SessionInv, RecordInv, ReservedInv, Before,
           During, Closing, Failing, Steps, CloseBeforeOpen, Goto, Diagnose, Failed,
           Sent, Lost, Deliver, reports, admissionVars
  <2>2. WireInv(s)'
    BY TalkGrows, ConversationsEnd, SMTT(30) DEF IInv, SessionType, SessionInv, WireInv,
           Before, During, Closing, Failing, Steps, Frames, CloseBeforeOpen, Goto, Sent,
           Lost, Deliver, admissionVars
  <2> QED BY <2>1, <2>2 DEF SessionInv
<1> QED BY <1>1, DeliveryKeeps DEF CloseBeforeOpen, Steps, Frames

LEMMA OpenKeeps ==
    ASSUME IInv, NEW s \in Sessions, Open(s)
    PROVE  IInv'
<1>1. SessionType' /\ OthersKept(s) /\ AdmissionStep
  BY DEF IInv, SessionType, Steps, Frames, OthersKept, AdmissionStep, Open,
         Goto, Opened, reports, admissionVars
<1>2. SessionInv(s)'
  <2>1. RecordInv(s)' /\ ReservedInv(s)'
    BY SMTT(30) DEF IInv, SessionType, SessionInv, RecordInv, ReservedInv, Before,
           During, Closing, Failing, Steps, Open, Goto, Opened, reports, admissionVars
  <2>2. WireInv(s)'
    BY TalkGrows, SMTT(30) DEF IInv, SessionType, SessionInv, WireInv, Before, During,
           Closing, Failing, Steps, Open, Goto, admissionVars
  <2> QED BY <2>1, <2>2 DEF SessionInv
<1> QED BY <1>1, <1>2, FrameKeepsOthers

LEMMA SeeShutdownKeeps ==
    ASSUME IInv, NEW s \in Sessions, SeeShutdown(s)
    PROVE  IInv'
<1>1. SessionType' /\ OthersKept(s) /\ AdmissionStep
  BY DEF IInv, SessionType, Steps, Frames, OthersKept, AdmissionStep,
         SeeShutdown, Goto, Begin, Changed, reports, admissionVars
<1>2. SessionInv(s)'
  BY DEF IInv, SessionType, SessionInv, RecordInv, WireInv, ReservedInv, Before,
         During, Closing, Failing, Steps, Frames,
         SeeShutdown, Goto, Begin, Changed, reports, admissionVars
<1> QED BY <1>1, <1>2, FrameKeepsOthers

LEMMA TakeConfigKeeps ==
    ASSUME IInv, NEW s \in Sessions, TakeConfig(s)
    PROVE  IInv'
<1>1. SessionType' /\ OthersKept(s) /\ AdmissionStep
  BY DEF IInv, SessionType, Steps, Frames, OthersKept, AdmissionStep,
         TakeConfig, Goto, Changed, reports, admissionVars
<1>2. SessionInv(s)'
  BY SMTT(30) DEF IInv, SessionType, SessionInv, RecordInv, WireInv, ReservedInv, Before,
         During, Closing, Failing, Steps, Frames,
         TakeConfig, Goto, Changed, reports, admissionVars
<1> QED BY <1>1, <1>2, FrameKeepsOthers

LEMMA SendConfigKeeps ==
    ASSUME IInv, NEW s \in Sessions, SendConfig(s)
    PROVE  IInv'
<1>1. SessionInv(s)'
  <2>1. RecordInv(s)' /\ ReservedInv(s)'
    BY SMTT(30) DEF IInv, SessionType, SessionInv, RecordInv, ReservedInv, Before,
           During, Closing, Failing, Steps, SendConfig, Goto, Diagnose, Failed, Sent,
           Lost, Deliver, reports, admissionVars
  <2>2. WireInv(s)'
    BY TalkGrows, ConversationsEnd, SMTT(30) DEF IInv, SessionType, SessionInv, WireInv,
           Before, During, Closing, Failing, Steps, Frames, SendConfig, Goto, Sent,
           Lost, Deliver, admissionVars
  <2> QED BY <2>1, <2>2 DEF SessionInv
<1> QED BY <1>1, DeliveryKeeps DEF SendConfig, Steps, Frames

LEMMA ReceiveKeeps ==
    ASSUME IInv, NEW s \in Sessions, Receive(s)
    PROVE  IInv'
<1>1. SessionType' /\ OthersKept(s) /\ AdmissionStep
  BY FailuresMoveAlone DEF IInv, SessionType, Steps, Frames, OthersKept, AdmissionStep,
         Receive, Goto, Begin, Frame, Changed, reports, admissionVars
<1>2. SessionInv(s)'
  BY DEF IInv, SessionType, SessionInv, RecordInv, WireInv, ReservedInv, Before,
         During, Closing, Failing, Steps, Frames, Receive,
         Goto, Diagnose, Failed, Begin, Frame, Changed, reports, admissionVars
<1> QED BY <1>1, <1>2, FrameKeepsOthers

LEMMA PushedKeeps ==
    ASSUME IInv, NEW s \in Sessions, Pushed(s)
    PROVE  IInv'
<1>1. SessionType' /\ OthersKept(s) /\ AdmissionStep
  BY FailuresMoveAlone, SMTT(30) DEF IInv, SessionType, Steps, Frames, OthersKept, AdmissionStep,
         Pushed, Goto, reports, admissionVars
<1>2. SessionInv(s)'
  BY DEF IInv, SessionType, SessionInv, RecordInv, WireInv, ReservedInv, Before,
         During, Closing, Failing, Steps, Frames, Pushed,
         Goto, Diagnose, Failed, reports, admissionVars
<1> QED BY <1>1, <1>2, FrameKeepsOthers

LEMMA SendStepKeeps ==
    ASSUME IInv, NEW s \in Sessions, SendStep(s)
    PROVE  IInv'
<1>1. SessionInv(s)'
  <2>1. RecordInv(s)' /\ ReservedInv(s)'
    BY SMTT(30) DEF IInv, SessionType, SessionInv, RecordInv, ReservedInv, Before,
           During, Closing, Failing, Steps, SendStep, Goto, Diagnose, Failed, Sent,
           Lost, Deliver, reports, admissionVars
  <2>2. WireInv(s)'
    BY TalkGrows, ConversationsEnd, SMTT(30) DEF IInv, SessionType, SessionInv, WireInv,
           Before, During, Closing, Failing, Steps, Frames, SendStep, Goto, Sent, Lost,
           Deliver, admissionVars
  <2> QED BY <2>1, <2>2 DEF SessionInv
<1> QED BY <1>1, DeliveryKeeps DEF SendStep, Steps, Frames

LEMMA RefuseTooBigKeeps ==
    ASSUME IInv, NEW s \in Sessions, RefuseTooBig(s)
    PROVE  IInv'
<1>1. SessionType
  BY DEF IInv
<1>2. /\ log' \in [Sessions -> [open : Nat, close : Nat, error : Nat]]
      /\ \A u \in Sessions \ {s} : log'[u] = log[u]
  BY <1>1, RecordsMoveAlone, FailuresMoveAlone DEF RefuseTooBig, SessionType, reports, Closed
<1>3. SessionType' /\ OthersKept(s) /\ AdmissionStep
  BY <1>1, <1>2, FramesGrow DEF SessionType, Steps, Frames, OthersKept, AdmissionStep,
         RefuseTooBig, Goto, Sent, Lost, reports, admissionVars
<1>4. SessionInv(s)'
  <2>1. RecordInv(s)' /\ ReservedInv(s)'
    BY SMTT(30) DEF IInv, SessionType, SessionInv, RecordInv, ReservedInv, Before,
           During, Closing, Failing, Steps, RefuseTooBig, Goto, Diagnose, Sent, Lost,
           reports, admissionVars
  <2>2. WireInv(s)'
    BY TalkGrows, ConversationsEnd, SMTT(30) DEF IInv, SessionType, SessionInv, WireInv,
           Before, During, Closing, Failing, Steps, Frames, RefuseTooBig, Goto, Sent,
           Lost, admissionVars
  <2> QED BY <2>1, <2>2 DEF SessionInv
<1> QED BY <1>3, <1>4, FrameKeepsOthers

LEMMA FinishedKeeps ==
    ASSUME IInv, NEW s \in Sessions, Finished(s)
    PROVE  IInv'
<1>1. SessionType
  BY DEF IInv
<1>2. /\ log' \in [Sessions -> [open : Nat, close : Nat, error : Nat]]
      /\ \A u \in Sessions \ {s} : log'[u] = log[u]
  <2>1. CASE Failed(s) \/ UNCHANGED log
    BY <1>1, <2>1, FailuresMoveAlone DEF SessionType
  <2>2. CASE Closed(s) \/ log' = [log EXCEPT ![s].close = @ + 1, ![s].error = @ + 1]
    BY <1>1, <2>2 DEF SessionType, Closed
  <2> QED BY <2>1, <2>2 DEF Finished, reports
<1>3. /\ failures' \in [Sessions -> Nat]
      /\ \A u \in Sessions \ {s} : failures'[u] = failures[u]
  BY <1>1, FailuresMoveAlone DEF Finished, SessionType, reports
<1>4. /\ step' \in [Sessions -> Steps]
      /\ \A u \in Sessions \ {s} : step'[u] = step[u]
  BY <1>1 DEF Finished, SessionType, Goto, Steps
<1>5. UNCHANGED <<unsent, wire, stage>> /\ AdmissionStep
  BY DEF Finished, admissionVars, AdmissionStep
<1>6. SessionType' /\ OthersKept(s)
  BY <1>1, <1>2, <1>3, <1>4, <1>5 DEF SessionType, OthersKept
<1>7. SessionInv(s)'
  BY SMTT(30) DEF IInv, SessionType, SessionInv, RecordInv, WireInv, ReservedInv, Before, During,
         Closing, Failing, Steps, Frames, Goto, Closed, Diagnose,
         Failed, Finished, reports, admissionVars
<1> QED BY <1>5, <1>6, <1>7, FrameKeepsOthers

LEMMA SendFinalKeeps ==
    ASSUME IInv, NEW s \in Sessions, SendFinal(s)
    PROVE  IInv'
<1>1. SessionInv(s)'
  <2>1. RecordInv(s)' /\ ReservedInv(s)'
    BY SMTT(30) DEF IInv, SessionType, SessionInv, RecordInv, ReservedInv, Before,
           During, Closing, Failing, Steps, SendFinal, Goto, Diagnose, Failed, Sent,
           Lost, Deliver, reports, admissionVars
  <2>2. WireInv(s)'
    BY TalkGrows, ConversationsEnd, SMTT(30) DEF IInv, SessionType, SessionInv, WireInv,
           Before, During, Closing, Failing, Steps, Frames, SendFinal, Goto, Sent, Lost,
           Deliver, admissionVars
  <2> QED BY <2>1, <2>2 DEF SessionInv
<1> QED BY <1>1, DeliveryKeeps DEF SendFinal, Steps, Frames

LEMMA FlushedKeeps ==
    ASSUME IInv, NEW s \in Sessions, Flushed(s)
    PROVE  IInv'
<1>1. SessionType' /\ OthersKept(s) /\ AdmissionStep
  BY DEF IInv, SessionType, Steps, Frames, OthersKept, AdmissionStep, Flushed,
         Goto, Closed, reports, admissionVars
<1>2. SessionInv(s)'
  BY SMTT(30) DEF IInv, SessionType, SessionInv, RecordInv, WireInv, ReservedInv, Before,
         During, Closing, Failing, Steps, Frames, Flushed,
         Goto, Closed, reports, admissionVars
<1> QED BY <1>1, <1>2, FrameKeepsOthers

LEMMA SendEndKeeps ==
    ASSUME IInv, NEW s \in Sessions, SendEnd(s)
    PROVE  IInv'
<1>1. SessionInv(s)'
  <2>1. RecordInv(s)' /\ ReservedInv(s)'
    BY SMTT(30) DEF IInv, SessionType, SessionInv, RecordInv, ReservedInv, Before,
           During, Closing, Failing, Steps, SendEnd, Goto, Diagnose, Failed, Sent, Lost,
           Deliver, reports, admissionVars
  <2>2. WireInv(s)'
    BY TalkGrows, ConversationsEnd, SMTT(30) DEF IInv, SessionType, SessionInv, WireInv,
           Before, During, Closing, Failing, Steps, Frames, SendEnd, Goto, Sent, Lost,
           Deliver, admissionVars
  <2> QED BY <2>1, <2>2 DEF SessionInv
<1> QED BY <1>1, DeliveryKeeps DEF SendEnd, Steps, Frames

LEMMA SendCloseKeeps ==
    ASSUME IInv, NEW s \in Sessions, SendClose(s)
    PROVE  IInv'
<1>1. SessionInv(s)'
  <2>1. RecordInv(s)' /\ ReservedInv(s)'
    BY SMTT(30) DEF IInv, SessionType, SessionInv, RecordInv, ReservedInv, Before,
           During, Closing, Failing, Steps, SendClose, Goto, Diagnose, Failed, Sent,
           Lost, Deliver, reports, admissionVars
  <2>2. WireInv(s)'
    BY TalkGrows, ConversationsEnd, SMTT(30) DEF IInv, SessionType, SessionInv, WireInv,
           Before, During, Closing, Failing, Steps, Frames, SendClose, Goto, Sent, Lost,
           Deliver, admissionVars
  <2> QED BY <2>1, <2>2 DEF SessionInv
<1> QED BY <1>1, DeliveryKeeps DEF SendClose, Steps, Frames

LEMMA SendErrorKeeps ==
    ASSUME IInv, NEW s \in Sessions, SendError(s)
    PROVE  IInv'
<1>1. SessionType' /\ OthersKept(s) /\ AdmissionStep
  BY FailuresMoveAlone, FramesGrow DEF IInv, SessionType, Steps, Frames, OthersKept,
         AdmissionStep, SendError, Goto, Sent, Lost, reports, admissionVars
<1>2. SessionInv(s)'
  <2>1. RecordInv(s)' /\ ReservedInv(s)'
    BY SMTT(30) DEF IInv, SessionType, SessionInv, RecordInv, ReservedInv, Before,
           During, Closing, Failing, Steps, SendError, Goto, Diagnose, Sent, Lost,
           reports, admissionVars
  <2>2. WireInv(s)'
    BY TalkGrows, ConversationsEnd, SMTT(30) DEF IInv, SessionType, SessionInv, WireInv,
           Before, During, Closing, Failing, Steps, Frames, SendError, Goto, Sent, Lost,
           admissionVars
  <2> QED BY <2>1, <2>2 DEF SessionInv
<1> QED BY <1>1, <1>2, FrameKeepsOthers

LEMMA SendErrorCloseKeeps ==
    ASSUME IInv, NEW s \in Sessions, SendErrorClose(s)
    PROVE  IInv'
<1>1. SessionType' /\ OthersKept(s) /\ AdmissionStep
  <2>1. SessionType /\ UNCHANGED <<unsent, stage, failures>> /\ AdmissionStep
    BY DEF IInv, SendErrorClose, AdmissionStep, admissionVars
  <2>2. /\ log' \in [Sessions -> [open : Nat, close : Nat, error : Nat]]
        /\ \A u \in Sessions \ {s} : log'[u] = log[u]
    BY <2>1, FailuresMoveAlone DEF SendErrorClose, SessionType
  <2>3. /\ step' \in [Sessions -> Steps] /\ wire' \in [Sessions -> Transcripts]
        /\ \A u \in Sessions \ {s} : step'[u] = step[u] /\ wire'[u] = wire[u]
    BY <2>1, FramesGrow, SMTT(30)
       DEF SendErrorClose, Goto, Sent, Lost, SessionType, Steps, Frames
  <2> QED BY <2>1, <2>2, <2>3 DEF SessionType, OthersKept
<1>2. SessionInv(s)'
  <2>1. RecordInv(s)' /\ ReservedInv(s)'
    BY SMTT(30) DEF IInv, SessionType, SessionInv, RecordInv, ReservedInv, Before,
           During, Closing, Failing, Steps, SendErrorClose, Goto, Diagnose, Sent, Lost,
           reports, admissionVars
  <2>2. WireInv(s)'
    BY TalkGrows, ConversationsEnd, SMTT(30) DEF IInv, SessionType, SessionInv, WireInv,
           Before, During, Closing, Failing, Steps, Frames, SendErrorClose, Goto, Sent,
           Lost, admissionVars
  <2> QED BY <2>1, <2>2 DEF SessionInv
<1> QED BY <1>1, <1>2, FrameKeepsOthers

LEMMA StopReadingKeeps ==
    ASSUME IInv, NEW s \in Sessions, StopReading(s)
    PROVE  IInv'
<1>1. SessionType' /\ OthersKept(s) /\ AdmissionStep
  BY DEF IInv, SessionType, Steps, Frames, OthersKept, AdmissionStep,
         StopReading, reports, admissionVars
<1>2. SessionInv(s)'
  BY DEF IInv, SessionType, SessionInv, RecordInv, WireInv, ReservedInv, Before,
         During, Closing, Failing, Steps, Frames,
         StopReading, reports, admissionVars
<1> QED BY <1>1, <1>2, FrameKeepsOthers

\* The admission attempt moves only its own stage, and nothing is reserved yet.
LEMMA AdmitKeeps ==
    ASSUME IInv, NEW s \in Sessions, Admit(s)
    PROVE  IInv'
<1>1. PICK x \in Admission!Stages : stage' = [stage EXCEPT ![s] = x]
  BY StagesMoveAlone DEF Admit
<1>2. UNCHANGED <<step, unsent, wire, log, failures>> /\ step[s] = "admit" /\ AdmissionStep
  BY DEF Admit, AdmissionStep, reports
<1>3. SessionType' /\ OthersKept(s)
  BY <1>1, <1>2, StagesMoveAlone DEF IInv, SessionType, OthersKept
<1>4. SessionInv(s)'
  BY <1>2 DEF IInv, SessionInv, RecordInv, WireInv, ReservedInv
<1> QED BY <1>2, <1>3, <1>4, FrameKeepsOthers

\* The session gives its permits back as it ends.
LEMMA LeaveKeeps ==
    ASSUME IInv, NEW s \in Sessions, Leave(s)
    PROVE  IInv'
<1>1. stage' = [stage EXCEPT ![s] = "idle"] /\ AdmissionStep
  BY StagesMoveAlone DEF Leave, AdmissionStep
<1>2. SessionType' /\ OthersKept(s) /\ stage'[s] = "idle"
  BY <1>1, StagesMoveAlone DEF Leave, Goto, IInv, SessionType, OthersKept, Steps, reports
<1>3. SessionInv(s)'
  BY <1>2 DEF Leave, Goto, IInv, SessionType, SessionInv, RecordInv, WireInv, ReservedInv,
     Before, During, Closing, Failing, reports
<1> QED BY <1>1, <1>2, <1>3, FrameKeepsOthers

\* A step that leaves every session and its stage alone.
LEMMA DrainKeeps ==
    ASSUME IInv, AdmissionStep, UNCHANGED <<stage, step, unsent, wire, log, failures>>
    PROVE  IInv'
<1>1. AdmissionProofs!IInv'
  BY AdmissionStepPreserves DEF IInv
<1> QED BY <1>1 DEF IInv, SessionType, SessionInv, RecordInv, WireInv, ReservedInv

----------------------------------------------------------------------------
(* The invariant, and what follows from it. *)

LEMMA InitEstablishes == Init => IInv
<1> SUFFICES ASSUME Init PROVE IInv
  OBVIOUS
<1>1. AdmissionProofs!IInv
  <2>1. Admission!Init => AdmissionProofs!Init
    BY DEF Admission!Init, AdmissionProofs!Init, Admission!Pools, AdmissionProofs!Pools
  <2> QED BY <2>1, SessionsAreAdmissible, AdmissionProofs!InitEstablishes DEF Init
<1>2. SessionType
  BY TalkGrows DEF Init, SessionType, Steps, Frames
<1>3. \A s \in Sessions : SessionInv(s)
  BY TalkGrows, ConversationsEnd DEF Init, SessionInv, RecordInv, WireInv, ReservedInv, Before,
         During, Closing, Failing
<1> QED BY <1>1, <1>2, <1>3 DEF IInv

LEMMA StepKeeps ==
    ASSUME IInv, [Next]_vars
    PROVE  IInv'
<1>1. CASE UNCHANGED vars
  <2>1. AdmissionStep /\ UNCHANGED <<stage, step, unsent, wire, log, failures>>
    BY <1>1 DEF vars, admissionVars, reports, AdmissionStep
  <2> QED BY <2>1, DrainKeeps
<1>2. CASE Drain
  <2>1. AdmissionStep /\ UNCHANGED <<stage, step, unsent, wire, log, failures>>
    BY <1>2 DEF Drain, AdmissionStep, reports, Admission!BeginDraining, Admission!Close
  <2> QED BY <2>1, DrainKeeps
<1>3. ASSUME NEW s \in Sessions, Run(s) \/ Receive(s) \/ StopReading(s)
      PROVE  IInv'
  BY <1>3, AdmitKeeps, RefusedKeeps, SubscribeKeeps, UpgradeKeeps, StartWarmupKeeps,
     WarmedKeeps, ClassifyKeeps, CloseBeforeOpenKeeps, OpenKeeps, SeeShutdownKeeps,
     TakeConfigKeeps, SendConfigKeeps, ReceiveKeeps, PushedKeeps, SendStepKeeps,
     RefuseTooBigKeeps, FinishedKeeps, SendFinalKeeps, FlushedKeeps, SendEndKeeps,
     SendCloseKeeps, SendErrorKeeps, SendErrorCloseKeeps, LeaveKeeps, StopReadingKeeps
     DEF Run
<1> QED BY <1>1, <1>2, <1>3 DEF Next

THEOREM WsSessionInvariant == Spec => []IInv
BY InitEstablishes, StepKeeps, PTL DEF Spec

\* The channels being served are among the reserved permits.
LEMMA ServedAreReserved ==
    ASSUME IInv
    PROVE  Cardinality(ServedChannels) <= MaxWs
<1> DEFINE out   == AdmissionProofs!OwnedPermits("ws")
           limit == [p \in {"http", "uploads", "ws"} |-> IF p = "ws" THEN MaxWs ELSE 1]
<1>1. "ws" \in AdmissionProofs!Pools /\ limit["ws"] = MaxWs
  BY DEF AdmissionProofs!Pools
<1> HIDE DEF limit
<1>2. IsFiniteSet(out) /\ available["ws"] + Cardinality(out) = MaxWs
  <2>1. \A S : /\ AdmissionProofs!IsFiniteSet(S) <=> IsFiniteSet(S)
               /\ AdmissionProofs!Cardinality(S) = Cardinality(S)
    BY DEF AdmissionProofs!IsFiniteSet, IsFiniteSet, AdmissionProofs!Cardinality, Cardinality
  <2> QED BY <1>1, <2>1 DEF IInv, AdmissionProofs!IInv, AdmissionProofs!PermitsInv, limit
<1>3. available["ws"] \in Nat
  BY <1>1 DEF IInv, AdmissionProofs!IInv, AdmissionProofs!TypeOK
<1>4. ServedChannels \subseteq out
  <2>1. \A s \in Sessions : step[s] \notin {"admit", "ended"}
                               => s \in AdmissionProofs!Owners("ws")
    BY DEF IInv, SessionInv, ReservedInv, AdmissionProofs!Owners, AdmissionProofs!Owns
  <2> QED BY <2>1 DEF ServedChannels, AdmissionProofs!OwnedPermits
<1>5. /\ IsFiniteSet(ServedChannels) /\ Cardinality(ServedChannels) <= Cardinality(out)
      /\ Cardinality(out) \in Nat /\ Cardinality(ServedChannels) \in Nat
  BY <1>2, <1>4, FS_Subset, FS_CardinalityType
<1> QED BY <1>2, <1>3, <1>5, SessionAssumption

\* A session's channels are reserved until its last frame is sent, and no more
\* than ASR_MAX_STREAMS are ever served, for any number of sessions and any
\* channel counts (ws.rs run_socket, admission.rs admit_ws).
THEOREM ChannelsStayReservedHolds == Spec => []ChannelsStayReserved
<1>1. IInv => ChannelsStayReserved
  BY ServedAreReserved DEF IInv, SessionInv, ReservedInv, ChannelsStayReserved
<1> QED BY <1>1, WsSessionInvariant, PTL

\* An opened session is closed in the log or reported as failed, once, however
\* many of its deliveries fail (ws.rs record_primary_failure).
THEOREM SessionIsAccountedHolds == Spec => []SessionIsAccounted
<1>1. ASSUME IInv PROVE SessionIsAccounted
  <2> SUFFICES ASSUME NEW s \in Sessions
               PROVE  /\ failures[s] <= 1
                      /\ log[s].close <= log[s].open /\ log[s].open <= 1
                      /\ step[s] = "ended" /\ failures[s] = 0 => log[s].close = log[s].open
    BY DEF SessionIsAccounted
  <2>1. step[s] \in Before \cup During \cup Closing \cup Failing \cup {"leave", "ended"}
    BY <1>1 DEF IInv, SessionType, Steps, Before, During, Closing, Failing
  <2> QED BY <1>1, <2>1 DEF IInv, SessionInv, RecordInv, Before, During, Closing, Failing
<1> QED BY <1>1, WsSessionInvariant, PTL

\* Whatever fails and whenever the drain comes, a peer is sent metadata at most
\* once and first, one end or one error, at most one close and nothing after it.
THEOREM ProtocolOrderHolds == Spec => []ProtocolOrder
<1>1. IInv => ProtocolOrder
  BY DEF IInv, SessionInv, WireInv, ProtocolOrder
<1> QED BY <1>1, WsSessionInvariant, PTL

----------------------------------------------------------------------------
(* What a session does with its channels: admission's steps. *)

LEMMA StepIsAdmissionStep ==
    ASSUME [Next]_vars
    PROVE  AdmissionStep
<1>1. CASE UNCHANGED vars \/ Drain
  BY <1>1 DEF vars, Drain, AdmissionStep
<1>2. ASSUME NEW s \in Sessions, Run(s) \/ Receive(s) \/ StopReading(s)
      PROVE  AdmissionStep
  <2>1. UNCHANGED admissionVars \/ Admission!Admit(s) \/ Admission!Release(s)
    BY <1>2 DEF Run, Admit, Refused, Subscribe, Upgrade, StartWarmup, Warmed, Classify,
           CloseBeforeOpen, Open, SeeShutdown, TakeConfig, SendConfig, Pushed, SendStep,
           RefuseTooBig, Finished, SendFinal, Flushed, SendEnd, SendClose, SendError,
           SendErrorClose, Leave, Receive, StopReading
  <2> QED BY <2>1 DEF AdmissionStep
<1> QED BY <1>1, <1>2 DEF Next

\* Whatever becomes of a session, of its peer and of its deliveries, phase and
\* permits move only by admission's own protocol: all its channels are taken
\* together and given back together, once (ws.rs capture_upgrade, run_socket).
THEOREM WsSessionImplementsAdmission == Spec => Admission!Spec
<1>1. Init => Admission!Init
  BY DEF Init
<1>2. [Next]_vars => [Admission!Next]_(Admission!vars)
  <2>1. AdmissionStep => [Admission!Next]_(Admission!vars)
    BY DEF AdmissionStep, admissionVars, Admission!Next, Admission!vars, Admission!Shutdown
  <2> QED BY <2>1, StepIsAdmissionStep
<1> QED BY <1>1, <1>2, PTL DEF Spec, Admission!Spec
=============================================================================
