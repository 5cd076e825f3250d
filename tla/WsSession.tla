-------------------------------- MODULE WsSession --------------------------------
(***************************************************************************)
(* One live-audio session, from the upgrade request to its last record     *)
(* (service/src/ws.rs), composed with Admission.  A session reserves one   *)
(* permit per source channel before the upgrade, subscribes to the         *)
(* admission phase, warms its channels on a blocking thread, and then      *)
(* serves one event at a time: a drain, its own metadata, or a frame.      *)
(*                                                                         *)
(* What recognition says is abstracted to "some messages"; the transcript  *)
(* itself belongs to the transcription crate.  A peer may stop reading,    *)
(* which blocks a send for ever, or vanish, which makes it fail.           *)
(***************************************************************************)
EXTENDS Naturals, FiniteSets, Sequences

CONSTANTS Sessions,     \* upgrade requests, one attempt each
          Channels,     \* [Sessions -> source channels]
          WithConfig,   \* the sessions that asked for applied_config
          MaxWs         \* ASR_MAX_STREAMS

ASSUME SessionAssumption == /\ MaxWs \in Nat \ {0}
                            /\ Channels \in [Sessions -> Nat \ {0}]
                            /\ WithConfig \subseteq Sessions

VARIABLES
    phase, closed, available, stage, drainer, waiter,   \* of Admission
    step,       \* [Sessions -> where the session's task is]
    seen,       \* [Sessions -> the phase its receiver last saw]
    purpose,    \* [Sessions -> why it is finishing]
    unsent,     \* [Sessions -> BOOLEAN]: applied_config is still pending
    wire,       \* [Sessions -> the kinds of frames sent to the peer, in order]
    reading,    \* [Sessions -> BOOLEAN]: the peer takes what is sent
    log,        \* [Sessions -> ws_open, ws_close and ws_error records]
    failures    \* [Sessions -> its share of asr_ws_errors_total]

admissionVars == <<phase, closed, available, stage, drainer, waiter>>
reports       == <<log, failures>>
vars == <<admissionVars, step, seen, purpose, unsent, wire, reading, reports>>

Admission == INSTANCE Admission
               WITH Tokens   <- Sessions,
                    PoolOf   <- [s \in Sessions |-> "ws"],
                    Weight   <- Channels,
                    Capacity <- [p \in {"http", "uploads", "ws"} |->
                                   IF p = "ws" THEN MaxWs ELSE 1]

Steps == {"admit", "captured", "warm", "warming", "classify", "open", "select",
          "config", "push", "deliver", "finish", "flush", "record", "end", "close",
          "beforeOpen", "tooBig", "error", "errorClose", "leave", "ended"}

Frames == {"config", "text", "end", "error", "close"}

TypeOK ==
    /\ Admission!TypeOK
    /\ step \in [Sessions -> Steps]
    /\ seen \in [Sessions -> {"none", "Running", "Draining"}]
    /\ purpose \in [Sessions -> {"none", "client", "shutdown", "peer"}]
    /\ unsent \in [Sessions -> BOOLEAN] /\ reading \in [Sessions -> BOOLEAN]
    /\ wire \in [Sessions -> Seq(Frames)]
    /\ log \in [Sessions -> [open : Nat, close : Nat, error : Nat]]
    /\ failures \in [Sessions -> Nat]

Init ==
    /\ Admission!Init
    /\ step = [s \in Sessions |-> "admit"]
    /\ seen = [s \in Sessions |-> "none"]
    /\ purpose = [s \in Sessions |-> "none"]
    /\ unsent = [s \in Sessions |-> s \in WithConfig]
    /\ wire = [s \in Sessions |-> <<>>]
    /\ reading = [s \in Sessions |-> TRUE]
    /\ log = [s \in Sessions |-> [open |-> 0, close |-> 0, error |-> 0]]
    /\ failures = [s \in Sessions |-> 0]

Goto(s, from, to) == step[s] = from /\ step' = [step EXCEPT ![s] = to]

----------------------------------------------------------------------------
(* Records and frames. *)

Opened(s)  == log' = [log EXCEPT ![s].open = @ + 1]
Closed(s)  == log' = [log EXCEPT ![s].close = @ + 1]

\* A peer-delivery problem is an access record, not a second failed session.
Diagnose(s) == log' = [log EXCEPT ![s].error = @ + 1]

\* record_primary_failure: the metric and one record.
Failed(s) == /\ failures' = [failures EXCEPT ![s] = @ + 1]
             /\ Diagnose(s)

\* What the peer has received; transcript messages in a row are one entry.
Heard(w, frame) == IF frame = "text" /\ w # <<>> /\ w[Len(w)] = "text" THEN w
                   ELSE Append(w, frame)

\* send_text or send_close succeeds only if the peer reads, ...
Sent(s, frame) == reading[s] /\ wire' = [wire EXCEPT ![s] = Heard(@, frame)]

\* ... and reports an error once the connection is gone.
Lost == UNCHANGED wire

\* At step "from" the session sends a frame; a failed delivery is recorded
\* and ends the session without another word to the peer.
Deliver(s, from, frame, to) ==
    \/ Goto(s, from, to) /\ Sent(s, frame) /\ UNCHANGED reports
    \/ Goto(s, from, "leave") /\ Lost /\ Failed(s)

----------------------------------------------------------------------------
(* From the request to the open session. *)

Admit(s) ==
    /\ step[s] = "admit"
    /\ Admission!Admit(s)
    /\ UNCHANGED <<step, seen, purpose, unsent, wire, reading, reports>>

Refused(s) ==
    /\ stage[s] \in {"overloaded", "draining"}
    /\ Goto(s, "admit", "ended")
    /\ UNCHANGED <<admissionVars, seen, purpose, unsent, wire, reading, reports>>

\* capture_upgrade: the phase is subscribed to after the admission committed,
\* so a drain in between is already seen, and changed() will not report it.
Subscribe(s) ==
    /\ stage[s] = "held"
    /\ Goto(s, "admit", "captured")
    /\ seen' = [seen EXCEPT ![s] = phase]
    /\ UNCHANGED <<admissionVars, purpose, unsent, wire, reading, reports>>

\* The upgrade completes and the callback runs, or it is dropped.
Upgrade(s) ==
    /\ \/ Goto(s, "captured", "warm")
       \/ Goto(s, "captured", "leave")
    /\ UNCHANGED <<admissionVars, seen, purpose, unsent, wire, reading, reports>>

\* A blocking thread constructs the session and warms its channels.
StartWarmup(s) ==
    /\ Goto(s, "warm", "warming")
    /\ UNCHANGED <<admissionVars, seen, purpose, unsent, wire, reading, reports>>

Warmed(s) ==
    /\ \/ Goto(s, "warming", "classify") /\ UNCHANGED reports
       \/ Goto(s, "warming", "error") /\ Failed(s)
    /\ UNCHANGED <<admissionVars, seen, purpose, unsent, wire, reading>>

\* Mutated form of Classify: the receiver alone is trusted to tell of a drain.
ClassifyActive(s) ==
    /\ Goto(s, "classify", "open")
    /\ UNCHANGED <<admissionVars, seen, purpose, unsent, wire, reading, reports>>

\* construct_then_classify: the last read of the phase before opening.
Classify(s) ==
    /\ Goto(s, "classify", IF phase = "Running" THEN "open" ELSE "beforeOpen")
    /\ UNCHANGED <<admissionVars, seen, purpose, unsent, wire, reading, reports>>

CloseBeforeOpen(s) ==
    /\ Deliver(s, "beforeOpen", "close", "leave")
    /\ UNCHANGED <<admissionVars, seen, purpose, unsent, reading>>

Open(s) ==
    /\ Goto(s, "open", "select")
    /\ Opened(s)
    /\ UNCHANGED <<admissionVars, seen, purpose, unsent, wire, reading, failures>>

----------------------------------------------------------------------------
(* run_active: the biased select. *)

\* phase_rx.changed() is ready.
Changed(s) == seen[s] # phase

Begin(s, why) == purpose' = [purpose EXCEPT ![s] = why]

\* The drain is told.  (An Err would say that the phase's sender is gone, which
\* lives as long as the service's state that every session shares.)
SeeShutdown(s) ==
    /\ Changed(s)
    /\ Goto(s, "select", "finish")
    /\ seen' = [seen EXCEPT ![s] = phase]
    /\ Begin(s, "shutdown")
    /\ UNCHANGED <<admissionVars, unsent, wire, reading, reports>>

TakeConfig(s) ==
    /\ ~Changed(s) /\ unsent[s]
    /\ Goto(s, "select", "config")
    /\ unsent' = [unsent EXCEPT ![s] = FALSE]
    /\ UNCHANGED <<admissionVars, seen, purpose, wire, reading, reports>>

SendConfig(s) ==
    /\ Deliver(s, "config", "config", "select")
    /\ UNCHANGED <<admissionVars, seen, purpose, unsent, reading>>

\* What receive() may return: audio, end, a close or the end of the stream,
\* a bad control, a frame that is too big, or a transport error.  Ping and
\* pong change nothing.
Frame(s) ==
    \/ Goto(s, "select", "push") /\ UNCHANGED <<purpose, reports>>
    \/ Goto(s, "select", "finish") /\ Begin(s, "client") /\ UNCHANGED reports
    \/ Goto(s, "select", "finish") /\ Begin(s, "peer") /\ UNCHANGED reports
    \/ Goto(s, "select", "error") /\ Failed(s) /\ UNCHANGED purpose
    \/ Goto(s, "select", "tooBig") /\ UNCHANGED <<purpose, reports>>
    \/ Goto(s, "select", "leave") /\ Failed(s) /\ UNCHANGED purpose

\* Mutated form of Receive: the select is not biased.
ReceiveUnbiased(s) ==
    /\ Frame(s)
    /\ UNCHANGED <<admissionVars, seen, unsent, wire, reading>>

Receive(s) ==
    /\ ~Changed(s) /\ ~unsent[s]
    /\ Frame(s)
    /\ UNCHANGED <<admissionVars, seen, unsent, wire, reading>>

\* session.push on a blocking thread returns a step, with or without
\* messages, or an error, or panics.
Pushed(s) ==
    /\ \/ Goto(s, "push", "deliver") /\ UNCHANGED reports
       \/ Goto(s, "push", "select") /\ UNCHANGED reports
       \/ Goto(s, "push", "error") /\ Failed(s)
    /\ UNCHANGED <<admissionVars, seen, purpose, unsent, wire, reading>>

\* The step's messages; nothing is looked at between two of them.
SendStep(s) ==
    /\ Deliver(s, "deliver", "text", "select")
    /\ UNCHANGED <<admissionVars, seen, purpose, unsent, reading>>

\* Mutated form of RefuseTooBig: the failure is reported to the peer as well.
RefuseTooBigTwice(s) ==
    /\ \/ Goto(s, "tooBig", "error") /\ Sent(s, "close")
       \/ Goto(s, "tooBig", "leave") /\ Lost
    /\ Failed(s)
    /\ UNCHANGED <<admissionVars, seen, purpose, unsent, reading>>

\* 1009 first, then the failure, whatever became of the close.
RefuseTooBig(s) ==
    /\ Goto(s, "tooBig", "leave")
    /\ failures' = [failures EXCEPT ![s] = @ + 1]
    /\ \/ Sent(s, "close") /\ Diagnose(s)
       \/ Lost /\ log' = [log EXCEPT ![s].error = @ + 2]
    /\ UNCHANGED <<admissionVars, seen, purpose, unsent, reading>>

----------------------------------------------------------------------------
(* The end of a session. *)

\* Mutated form of Finished: the permits go with the session's inner state.
FinishedReleased(s) ==
    /\ Goto(s, "finish", "flush")
    /\ Admission!Release(s)
    /\ UNCHANGED <<seen, purpose, unsent, wire, reading, reports>>

\* Mutated form of Finished: a peer that has left needs no record.
FinishedUnlogged(s) ==
    /\ IF purpose[s] = "peer"
         THEN Goto(s, "finish", "leave")
         ELSE Goto(s, "finish", "flush")
    /\ UNCHANGED <<admissionVars, seen, purpose, unsent, wire, reading, reports>>

\* consume_finish, on a blocking thread: flush, or fail.  A peer that has
\* closed is sent nothing; its close is recorded either way.
Finished(s) ==
    /\ \/ /\ purpose[s] = "peer" /\ Goto(s, "finish", "leave")
          /\ \/ Closed(s) /\ UNCHANGED failures
             \/ /\ log' = [log EXCEPT ![s].close = @ + 1, ![s].error = @ + 1]
                /\ failures' = [failures EXCEPT ![s] = @ + 1]
       \/ purpose[s] # "peer" /\ Goto(s, "finish", "flush") /\ UNCHANGED reports
       \/ purpose[s] # "peer" /\ Goto(s, "finish", "record") /\ UNCHANGED reports
       \/ purpose[s] # "peer" /\ Goto(s, "finish", "error") /\ Failed(s)
    /\ UNCHANGED <<admissionVars, seen, purpose, unsent, wire, reading>>

SendFinal(s) ==
    /\ Deliver(s, "flush", "text", "record")
    /\ UNCHANGED <<admissionVars, seen, purpose, unsent, reading>>

\* The close is recorded before the end event is attempted.
Flushed(s) ==
    /\ Goto(s, "record", "end")
    /\ Closed(s)
    /\ UNCHANGED <<admissionVars, seen, purpose, unsent, wire, reading, failures>>

SendEnd(s) ==
    /\ Deliver(s, "end", "end", "close")
    /\ UNCHANGED <<admissionVars, seen, purpose, unsent, reading>>

SendClose(s) ==
    /\ Deliver(s, "close", "close", "leave")
    /\ UNCHANGED <<admissionVars, seen, purpose, unsent, reading>>

\* report_session_failure with NotifyPeer: the error event, ...
SendError(s) ==
    /\ \/ Goto(s, "error", "errorClose") /\ Sent(s, "error") /\ UNCHANGED log
       \/ Goto(s, "error", "leave") /\ Lost /\ Diagnose(s)
    /\ UNCHANGED <<admissionVars, seen, purpose, unsent, reading, failures>>

\* ... then a close.
SendErrorClose(s) ==
    /\ \/ Goto(s, "errorClose", "leave") /\ Sent(s, "close") /\ UNCHANGED log
       \/ Goto(s, "errorClose", "leave") /\ Lost /\ Diagnose(s)
    /\ UNCHANGED <<admissionVars, seen, purpose, unsent, reading, failures>>

\* The task returns and drops its admission.
Leave(s) ==
    /\ Goto(s, "leave", "ended")
    /\ Admission!Release(s)
    /\ UNCHANGED <<seen, purpose, unsent, wire, reading, reports>>

----------------------------------------------------------------------------

\* The session's own task and the blocking work it awaits.
Run(s) ==
    \/ Admit(s) \/ Refused(s) \/ Subscribe(s) \/ Upgrade(s)
    \/ StartWarmup(s) \/ Warmed(s) \/ Classify(s) \/ CloseBeforeOpen(s)
    \/ Open(s) \/ SeeShutdown(s) \/ TakeConfig(s) \/ SendConfig(s)
    \/ Pushed(s) \/ SendStep(s) \/ RefuseTooBig(s)
    \/ Finished(s) \/ SendFinal(s) \/ Flushed(s) \/ SendEnd(s)
    \/ SendClose(s) \/ SendError(s) \/ SendErrorClose(s) \/ Leave(s)

\* The peer stops reading its socket, and leaves it open.
StopReading(s) ==
    /\ reading[s] /\ step[s] # "ended"
    /\ reading' = [reading EXCEPT ![s] = FALSE]
    /\ UNCHANGED <<admissionVars, step, seen, purpose, unsent, wire, reports>>

Drain == /\ Admission!BeginDraining \/ Admission!Close
         /\ UNCHANGED <<step, seen, purpose, unsent, wire, reading, reports>>

Next == \/ \E s \in Sessions : Run(s) \/ Receive(s) \/ StopReading(s)
        \/ Drain

Spec == Init /\ [][Next]_vars

\* The runtime polls the session, blocking work terminates (its calls are
\* ticks, which the scheduler always answers: TickCallsReturn), and a send to a
\* peer that reads completes.  Nothing obliges a peer to read or to speak, or a
\* signal to arrive.
Fairness == \A s \in Sessions : WF_vars(Run(s))

FairSpec == Spec /\ Fairness

----------------------------------------------------------------------------
(* Properties. *)

\* What a client may have been sent: first metadata, then transcripts, ...
Talk == {<<>>, <<"config">>, <<"text">>, <<"config", "text">>}
Ending(w) == Append(w, "end")
Erring(w) == Append(w, "error")

\* ... then an end or an error, then a close, or the close alone.
Conversations ==
    UNION {{w, Ending(w), Erring(w)} \cup
           {Append(v, "close") : v \in {w, Ending(w), Erring(w)}} : w \in Talk}

\* Whatever fails and whenever the drain comes, a client is sent metadata at
\* most once and before any transcript, one end or one error and not both, at
\* most one close, and nothing after it (API.md, server events).
ProtocolOrder == \A s \in Sessions : wire[s] \in Conversations

\* Every session that was opened in the log is closed in it or reported as a
\* failure, no close is logged twice or without an open, and a session is
\* counted as failed at most once, however many of its deliveries fail.
SessionIsAccounted ==
    \A s \in Sessions :
        /\ failures[s] <= 1
        /\ log[s].close <= log[s].open /\ log[s].open <= 1
        /\ step[s] = "ended" /\ failures[s] = 0 => log[s].close = log[s].open

ServedChannels ==
    UNION {{s} \X (1..Channels[s]) : s \in {u \in Sessions : step[u] \notin {"admit", "ended"}}}

\* The session's channels stay reserved until its last blocking work has
\* returned and its last frame is sent, so no more than ASR_MAX_STREAMS
\* channels are ever served; an ended session reserves none.
ChannelsStayReserved ==
    /\ \A s \in Sessions :
          /\ step[s] \notin {"admit", "ended"} => stage[s] = "held"
          /\ step[s] = "ended" => stage[s] # "held"
    /\ Cardinality(ServedChannels) <= MaxWs

\* No session sleeps through a drain: wherever it comes in the session's
\* life, the session ends, unless its peer stops taking frames.
DrainEndsSession ==
    \A s \in Sessions :
        phase = "Draining" ~> step[s] = "ended" \/ ~reading[s]
=============================================================================
