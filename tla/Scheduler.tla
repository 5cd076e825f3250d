-------------------------------- MODULE Scheduler --------------------------------
(***************************************************************************)
(* The recognition execution scheduler (recognition/src/scheduler.rs): one *)
(* worker thread owns the decoder and serves two queues, streaming ticks   *)
(* strictly before file windows.  Each request calls the decoder           *)
(* synchronously, one call at a time, and owns one execution control for   *)
(* all its calls; a job is therefore identified by its request.            *)
(*                                                                         *)
(* A step is one operation on shared state: an atomic of a control, one    *)
(* critical section of the queue mutex, one channel send or receive.       *)
(* Decoded data is abstracted to "ok" or "error".                          *)
(***************************************************************************)
EXTENDS ExecutionControl, Naturals, Sequences, FiniteSets

CONSTANTS Requests,   \* requests and streams that call the decoder
          Streaming,  \* those with Priority::Tick
          NoJob

ASSUME StreamingAssumption == Streaming \subseteq Requests
ASSUME NoJobAssumption == NoJob \notin Requests

VARIABLES
    control,   \* [Requests -> States]
    ticks,     \* Queue.ticks
    windows,   \* Queue.windows
    stopped,   \* Queue.stopped
    pending,   \* the AtomicU64 beside the mutex
    wpc,       \* where the worker thread is
    job,       \* the job the worker holds
    answer,    \* what it will send as Finished
    drained,   \* jobs that stop_after_panic took out of the queues
    caller,    \* [Requests -> where decode_with_detail is]
    events,    \* [Requests -> the channel of the current call]
    outcome,   \* [Requests -> what the last call returned, "none" during a call]
    handle     \* the ExecutionScheduler value: "owned", "dropping", "gone"

queues  == <<ticks, windows, stopped, pending>>
worker  == <<wpc, job, answer, drained>>
calls   == <<caller, events, outcome>>
vars    == <<control, queues, worker, calls, handle>>

\* Results the worker sends: the decoder's own, or why there is none.
Answers == {"ok", "error", "cancelled", "terminal", "panicked", "stopped"}

\* Results only the caller's side produces.
Outcomes == Answers \cup {"none", "refused", "queueWait"}

WorkerSteps == {"take", "asleep", "start", "announce", "decode", "check",
                "acknowledge", "fail", "answer", "stop", "drain", "exited"}

CallerSteps == {"idle", "submit", "await", "decoding", "expired", "settle",
                "closed"}

\* A caller whose job has been accepted and whose answer is still owed.
Waiting(r) == caller[r] \in {"await", "decoding", "expired", "settle"}
InCall(r)  == Waiting(r) \/ caller[r] = "submit"

QueuesOK == /\ ticks \in Seq(Requests) /\ windows \in Seq(Requests)
            /\ stopped \in BOOLEAN
            /\ pending \in Nat

WorkerOK == /\ wpc \in WorkerSteps
            /\ job \in Requests \cup {NoJob}
            /\ answer \in Answers \cup {"none"}
            /\ drained \in Seq(Requests)

CallsOK == /\ caller \in [Requests -> CallerSteps]
           /\ events \in [Requests -> Seq({"started"} \cup Answers)]
           /\ outcome \in [Requests -> Outcomes]

TypeOK == /\ control \in [Requests -> States]
          /\ QueuesOK /\ WorkerOK /\ CallsOK
          /\ handle \in {"owned", "dropping", "gone"}

Init ==
    /\ control = [r \in Requests |-> "Ready"]
    /\ ticks = <<>> /\ windows = <<>>
    /\ stopped = FALSE
    /\ pending = 0
    /\ wpc = "take" /\ job = NoJob /\ answer = "none" /\ drained = <<>>
    /\ caller = [r \in Requests |-> "idle"]
    /\ events = [r \in Requests |-> <<>>]
    /\ outcome = [r \in Requests |-> "none"]
    /\ handle = "owned"

----------------------------------------------------------------------------
(* The worker thread. *)

Take(r) == /\ pending' = pending - 1
           /\ job' = r
           /\ wpc' = "start"
           /\ UNCHANGED <<control, stopped, answer, drained, calls, handle>>

TakeTick == /\ wpc = "take"
            /\ ticks # <<>>
            /\ ticks' = Tail(ticks)
            /\ Take(Head(ticks))
            /\ UNCHANGED windows

TakeWindow == /\ wpc = "take"
              /\ ticks = <<>> /\ windows # <<>>
              /\ windows' = Tail(windows)
              /\ Take(Head(windows))
              /\ UNCHANGED ticks

\* Both queues empty: leave if stopped, otherwise wait on the condvar.
ExitWhenIdle == /\ wpc = "take"
                /\ ticks = <<>> /\ windows = <<>> /\ stopped
                /\ wpc' = "exited"
                /\ UNCHANGED <<control, queues, job, answer, drained, calls, handle>>

Sleep == /\ wpc = "take"
         /\ ticks = <<>> /\ windows = <<>> /\ ~stopped
         /\ wpc' = "asleep"
         /\ UNCHANGED <<control, queues, job, answer, drained, calls, handle>>

\* A condition variable may wake without a notification.
WakeSpuriously == /\ wpc = "asleep"
                  /\ wpc' = "take"
                  /\ UNCHANGED <<control, queues, job, answer, drained, calls, handle>>

Notified == IF wpc = "asleep" THEN "take" ELSE wpc

\* control.start(): a refusal is answered without decoding.
StartJob == /\ wpc = "start"
            /\ IF Refuses(control[job])
                 THEN /\ answer' = IF control[job] \in CancelWon
                                     THEN "cancelled" ELSE "terminal"
                      /\ wpc' = "acknowledge"
                      /\ UNCHANGED control
                 ELSE /\ control' = [control EXCEPT ![job] = Start(@)]
                      /\ wpc' = "announce"
                      /\ UNCHANGED answer
            /\ UNCHANGED <<queues, job, drained, calls, handle>>

Announce == /\ wpc = "announce"
            /\ events' = [events EXCEPT ![job] = Append(@, "started")]
            /\ wpc' = "decode"
            /\ UNCHANGED <<control, queues, job, answer, drained, caller, outcome, handle>>

\* The decoder returns Ok or Err, or it panics and catch_unwind catches.
Decode == /\ wpc = "decode"
          /\ \/ answer' \in {"ok", "error"} /\ wpc' = "check"
             \/ answer' = "panicked" /\ wpc' = "fail"
          /\ UNCHANGED <<control, queues, job, drained, calls, handle>>

\* Mutated form of CheckCancellation: the result is kept.
KeepLateResult == /\ wpc = "check"
                  /\ wpc' = "answer"
                  /\ UNCHANGED <<control, queues, job, answer, drained, calls, handle>>

\* cancellation_won(): a result that is late is thrown away.
CheckCancellation ==
    /\ wpc = "check"
    /\ IF control[job] \in CancelWon
         THEN answer' = "cancelled" /\ wpc' = "acknowledge"
         ELSE wpc' = "answer" /\ UNCHANGED answer
    /\ UNCHANGED <<control, queues, job, drained, calls, handle>>

AcknowledgeJob == /\ wpc = "acknowledge"
                  /\ control' = [control EXCEPT ![job] = Acknowledge(@)]
                  /\ wpc' = "answer"
                  /\ UNCHANGED <<queues, job, answer, drained, calls, handle>>

\* Mutated form of FailJob: a plain store.
FailOverCancellation == /\ wpc = "fail"
                        /\ control' = [control EXCEPT ![job] = "Failed"]
                        /\ wpc' = "answer"
                        /\ UNCHANGED <<queues, job, answer, drained, calls, handle>>

FailJob == /\ wpc = "fail"
           /\ control' = [control EXCEPT ![job] = Fail(@)]
           /\ wpc' = "answer"
           /\ UNCHANGED <<queues, job, answer, drained, calls, handle>>

\* Finished(answer); then on to the next job, to stop_after_panic, or to the
\* next drained job.
Answer == /\ wpc = "answer"
          /\ events' = [events EXCEPT ![job] = Append(@, answer)]
          /\ job' = NoJob /\ answer' = "none"
          /\ IF drained # <<>>
               THEN drained' = Tail(drained) /\ wpc' = "drain"
               ELSE /\ wpc' = IF answer = "panicked" THEN "stop" ELSE "take"
                    /\ UNCHANGED drained
          /\ UNCHANGED <<control, queues, caller, outcome, handle>>

\* Mutated form of StopAfterPanic: the queues are not drained.
StopKeepingQueues == /\ wpc = "stop"
                     /\ stopped' = TRUE
                     /\ wpc' = "exited"
                     /\ UNCHANGED <<control, ticks, windows, pending, job, answer, drained, calls, handle>>

\* stop_after_panic, under the lock.
StopAfterPanic == /\ wpc = "stop"
                  /\ stopped' = TRUE
                  /\ drained' = ticks \o windows
                  /\ ticks' = <<>> /\ windows' = <<>>
                  /\ pending' = pending - Len(drained')
                  /\ wpc' = "drain"
                  /\ UNCHANGED <<control, job, answer, calls, handle>>

\* Without the lock, for each drained job: acknowledge or fail, then answer.
Drain == /\ wpc = "drain"
         /\ IF drained = <<>>
              THEN wpc' = "exited" /\ UNCHANGED <<job, answer>>
              ELSE /\ job' = Head(drained)
                   /\ IF control[Head(drained)] \in CancelWon
                        THEN answer' = "cancelled" /\ wpc' = "acknowledge"
                        ELSE answer' = "stopped"   /\ wpc' = "fail"
         /\ UNCHANGED <<control, queues, drained, calls, handle>>

Serve == \/ TakeTick \/ TakeWindow \/ ExitWhenIdle \/ Sleep
         \/ StartJob \/ Announce \/ Decode \/ CheckCancellation
         \/ AcknowledgeJob \/ FailJob \/ Answer
         \/ StopAfterPanic \/ Drain

----------------------------------------------------------------------------
(* A caller inside decode_with_detail. *)

Return(r, result) == /\ caller' = [caller EXCEPT ![r] = "idle"]
                     /\ outcome' = [outcome EXCEPT ![r] = result]

\* control.enqueue()?
Begin(r) ==
    /\ caller[r] = "idle"
    /\ IF Refuses(control[r])
         THEN Return(r, "refused") /\ UNCHANGED control
         ELSE /\ control' = [control EXCEPT ![r] = Enqueue(@)]
              /\ caller' = [caller EXCEPT ![r] = "submit"]
              /\ outcome' = [outcome EXCEPT ![r] = "none"]
    /\ UNCHANGED <<queues, worker, events, handle>>

Push(r) == /\ IF r \in Streaming
                THEN ticks' = Append(ticks, r) /\ UNCHANGED windows
                ELSE windows' = Append(windows, r) /\ UNCHANGED ticks
           /\ events' = [events EXCEPT ![r] = <<>>]
           /\ caller' = [caller EXCEPT ![r] = "await"]

\* Mutated form of Submit: no notify_one.
SubmitWithoutNotify(r) ==
    /\ caller[r] = "submit"
    /\ IF stopped
         THEN /\ control' = [control EXCEPT ![r] = Fail(@)]
              /\ Return(r, "stopped")
              /\ UNCHANGED <<ticks, windows, pending, wpc, events>>
         ELSE /\ Push(r)
              /\ pending' = pending + 1
              /\ UNCHANGED <<control, outcome, wpc>>
    /\ UNCHANGED <<stopped, job, answer, drained, handle>>

\* Mutated form of Submit: neither the stop nor the counter is looked at.
SubmitUncounted(r) ==
    /\ caller[r] = "submit"
    /\ Push(r)
    /\ wpc' = Notified
    /\ UNCHANGED <<control, outcome, pending>>
    /\ UNCHANGED <<stopped, job, answer, drained, handle>>

\* The enqueue of the facade, one critical section: refused once stopped,
\* otherwise push, count and notify_one.
Submit(r) ==
    /\ caller[r] = "submit"
    /\ IF stopped
         THEN /\ control' = [control EXCEPT ![r] = Fail(@)]
              /\ Return(r, "stopped")
              /\ UNCHANGED <<ticks, windows, pending, wpc, events>>
         ELSE /\ Push(r)
              /\ pending' = pending + 1
              /\ wpc' = Notified
              /\ UNCHANGED <<control, outcome>>
    /\ UNCHANGED <<stopped, job, answer, drained, handle>>

\* recv_timeout and the recv after Started.
Receive(r) ==
    /\ caller[r] \in {"await", "decoding"}
    /\ events[r] # <<>>
    /\ events' = [events EXCEPT ![r] = Tail(@)]
    /\ IF Head(events[r]) = "started"
         THEN caller' = [caller EXCEPT ![r] = "decoding"] /\ UNCHANGED outcome
         ELSE Return(r, Head(events[r]))
    /\ UNCHANGED <<control, queues, worker, handle>>

\* QUEUE_WAIT_BOUND passes with nothing received.  A decoder that has already
\* started, but whose Started event is not sent yet, does not prevent it.
Expire(r) == /\ caller[r] = "await"
             /\ events[r] = <<>>
             /\ caller' = [caller EXCEPT ![r] = "expired"]
             /\ UNCHANGED <<control, queues, worker, events, outcome, handle>>

CancelExpired(r) == /\ caller[r] = "expired"
                    /\ control' = [control EXCEPT ![r] = RequestCancellation(@)]
                    /\ caller' = [caller EXCEPT ![r] = "settle"]
                    /\ UNCHANGED <<queues, worker, events, outcome, handle>>

\* Mutated form of Settle: the control is left as it is.
SettleUnacknowledged(r) ==
    /\ caller[r] = "settle"
    /\ events[r] # <<>>
    /\ events' = [events EXCEPT ![r] = Tail(@)]
    /\ IF Head(events[r]) = "started"
         THEN UNCHANGED <<caller, outcome>>
         ELSE Return(r, "queueWait")
    /\ UNCHANGED <<control, queues, worker, handle>>

\* await_terminal_after_queue_wait: whatever the worker answers is discarded.
Settle(r) ==
    /\ caller[r] = "settle"
    /\ events[r] # <<>>
    /\ events' = [events EXCEPT ![r] = Tail(@)]
    /\ IF Head(events[r]) = "started"
         THEN UNCHANGED <<caller, outcome, control>>
         ELSE /\ control' = [control EXCEPT ![r] = Acknowledge(@)]
              /\ Return(r, "queueWait")
    /\ UNCHANGED <<queues, worker, handle>>

----------------------------------------------------------------------------
(* The owner of a request, and the owner of the scheduler. *)

\* The HTTP deadline, or the request future being dropped, at any moment.  A
\* stream's control is created without_deadline and nobody cancels it.
CancelRequest(r) == /\ r \notin Streaming
                    /\ control[r] \in Active
                    /\ caller[r] # "closed"
                    /\ control' = [control EXCEPT ![r] = RequestCancellation(@)]
                    /\ UNCHANGED <<queues, worker, calls, handle>>

\* A request ends between calls.  Batch work and the warmup complete or fail
\* their control; a stream just drops its clones.
Close(r) == /\ caller[r] = "idle"
            /\ caller' = [caller EXCEPT ![r] = "closed"]
            /\ \/ r \in Streaming /\ UNCHANGED control
               \/ /\ r \notin Streaming /\ outcome[r] \in {"none", "ok"}
                  /\ control' = [control EXCEPT ![r] = Complete(@)]
               \/ /\ r \notin Streaming
                  /\ control' = [control EXCEPT ![r] = Fail(@)]
            /\ UNCHANGED <<queues, worker, events, outcome, handle>>

\* Drop: stop, notify_all, then join the thread.
DropScheduler == /\ handle = "owned"
                 /\ handle' = "dropping"
                 /\ stopped' = TRUE
                 /\ wpc' = Notified
                 /\ UNCHANGED <<control, ticks, windows, pending, job, answer, drained, calls>>

Joined == /\ handle = "dropping"
          /\ wpc = "exited"
          /\ handle' = "gone"
          /\ UNCHANGED <<control, queues, worker, calls>>

Call(r) == \/ Submit(r) \/ Receive(r) \/ CancelExpired(r) \/ Settle(r)

Next == \/ Serve \/ WakeSpuriously
        \/ \E r \in Requests : \/ Begin(r) \/ Call(r) \/ Expire(r)
                               \/ CancelRequest(r) \/ Close(r)
        \/ DropScheduler \/ Joined

Spec == Init /\ [][Next]_vars

\* The worker thread and every caller inside a call are running threads; a
\* decoder call terminates.  Nothing obliges a client to call, to cancel, to
\* close, or a queue wait to expire.
Fairness == /\ WF_vars(Serve)
            /\ \A r \in Requests : WF_vars(Call(r))
            /\ WF_vars(Joined)

FairSpec == Spec /\ Fairness

----------------------------------------------------------------------------
(* Properties. *)

\* The gauge read by the metrics endpoint counts exactly the queued jobs at
\* every unlocked moment (scheduler.rs pending).
PendingMatchesQueues == pending = Len(ticks) + Len(windows)

Finished(r) == \E i \in DOMAIN events[r] : events[r][i] # "started"

At(s, r) == {i \in DOMAIN s : s[i] = r}

\* Every place from which an answer for r can still come.  A worker that has
\* left serves no queue.
Sources(r) ==
    (IF wpc = "exited" THEN {}
     ELSE {"ticks"} \X At(ticks, r) \cup {"windows"} \X At(windows, r)
          \cup {"drained"} \X At(drained, r)
          \cup (IF job = r /\ drained = <<>> THEN {<<"worker", 0>>} ELSE {}))
    \cup (IF Waiting(r) /\ Finished(r) THEN {<<"channel", 0>>} ELSE {})

\* Every accepted call has exactly one answer coming, and nothing else has:
\* through panics, drains, drops and expired waits no call is lost, served
\* twice or left to the Disconnected arms of decode_with_detail.
AnswerOwed == \A r \in Requests :
                 Cardinality(Sources(r)) = IF Waiting(r) THEN 1 ELSE 0

\* A call that fails because its wait expired, its decode was cancelled, the
\* decoder panicked or the scheduler stopped leaves a terminal control, so
\* no later call of the request can reach the decoder.
FailureIsTerminal ==
    \A r \in Requests :
        outcome[r] \in {"cancelled", "panicked", "stopped", "queueWait"}
            => control[r] \in Terminal

\* EXEC-CANCEL-001: no queued or successor window starts to decode once its
\* request is cancelled, and a result that comes back after cancellation is
\* never sent as the answer.
CancellationWins ==
    [][/\ wpc = "start" /\ wpc' = "announce" => control[job] \notin CancelWon
       /\ wpc = "check" /\ wpc' = "answer"   => control[job] \notin CancelWon]_vars

\* No interleaving of callers, worker and canceller moves a control in a way
\* the control itself does not allow.
Lifecycle == INSTANCE ControlLifecycle WITH Controls <- Requests
ImplementsControl == Lifecycle!Spec

\* Strict priority protects streams: a tick call is always answered, however
\* many windows keep coming (doc of ExecutionScheduler).
TickCallsReturn == \A r \in Streaming : InCall(r) ~> ~InCall(r)

\* A window call is answered if the streams ever fall silent, through lost
\* wakeups, decoder panics and stops.
WindowCallsReturn ==
    (<>[] \A t \in Streaming : ~InCall(t)) =>
        \A r \in Requests \ Streaming : InCall(r) ~> ~InCall(r)

\* Dropping the scheduler joins its thread: queued jobs are served first and
\* an idle worker is woken (Drop for ExecutionScheduler).
DropReturns == handle = "dropping" ~> handle = "gone"

\* Nobody who waits for the worker waits for ever: neither its callers nor the
\* thread that drops it.
CallsReturn == TickCallsReturn /\ WindowCallsReturn /\ DropReturns

\* API.md: a call waits at most 60 seconds to start, and expiry returns 503.
\* The caller in fact stays blocked until the worker reaches its job.
ExpiredWaitReturns ==
    \A r \in Requests : caller[r] = "settle" ~> caller[r] # "settle"
=============================================================================
