---------------------------- MODULE Scheduler_proofs ----------------------------
(***************************************************************************)
(* The scheduler, for any set of requests.  The argument has four layers:  *)
(* the types, together with the gauge and the job the worker holds; every  *)
(* step as an operation of one control, and what the abstract control      *)
(* promises; what a failed call leaves in its control; and where the one   *)
(* answer of a waiting call comes from.  The last part is about what the   *)
(* scheduler takes for granted: that the operations of a control, which    *)
(* are loops, are atomic.                                                  *)
(***************************************************************************)
EXTENDS Scheduler, ControlCas, FiniteSetTheorems, TLAPS

Holding == {"start", "announce", "decode", "check", "acknowledge", "fail", "answer"}

\* Between taking a job and answering it the worker holds one, and what it
\* sends as Finished is one of the worker's answers.
WorkerHasJob == /\ wpc \in Holding => job \in Requests
                /\ wpc \in {"check", "acknowledge", "fail", "answer"} => answer \in Answers

ControlOK == control \in [Requests -> States]
HandleOK  == handle \in {"owned", "dropping", "gone"}
QueuesInv == QueuesOK /\ PendingMatchesQueues
WorkerInv == WorkerOK /\ WorkerHasJob

TypeInv == ControlOK /\ QueuesInv /\ WorkerInv /\ CallsOK /\ HandleOK

----------------------------------------------------------------------------
(* Operators. *)

LEMMA OperationsAreTyped ==
    \A s \in States : /\ RequestCancellation(s) \in States
                      /\ Acknowledge(s) \in States
                      /\ Complete(s) \in States
                      /\ Fail(s) \in States
                      /\ Enqueue(s) \in States
                      /\ Start(s) \in States
BY DEF States, Active, RequestCancellation, Acknowledge, Complete, Fail, Enqueue, Start

LEMMA NonEmptySplits ==
    ASSUME NEW S, NEW s \in Seq(S), s # <<>>
    PROVE  /\ Head(s) \in S
           /\ Tail(s) \in Seq(S)
           /\ Len(s) \in Nat \ {0}
           /\ Len(Tail(s)) = Len(s) - 1
OBVIOUS

LEMMA EmptyIsSequence == ASSUME NEW S PROVE <<>> \in Seq(S)
OBVIOUS

LEMMA AppendGrows ==
    ASSUME NEW S, NEW s \in Seq(S), NEW e \in S
    PROVE  /\ Append(s, e) \in Seq(S)
           /\ Len(Append(s, e)) = Len(s) + 1
OBVIOUS

\* The parts an action leaves alone.
LEMMA Unchanged ==
    ASSUME TypeInv
    PROVE  /\ UNCHANGED control => ControlOK'
           /\ UNCHANGED queues => QueuesInv'
           /\ UNCHANGED worker => WorkerInv'
           /\ UNCHANGED calls => CallsOK'
           /\ UNCHANGED handle => HandleOK'
<1>1. UNCHANGED queues => QueuesInv'
  BY DEF TypeInv, QueuesInv, QueuesOK, PendingMatchesQueues, queues
<1>2. UNCHANGED worker => WorkerInv'
  BY DEF TypeInv, WorkerInv, WorkerOK, WorkerHasJob, worker
<1>3. UNCHANGED calls => CallsOK'
  BY DEF TypeInv, CallsOK, calls
<1> QED BY <1>1, <1>2, <1>3 DEF TypeInv, ControlOK, HandleOK

----------------------------------------------------------------------------
(* Types, the gauge, the job of the worker. *)

LEMMA TypeInit == Init => TypeInv
<1> SUFFICES ASSUME Init PROVE TypeInv
  OBVIOUS
<1>1. ControlOK /\ HandleOK
  BY DEF Init, ControlOK, HandleOK, States
<1>2. QueuesInv
  <2>1. ticks = <<>> /\ windows = <<>> /\ pending = 0 /\ stopped = FALSE
    BY DEF Init
  <2>2. QueuesOK
    BY <2>1, EmptyIsSequence DEF QueuesOK
  <2>3. PendingMatchesQueues
    BY <2>1 DEF PendingMatchesQueues
  <2> QED BY <2>2, <2>3 DEF QueuesInv
<1>3. WorkerInv
  BY DEF Init, WorkerInv, WorkerOK, WorkerHasJob, WorkerSteps, Holding
<1>4. CallsOK
  BY DEF Init, CallsOK, CallerSteps, Outcomes
<1> QED BY <1>1, <1>2, <1>3, <1>4 DEF TypeInv

LEMMA TypeTake ==
    ASSUME TypeInv, TakeTick \/ TakeWindow
    PROVE  TypeInv'
<1>1. CASE TakeTick
  <2>1. Head(ticks) \in Requests /\ Tail(ticks) \in Seq(Requests)
        /\ Len(Tail(ticks)) = Len(ticks) - 1 /\ Len(ticks) \in Nat \ {0}
    BY <1>1, NonEmptySplits DEF TakeTick, TypeInv, QueuesInv, QueuesOK
  <2>2. QueuesInv'
    BY <1>1, <2>1 DEF TakeTick, Take, TypeInv, QueuesInv, QueuesOK, PendingMatchesQueues
  <2>3. WorkerInv'
    BY <1>1, <2>1 DEF TakeTick, Take, TypeInv, WorkerInv, WorkerOK, WorkerHasJob,
                      WorkerSteps
  <2> QED BY <1>1, <2>2, <2>3, Unchanged DEF TakeTick, Take, TypeInv
<1>2. CASE TakeWindow
  <2>1. Head(windows) \in Requests /\ Tail(windows) \in Seq(Requests)
        /\ Len(Tail(windows)) = Len(windows) - 1 /\ Len(windows) \in Nat \ {0}
    BY <1>2, NonEmptySplits DEF TakeWindow, TypeInv, QueuesInv, QueuesOK
  <2>2. QueuesInv'
    BY <1>2, <2>1 DEF TakeWindow, Take, TypeInv, QueuesInv, QueuesOK, PendingMatchesQueues
  <2>3. WorkerInv'
    BY <1>2, <2>1 DEF TakeWindow, Take, TypeInv, WorkerInv, WorkerOK, WorkerHasJob,
                      WorkerSteps
  <2> QED BY <1>2, <2>2, <2>3, Unchanged DEF TakeWindow, Take, TypeInv
<1> QED BY <1>1, <1>2

LEMMA TypeIdle ==
    ASSUME TypeInv, ExitWhenIdle \/ Sleep \/ WakeSpuriously
    PROVE  TypeInv'
<1>1. WorkerInv'
  BY DEF TypeInv, WorkerInv, WorkerOK, WorkerHasJob, ExitWhenIdle, Sleep,
         WakeSpuriously, WorkerSteps, Holding
<1> QED BY <1>1, Unchanged DEF TypeInv, ExitWhenIdle, Sleep, WakeSpuriously

LEMMA TypeRun ==
    ASSUME TypeInv,
           StartJob \/ Decode \/ CheckCancellation \/ AcknowledgeJob \/ FailJob
    PROVE  TypeInv'
<1>1. ControlOK'
  BY OperationsAreTyped
     DEF TypeInv, ControlOK, WorkerInv, WorkerHasJob, Holding,
         StartJob, Decode, CheckCancellation, AcknowledgeJob, FailJob
<1>2. WorkerInv'
  BY DEF TypeInv, WorkerInv, WorkerOK, WorkerHasJob, Holding, WorkerSteps, Answers,
         StartJob, Decode, CheckCancellation, AcknowledgeJob, FailJob
<1> QED BY <1>1, <1>2, Unchanged
        DEF TypeInv, StartJob, Decode, CheckCancellation, AcknowledgeJob, FailJob

LEMMA TypeSend ==
    ASSUME TypeInv, Announce \/ Answer
    PROVE  TypeInv'
<1>1. PICK e \in {"started"} \cup Answers :
         job \in Requests /\ events' = [events EXCEPT ![job] = Append(@, e)]
  BY DEF Announce, Answer, TypeInv, WorkerInv, WorkerHasJob, Holding
<1>2. CallsOK'
  <2>1. Append(events[job], e) \in Seq({"started"} \cup Answers)
    BY <1>1, AppendGrows DEF TypeInv, CallsOK
  <2> QED BY <1>1, <2>1 DEF TypeInv, CallsOK, Announce, Answer
<1>3. WorkerInv'
  <2>1. drained' \in Seq(Requests)
    BY NonEmptySplits DEF Announce, Answer, TypeInv, WorkerInv, WorkerOK
  <2> QED BY <2>1 DEF Announce, Answer, TypeInv, WorkerInv, WorkerOK, WorkerHasJob,
                      Holding, WorkerSteps
<1> QED BY <1>2, <1>3, Unchanged DEF TypeInv, Announce, Answer

LEMMA TypeStop ==
    ASSUME TypeInv, StopAfterPanic \/ Drain
    PROVE  TypeInv'
<1>1. CASE StopAfterPanic
  <2>1. ticks \o windows \in Seq(Requests)
        /\ Len(ticks \o windows) = Len(ticks) + Len(windows)
    BY DEF TypeInv, QueuesInv, QueuesOK
  <2>2. QueuesInv'
    BY <1>1, <2>1 DEF StopAfterPanic, TypeInv, QueuesInv, QueuesOK, PendingMatchesQueues
  <2>3. WorkerInv'
    BY <1>1, <2>1 DEF StopAfterPanic, TypeInv, WorkerInv, WorkerOK, WorkerHasJob,
                      Holding, WorkerSteps
  <2> QED BY <1>1, <2>2, <2>3, Unchanged DEF StopAfterPanic, TypeInv
<1>2. CASE Drain
  <2>1. drained # <<>> => Head(drained) \in Requests
    BY NonEmptySplits DEF TypeInv, WorkerInv, WorkerOK
  <2>2. WorkerInv'
    BY <1>2, <2>1 DEF Drain, TypeInv, WorkerInv, WorkerOK, WorkerHasJob,
                      Holding, WorkerSteps, Answers
  <2> QED BY <1>2, <2>2, Unchanged DEF Drain, TypeInv
<1> QED BY <1>1, <1>2

LEMMA TypeCall ==
    ASSUME TypeInv, NEW r \in Requests, Begin(r) \/ Call(r) \/ Expire(r)
    PROVE  TypeInv'
<1>1. CASE Begin(r)
  <2>1. ControlOK'
    BY <1>1, OperationsAreTyped DEF Begin, TypeInv, ControlOK
  <2>2. CallsOK'
    BY <1>1 DEF Begin, Return, TypeInv, CallsOK, CallerSteps, Outcomes
  <2> QED BY <1>1, <2>1, <2>2, Unchanged DEF Begin, TypeInv
<1>2. CASE Submit(r)
  <2>1. ControlOK'
    BY <1>2, OperationsAreTyped DEF Submit, TypeInv, ControlOK
  <2>2. CallsOK'
    <3>1. CASE stopped
      BY <1>2, <3>1 DEF Submit, Return, TypeInv, CallsOK, CallerSteps, Outcomes, Answers
    <3>2. CASE ~stopped
      BY <1>2, <3>2, EmptyIsSequence, ZenonT(60) DEF Submit, Push, TypeInv, CallsOK, CallerSteps
    <3> QED BY <3>1, <3>2
  <2>3. QueuesInv'
    <3>1. /\ Append(ticks, r) \in Seq(Requests) /\ Len(Append(ticks, r)) = Len(ticks) + 1
          /\ Append(windows, r) \in Seq(Requests) /\ Len(Append(windows, r)) = Len(windows) + 1
          /\ Len(ticks) \in Nat /\ Len(windows) \in Nat
      BY AppendGrows DEF TypeInv, QueuesInv, QueuesOK
    <3>2. CASE stopped
      BY <1>2, <3>2 DEF Submit, TypeInv, QueuesInv, QueuesOK, PendingMatchesQueues
    <3>3. CASE ~stopped
      <4>1. /\ pending' = pending + 1 /\ stopped' = stopped
            /\ \/ ticks' = Append(ticks, r) /\ windows' = windows
               \/ windows' = Append(windows, r) /\ ticks' = ticks
        BY <1>2, <3>3 DEF Submit, Push
      <4>2. QueuesOK'
        <5>1. /\ ticks \in Seq(Requests) /\ windows \in Seq(Requests)
              /\ stopped \in BOOLEAN /\ pending \in Nat
          BY DEF TypeInv, QueuesInv, QueuesOK
        <5>2. ticks' \in Seq(Requests) /\ windows' \in Seq(Requests)
          BY <3>1, <4>1, <5>1
        <5> QED BY <4>1, <5>1, <5>2 DEF QueuesOK
      <4>3. Len(ticks') + Len(windows') = Len(ticks) + Len(windows) + 1
        BY <3>1, <4>1, SMTT(30)
      <4> QED BY <4>1, <4>2, <4>3 DEF TypeInv, QueuesInv, PendingMatchesQueues
    <3> QED BY <3>2, <3>3
  <2>4. WorkerInv'
    BY <1>2 DEF Submit, Notified, TypeInv, WorkerInv, WorkerOK, WorkerHasJob,
                WorkerSteps, Holding
  <2> QED BY <1>2, <2>1, <2>2, <2>3, <2>4, Unchanged DEF Submit, TypeInv
<1>3. CASE Receive(r) \/ Settle(r)
  <2>1. Head(events[r]) \in {"started"} \cup Answers
        /\ Tail(events[r]) \in Seq({"started"} \cup Answers)
    BY <1>3, NonEmptySplits DEF Receive, Settle, TypeInv, CallsOK
  <2>2. ControlOK'
    BY <1>3, OperationsAreTyped DEF Receive, Settle, TypeInv, ControlOK
  <2>3. CallsOK'
    BY <1>3, <2>1 DEF Receive, Settle, Return, TypeInv, CallsOK, CallerSteps, Outcomes
  <2> QED BY <1>3, <2>2, <2>3, Unchanged DEF Receive, Settle, TypeInv
<1>4. CASE Expire(r) \/ CancelExpired(r)
  <2>1. ControlOK'
    BY <1>4, OperationsAreTyped DEF Expire, CancelExpired, TypeInv, ControlOK
  <2>2. CallsOK'
    BY <1>4 DEF Expire, CancelExpired, TypeInv, CallsOK, CallerSteps
  <2> QED BY <1>4, <2>1, <2>2, Unchanged DEF Expire, CancelExpired, TypeInv
<1> QED BY <1>1, <1>2, <1>3, <1>4 DEF Call

LEMMA TypeOwners ==
    ASSUME TypeInv,
           \/ \E r \in Requests : CancelRequest(r) \/ Close(r)
           \/ DropScheduler \/ Joined
    PROVE  TypeInv'
<1>1. ASSUME NEW r \in Requests, CancelRequest(r) \/ Close(r)
      PROVE  TypeInv'
  <2>1. ControlOK'
    BY <1>1, OperationsAreTyped DEF CancelRequest, Close, TypeInv, ControlOK
  <2>2. CallsOK'
    BY <1>1 DEF CancelRequest, Close, TypeInv, CallsOK, CallerSteps, calls
  <2> QED BY <1>1, <2>1, <2>2, Unchanged DEF CancelRequest, Close, TypeInv
<1>2. CASE DropScheduler
  <2>1. QueuesInv' /\ HandleOK'
    BY <1>2 DEF DropScheduler, TypeInv, QueuesInv, QueuesOK, PendingMatchesQueues, HandleOK
  <2>2. WorkerInv'
    BY <1>2 DEF DropScheduler, Notified, TypeInv, WorkerInv, WorkerOK, WorkerHasJob,
                WorkerSteps, Holding
  <2> QED BY <1>2, <2>1, <2>2, Unchanged DEF DropScheduler, TypeInv
<1>3. CASE Joined
  BY <1>3, Unchanged DEF Joined, TypeInv, HandleOK
<1> QED BY <1>1, <1>2, <1>3

LEMMA TypeInductive == Spec => []TypeInv
<1>1. TypeInv /\ [Next]_vars => TypeInv'
  <2> SUFFICES ASSUME TypeInv, [Next]_vars PROVE TypeInv'
    OBVIOUS
  <2>1. CASE UNCHANGED vars
    BY <2>1, Unchanged DEF vars, TypeInv
  <2>2. CASE Next
    BY <2>2, TypeTake, TypeIdle, TypeRun, TypeSend, TypeStop, TypeCall, TypeOwners
       DEF Next, Serve
  <2> QED BY <2>1, <2>2
<1> QED BY <1>1, TypeInit, PTL DEF Spec

LEMMA TypeInvMeans == TypeInv => TypeOK /\ PendingMatchesQueues
BY DEF TypeInv, TypeOK, ControlOK, HandleOK, QueuesInv, WorkerInv

\* Every variable of the scheduler keeps its type, the counter included.
THEOREM SchedulerTypeCorrect == Spec => []TypeOK
BY TypeInductive, TypeInvMeans, PTL

\* The gauge counts exactly the queued jobs (scheduler.rs pending), whatever
\* the number of requests.
THEOREM GaugeIsExact == Spec => []PendingMatchesQueues
BY TypeInductive, TypeInvMeans, PTL

----------------------------------------------------------------------------
(* Every step applies one operation to one control. *)

Moves(r, s) == control' = [control EXCEPT ![r] = s]

LEMMA OperationsAgree ==
    ASSUME NEW s \in States
    PROVE  /\ RequestCancellation(s) \in Lifecycle!Operations(s)
           /\ Acknowledge(s) \in Lifecycle!Operations(s)
           /\ Complete(s) \in Lifecycle!Operations(s)
           /\ Fail(s) \in Lifecycle!Operations(s)
           /\ ~Refuses(s) => /\ Enqueue(s) \in Lifecycle!Operations(s)
                             /\ Start(s) \in Lifecycle!Operations(s)
BY DEF RequestCancellation, Acknowledge, Complete, Fail, Refuses, Enqueue, Start,
       Active, Lifecycle!Operations, Lifecycle!RequestCancellation,
       Lifecycle!Acknowledge, Lifecycle!Complete, Lifecycle!Fail,
       Lifecycle!Refuses, Lifecycle!Enqueue, Lifecycle!Start, Lifecycle!Active

LEMMA ControlMoves ==
    ASSUME TypeInv, Next
    PROVE  \/ UNCHANGED control
           \/ \E r \in Requests : \E s \in Lifecycle!Operations(control[r]) : Moves(r, s)
<1>1. \A r \in Requests : control[r] \in States
  BY DEF TypeInv, ControlOK
<1>2. wpc \in Holding => job \in Requests
  BY DEF TypeInv, WorkerInv, WorkerHasJob
<1>3. CASE Serve \/ WakeSpuriously
  <2>1. UNCHANGED control \/ StartJob \/ AcknowledgeJob \/ FailJob
    BY <1>3 DEF Serve, WakeSpuriously, TakeTick, TakeWindow, Take, ExitWhenIdle, Sleep,
                Announce, Decode, CheckCancellation, Answer, StopAfterPanic, Drain
  <2>2. CASE StartJob
    BY <1>1, <1>2, <2>2, OperationsAgree DEF StartJob, Holding, Moves
  <2>3. CASE AcknowledgeJob
    BY <1>1, <1>2, <2>3, OperationsAgree DEF AcknowledgeJob, Holding, Moves
  <2>4. CASE FailJob
    BY <1>1, <1>2, <2>4, OperationsAgree DEF FailJob, Holding, Moves
  <2> QED BY <2>1, <2>2, <2>3, <2>4
<1>4. ASSUME NEW r \in Requests,
             Begin(r) \/ Call(r) \/ Expire(r) \/ CancelRequest(r) \/ Close(r)
      PROVE  \/ UNCHANGED control
             \/ \E s \in Lifecycle!Operations(control[r]) : Moves(r, s)
  <2>1. CASE Begin(r)
    BY <1>1, <2>1, OperationsAgree DEF Begin, Moves
  <2>2. CASE Call(r)
    BY <1>1, <2>2, OperationsAgree DEF Call, Submit, Receive, CancelExpired, Settle, Moves
  <2>3. CASE Expire(r)
    BY <2>3 DEF Expire
  <2>4. CASE CancelRequest(r) \/ Close(r)
    BY <1>1, <2>4, OperationsAgree DEF CancelRequest, Close, Moves
  <2> QED BY <1>4, <2>1, <2>2, <2>3, <2>4
<1>5. CASE DropScheduler \/ Joined
  BY <1>5 DEF DropScheduler, Joined
<1> QED BY <1>3, <1>4, <1>5 DEF Next

\* The scheduler and its callers move every control only as ControlLifecycle
\* allows, for any number of requests (scheduler.rs, execution.rs).
THEOREM SchedulerImplementsControl == Spec => ImplementsControl
<1>1. Init => Lifecycle!Init
  BY DEF Init, Lifecycle!Init
<1>2. TypeInv /\ [Next]_vars => [Lifecycle!Next]_control
  BY ControlMoves DEF vars, Moves, Lifecycle!Next, Lifecycle!Step
<1> QED BY <1>1, <1>2, TypeInductive, PTL DEF Spec, ImplementsControl, Lifecycle!Spec

----------------------------------------------------------------------------
(* The atomic control, for any set of controls: nothing here is about the  *)
(* scheduler until the last theorem.                                       *)

\* Every operation moves a control forward or leaves it (execution.rs).
LEMMA OperationsGoForward ==
    ASSUME NEW s \in States, NEW u \in Lifecycle!Operations(s)
    PROVE  u \in Lifecycle!States /\ Lifecycle!Forward(s, u)
BY DEF States, Lifecycle!States, Lifecycle!Operations, Lifecycle!Forward, Lifecycle!Active,
       Lifecycle!CancelWon, Lifecycle!Refuses, Lifecycle!RequestCancellation,
       Lifecycle!Acknowledge, Lifecycle!Complete, Lifecycle!Fail, Lifecycle!Enqueue,
       Lifecycle!Start

LEMMA LifecycleTyped ==
    ASSUME Lifecycle!TypeOK, [Lifecycle!Next]_control
    PROVE  Lifecycle!TypeOK'
<1> USE DEF States, Lifecycle!States
<1>1. CASE UNCHANGED control
  BY <1>1 DEF Lifecycle!TypeOK
<1>2. ASSUME NEW c \in Requests, Lifecycle!Step(c) PROVE Lifecycle!TypeOK'
  BY <1>2, OperationsGoForward DEF Lifecycle!Step, Lifecycle!TypeOK
<1> QED BY <1>1, <1>2 DEF Lifecycle!Next

\* A control always holds one of the seven declared states.
THEOREM LifecycleTypeCorrect == Lifecycle!Spec => []Lifecycle!TypeOK
<1>1. Lifecycle!Init => Lifecycle!TypeOK
  BY DEF Lifecycle!Init, Lifecycle!TypeOK, Lifecycle!States
<1> QED BY <1>1, LifecycleTyped, PTL DEF Lifecycle!Spec

\* A control only moves forward: terminal states are final, a requested
\* cancellation can only be acknowledged, a running request is never queued
\* again (execution.rs: every compare_exchange).
THEOREM LifecycleOnlyForward == Lifecycle!Spec => Lifecycle!OnlyForward
<1>1. Lifecycle!TypeOK /\ [Lifecycle!Next]_control
        => [\A c \in Requests : Lifecycle!Forward(control[c], control'[c])]_control
  <2> SUFFICES ASSUME Lifecycle!TypeOK, NEW d \in Requests, Lifecycle!Step(d),
                      NEW c \in Requests
               PROVE  Lifecycle!Forward(control[c], control'[c])
    BY DEF Lifecycle!Next
  <2>1. PICK s \in Lifecycle!Operations(control[d]) : control' = [control EXCEPT ![d] = s]
    BY DEF Lifecycle!Step
  <2>2. control \in [Requests -> States]
    BY DEF Lifecycle!TypeOK, States, Lifecycle!States
  <2>3. CASE c = d
    BY <2>1, <2>2, <2>3, OperationsGoForward
  <2>4. CASE c # d
    BY <2>1, <2>2, <2>4 DEF Lifecycle!Forward
  <2> QED BY <2>3, <2>4
<1> QED BY <1>1, LifecycleTypeCorrect, PTL DEF Lifecycle!Spec, Lifecycle!OnlyForward

\* What the abstract control promises, the scheduler keeps.
THEOREM ControlsOnlyMoveForward == Spec => Lifecycle!OnlyForward
BY SchedulerImplementsControl, LifecycleOnlyForward DEF ImplementsControl

----------------------------------------------------------------------------
\* EXEC-CANCEL-001, for any number of requests: no cancelled request starts to
\* decode, and no late result is answered (the worker loop of scheduler.rs).
THEOREM CancellationAlwaysWins == Spec => CancellationWins
<1>1. [Next]_vars =>
        [/\ wpc = "start" /\ wpc' = "announce" => control[job] \notin CancelWon
         /\ wpc = "check" /\ wpc' = "answer"   => control[job] \notin CancelWon]_vars
  <2> SUFFICES ASSUME Next
               PROVE  /\ wpc = "start" /\ wpc' = "announce" => control[job] \notin CancelWon
                      /\ wpc = "check" /\ wpc' = "answer"   => control[job] \notin CancelWon
    OBVIOUS
  <2>1. CASE StartJob \/ CheckCancellation
    BY <2>1 DEF StartJob, CheckCancellation, Refuses, Active, CancelWon
  <2>2. CASE wpc' = wpc \/ wpc \notin {"start", "check"}
    BY <2>2
  <2> QED BY <2>1, <2>2
          DEF Next, Serve, TakeTick, TakeWindow, ExitWhenIdle, Sleep, WakeSpuriously,
              Announce, Decode, AcknowledgeJob, FailJob, Answer, StopAfterPanic, Drain,
              Begin, Call, Submit, Notified, Receive, Expire, CancelExpired, Settle,
              CancelRequest, Close, DropScheduler, Joined, worker, Take
<1> QED BY <1>1, PTL DEF Spec, CancellationWins

----------------------------------------------------------------------------
(* What a failed call leaves behind. *)

Fatal == {"cancelled", "panicked", "stopped", "queueWait"}

\* The answer the worker is about to send is already true of the control.
AnswerIsTruthful ==
    /\ wpc = "check" => answer \notin Fatal
    /\ wpc = "acknowledge" => \/ answer \notin Fatal
                              \/ control[job] \in CancelWon
    /\ wpc = "answer" => \/ answer \notin Fatal
                         \/ control[job] \in Terminal

EventsAreTruthful ==
    \A r \in Requests : \A i \in DOMAIN events[r] :
        events[r][i] \in Fatal => control[r] \in Terminal

SettlingIsCancelled ==
    \A r \in Requests : caller[r] = "settle" => control[r] \notin Active

FailureInv == /\ AnswerIsTruthful /\ EventsAreTruthful
              /\ SettlingIsCancelled /\ FailureIsTerminal

LEMMA WhatOperationsKeep ==
    ASSUME NEW s \in States, NEW u \in Lifecycle!Operations(s)
    PROVE  /\ s \in Terminal => u \in Terminal
           /\ s \in CancelWon => u \in CancelWon
           /\ s \notin Active => u \notin Active
BY DEF States, Terminal, CancelWon, Active, Lifecycle!Operations,
       Lifecycle!RequestCancellation, Lifecycle!Acknowledge, Lifecycle!Complete,
       Lifecycle!Fail, Lifecycle!Refuses, Lifecycle!Enqueue, Lifecycle!Start,
       Lifecycle!Active

\* Terminal, cancelled and inactive are each final, whatever the step.
LEMMA WhatStepsKeep ==
    ASSUME TypeInv, Next, NEW r \in Requests
    PROVE  /\ control[r] \in Terminal => control'[r] \in Terminal
           /\ control[r] \in CancelWon => control'[r] \in CancelWon
           /\ control[r] \notin Active => control'[r] \notin Active
<1>1. CASE UNCHANGED control
  BY <1>1
<1>2. ASSUME NEW q \in Requests, NEW s \in Lifecycle!Operations(control[q]), Moves(q, s)
      PROVE  /\ control[r] \in Terminal => control'[r] \in Terminal
             /\ control[r] \in CancelWon => control'[r] \in CancelWon
             /\ control[r] \notin Active => control'[r] \notin Active
  BY <1>2, WhatOperationsKeep DEF Moves, TypeInv, ControlOK
<1> QED BY <1>1, <1>2, ControlMoves

LEMMA WhereOperationsEnd ==
    ASSUME NEW s \in States
    PROVE  /\ Fail(s) \in Terminal
           /\ s \notin Active => Acknowledge(s) \in Terminal
           /\ s \in CancelWon => Acknowledge(s) \in Terminal
           /\ RequestCancellation(s) \notin Active
BY DEF States, Terminal, Active, CancelWon, Fail, Acknowledge, RequestCancellation

LEMMA FailureInit == Init => FailureInv
BY DEF Init, FailureInv, AnswerIsTruthful, EventsAreTruthful, SettlingIsCancelled,
       FailureIsTerminal, Fatal

LEMMA AnswerStaysTruthful ==
    ASSUME TypeInv, FailureInv, Next
    PROVE  AnswerIsTruthful'
<1>1. wpc \in Holding => control[job] \in States /\ job \in Requests
  BY DEF TypeInv, ControlOK, WorkerInv, WorkerHasJob
<1>2. CASE /\ job' = job /\ answer' = answer
           /\ wpc' = wpc \/ wpc' = "take"
  <2>1. wpc \in {"acknowledge", "answer"} =>
          /\ control[job] \in CancelWon => control'[job] \in CancelWon
          /\ control[job] \in Terminal => control'[job] \in Terminal
    BY <1>1, WhatStepsKeep DEF Holding
  <2> QED BY <1>2, <2>1 DEF FailureInv, AnswerIsTruthful
<1>3. CASE Serve
  <2>1. CASE TakeTick \/ TakeWindow \/ ExitWhenIdle \/ Sleep \/ Announce \/ StopAfterPanic
    BY <2>1 DEF TakeTick, TakeWindow, Take, ExitWhenIdle, Sleep, Announce,
                StopAfterPanic, AnswerIsTruthful
  <2>2. CASE StartJob
    BY <2>2 DEF StartJob, AnswerIsTruthful, Fatal
  <2>3. CASE Decode
    BY <2>3 DEF Decode, AnswerIsTruthful, Fatal
  <2>4. CASE CheckCancellation
    BY <2>4 DEF CheckCancellation, AnswerIsTruthful, FailureInv
  <2>5. CASE AcknowledgeJob
    BY <1>1, <2>5, WhereOperationsEnd
       DEF AcknowledgeJob, AnswerIsTruthful, FailureInv, Holding, TypeInv, ControlOK
  <2>6. CASE FailJob
    BY <1>1, <2>6, WhereOperationsEnd
       DEF FailJob, AnswerIsTruthful, FailureInv, Holding, TypeInv, ControlOK
  <2>7. CASE Answer
    BY <2>7 DEF Answer, AnswerIsTruthful
  <2>8. CASE Drain
    BY <2>8 DEF Drain, AnswerIsTruthful
  <2> QED BY <1>3, <2>1, <2>2, <2>3, <2>4, <2>5, <2>6, <2>7, <2>8 DEF Serve
<1>4. CASE ~Serve
  BY <1>2, <1>4
     DEF Next, WakeSpuriously, Begin, Call, Submit, Notified, Receive, Expire,
         CancelExpired, Settle, CancelRequest, Close, DropScheduler, Joined, worker
<1> QED BY <1>3, <1>4

LEMMA EventsStayTruthful ==
    ASSUME TypeInv, FailureInv, Next
    PROVE  EventsAreTruthful'
<1> SUFFICES ASSUME NEW r \in Requests, NEW i \in DOMAIN events'[r],
                    events'[r][i] \in Fatal
             PROVE  control'[r] \in Terminal
  BY DEF EventsAreTruthful
<1>1. /\ events \in [Requests -> Seq({"started"} \cup Answers)]
      /\ events[r] \in Seq({"started"} \cup Answers)
  BY DEF TypeInv, CallsOK
<1>2. SUFFICES control[r] \in Terminal
  BY WhatStepsKeep
<1>3. SUFFICES \/ \E k \in DOMAIN events[r] : events'[r][i] = events[r][k]
               \/ control[r] \in Terminal
  BY DEF FailureInv, EventsAreTruthful
<1>4. CASE events'[r] = events[r]
  BY <1>4
<1>5. CASE events'[r] = Tail(events[r]) /\ events[r] # <<>>
  BY <1>1, <1>5
<1>6. CASE events'[r] = <<>>
  BY <1>6
<1>7. ASSUME NEW e \in {"started"} \cup Answers, events'[r] = Append(events[r], e),
             e \in Fatal => control[r] \in Terminal
      PROVE  \/ \E k \in DOMAIN events[r] : events'[r][i] = events[r][k]
             \/ control[r] \in Terminal
  BY <1>1, <1>7
<1>8. CASE Announce \/ Answer
  <2>1. job \in Requests /\ (wpc = "answer" => answer \in Answers)
    BY <1>8 DEF Announce, Answer, TypeInv, WorkerInv, WorkerHasJob, Holding
  <2>2. CASE r # job
    BY <1>1, <1>4, <1>8, <2>1, <2>2 DEF Announce, Answer
  <2>3. CASE r = job /\ Announce
    BY <1>1, <1>7, <2>1, <2>3 DEF Announce, Fatal
  <2>4. CASE r = job /\ Answer
    BY <1>1, <1>7, <2>1, <2>4 DEF Answer, FailureInv, AnswerIsTruthful
  <2> QED BY <1>8, <2>2, <2>3, <2>4
<1>9. CASE Serve \/ WakeSpuriously
  BY <1>4, <1>8, <1>9
     DEF Serve, WakeSpuriously, TakeTick, TakeWindow, Take, ExitWhenIdle, Sleep,
         StartJob, Decode, CheckCancellation, AcknowledgeJob, FailJob,
         StopAfterPanic, Drain, calls
<1>10. ASSUME NEW q \in Requests,
              Begin(q) \/ Call(q) \/ Expire(q) \/ CancelRequest(q) \/ Close(q)
       PROVE  \/ \E k \in DOMAIN events[r] : events'[r][i] = events[r][k]
              \/ control[r] \in Terminal
  <2>1. CASE Submit(q)
    BY <1>1, <1>4, <1>6, <2>1 DEF Submit, Push
  <2>2. CASE Receive(q) \/ Settle(q)
    BY <1>1, <1>4, <1>5, <2>2 DEF Receive, Settle
  <2>3. CASE events' = events
    BY <1>4, <2>3
  <2> QED BY <1>10, <2>1, <2>2, <2>3
          DEF Call, Begin, Expire, CancelExpired, CancelRequest, Close, calls
<1>11. CASE DropScheduler \/ Joined
  BY <1>4, <1>11 DEF DropScheduler, Joined, calls
<1> QED BY <1>9, <1>10, <1>11 DEF Next

LEMMA SettlingStaysCancelled ==
    ASSUME TypeInv, FailureInv, Next
    PROVE  SettlingIsCancelled'
<1> SUFFICES ASSUME NEW r \in Requests, caller'[r] = "settle"
             PROVE  control'[r] \notin Active
  BY DEF SettlingIsCancelled
<1>1. CASE caller[r] = "settle"
  BY <1>1, WhatStepsKeep DEF FailureInv, SettlingIsCancelled
<1>2. CASE caller[r] # "settle"
  <2>1. CancelExpired(r)
    BY <1>2
       DEF TypeInv, CallsOK, Next, Serve, WakeSpuriously, TakeTick, TakeWindow, Take,
           ExitWhenIdle, Sleep, StartJob, Announce, Decode, CheckCancellation,
           AcknowledgeJob, FailJob, Answer, StopAfterPanic, Drain, Begin, Call, Submit,
           Push, Return, Receive, Expire, CancelExpired, Settle, CancelRequest, Close,
           DropScheduler, Joined, calls
  <2> QED BY <2>1, WhereOperationsEnd DEF CancelExpired, TypeInv, ControlOK
<1> QED BY <1>1, <1>2

LEMMA FailureStaysTerminal ==
    ASSUME TypeInv, FailureInv, Next
    PROVE  FailureIsTerminal'
<1> SUFFICES ASSUME NEW r \in Requests, outcome'[r] \in Fatal
             PROVE  control'[r] \in Terminal
  BY DEF FailureIsTerminal, Fatal
<1>1. outcome \in [Requests -> Outcomes] /\ control \in [Requests -> States]
  BY DEF TypeInv, CallsOK, ControlOK
<1>2. CASE outcome'[r] = outcome[r]
  BY <1>2, WhatStepsKeep DEF FailureInv, FailureIsTerminal, Fatal
<1>3. CASE Submit(r)
  BY <1>1, <1>2, <1>3, WhereOperationsEnd DEF Submit, Return
<1>4. CASE Receive(r)
  <2>1. CASE Head(events[r]) = "started"
    BY <1>2, <1>4, <2>1 DEF Receive
  <2>2. CASE Head(events[r]) # "started"
    <3>1. 1 \in DOMAIN events[r] /\ outcome'[r] = events[r][1]
      BY <1>1, <1>4, <2>2 DEF Receive, Return, TypeInv, CallsOK
    <3> QED BY <3>1, WhatStepsKeep DEF FailureInv, EventsAreTruthful
  <2> QED BY <2>1, <2>2
<1>5. CASE Settle(r)
  BY <1>1, <1>2, <1>5, WhereOperationsEnd
     DEF Settle, Return, FailureInv, SettlingIsCancelled
<1>6. CASE Begin(r)
  BY <1>1, <1>6 DEF Begin, Return, Fatal
<1>7. CASE Serve \/ WakeSpuriously \/ DropScheduler \/ Joined
  BY <1>2, <1>7
     DEF Serve, WakeSpuriously, TakeTick, TakeWindow, Take, ExitWhenIdle, Sleep,
         StartJob, Announce, Decode, CheckCancellation, AcknowledgeJob, FailJob, Answer,
         StopAfterPanic, Drain, DropScheduler, Joined, calls
<1>8. ASSUME NEW q \in Requests,
             Begin(q) \/ Call(q) \/ Expire(q) \/ CancelRequest(q) \/ Close(q)
      PROVE  outcome'[r] = outcome[r] \/ (q = r /\ (Begin(r) \/ Submit(r) \/ Receive(r) \/ Settle(r)))
  BY <1>1, <1>8
     DEF Begin, Call, Submit, Return, Receive, Expire, CancelExpired, Settle,
         CancelRequest, Close, calls
<1> QED BY <1>2, <1>3, <1>4, <1>5, <1>6, <1>7, <1>8 DEF Next

\* A call that failed leaves a terminal control, for any number of requests:
\* no later call of the request reaches the decoder (scheduler.rs).
THEOREM FailureAlwaysTerminal == Spec => []FailureIsTerminal
<1>1. TypeInv /\ FailureInv /\ [Next]_vars => FailureInv'
  <2> SUFFICES ASSUME TypeInv, FailureInv, [Next]_vars PROVE FailureInv'
    OBVIOUS
  <2>1. CASE UNCHANGED vars
    BY <2>1 DEF vars, worker, calls, FailureInv, AnswerIsTruthful, EventsAreTruthful,
                SettlingIsCancelled, FailureIsTerminal
  <2>2. CASE Next
    BY <2>2, AnswerStaysTruthful, EventsStayTruthful, SettlingStaysCancelled,
       FailureStaysTerminal DEF FailureInv
  <2> QED BY <2>1, <2>2
<1>2. FailureInv => FailureIsTerminal
  BY DEF FailureInv
<1> QED BY <1>1, <1>2, FailureInit, TypeInductive, PTL DEF Spec

----------------------------------------------------------------------------
(* Where the answer of a call comes from: of the two queues, the drained    *)
(* jobs, the worker's hands and the channel, a call that waits has exactly  *)
(* one, and a caller that does not wait has none.                           *)

In(s, r)   == \E i \in DOMAIN s : s[i] = r
Once(s, r) == \A i, j \in DOMAIN s : s[i] = r /\ s[j] = r => i = j

\* A channel's messages: Finished comes at most once, and last.
Ends(s)     == \E i \in DOMAIN s : s[i] # "started"
LastOnly(s) == \A i \in DOMAIN s : s[i] # "started" => i = Len(s)

AtWorker(r) == job = r /\ drained = <<>>
Answered(r) == Waiting(r) /\ Finished(r)

OwedOnce(r) ==
    /\ Waiting(r) <=> \/ In(ticks, r) \/ In(windows, r) \/ In(drained, r)
                      \/ AtWorker(r) \/ Answered(r)
    /\ In(ticks, r) => ~(In(windows, r) \/ In(drained, r) \/ AtWorker(r) \/ Answered(r))
    /\ In(windows, r) => ~(In(drained, r) \/ AtWorker(r) \/ Answered(r))
    /\ In(drained, r) => ~(AtWorker(r) \/ Answered(r))
    /\ AtWorker(r) => ~Answered(r)
    /\ Once(ticks, r) /\ Once(windows, r) /\ Once(drained, r)

\* After a panic the worker serves the drained jobs, one at a time, and no
\* queue; a worker that has left leaves nothing behind.
DrainShape ==
    /\ wpc \in {"take", "asleep", "stop", "drain", "exited"} => job = NoJob
    /\ wpc \notin {"drain", "acknowledge", "fail", "answer"} => drained = <<>>
    /\ wpc \in {"drain", "exited"} \/ drained # <<>> =>
         stopped /\ ticks = <<>> /\ windows = <<>>
    /\ wpc \in {"acknowledge", "fail", "answer"} /\ drained # <<>> => job = Head(drained)

FinishedIsLast == \A r \in Requests : LastOnly(events[r])

OwedInv == (\A r \in Requests : OwedOnce(r)) /\ DrainShape /\ FinishedIsLast

LEMMA InEmpty == \A r : ~In(<<>>, r) /\ Once(<<>>, r)
BY DEF In, Once

LEMMA InTail ==
    ASSUME NEW S, NEW s \in Seq(S), s # <<>>, NEW r
    PROVE  /\ In(s, r) <=> Head(s) = r \/ In(Tail(s), r)
           /\ Once(s, r) => /\ Once(Tail(s), r)
                            /\ Head(s) = r => ~In(Tail(s), r)
<1>1. /\ Head(s) = s[1] /\ 1 \in DOMAIN s
      /\ \A i \in DOMAIN Tail(s) : i + 1 \in DOMAIN s /\ Tail(s)[i] = s[i + 1]
      /\ \A i \in DOMAIN s \ {1} : i - 1 \in DOMAIN Tail(s) /\ Tail(s)[i - 1] = s[i]
      /\ DOMAIN s \subseteq Nat /\ DOMAIN Tail(s) \subseteq Nat \ {0}
  OBVIOUS
<1>2. In(s, r) <=> Head(s) = r \/ In(Tail(s), r)
  <2>1. In(s, r) => Head(s) = r \/ In(Tail(s), r)
    BY <1>1 DEF In
  <2>2. Head(s) = r \/ In(Tail(s), r) => In(s, r)
    BY <1>1 DEF In
  <2> QED BY <2>1, <2>2
<1>3. ASSUME Once(s, r) PROVE Once(Tail(s), r)
  <2> SUFFICES ASSUME NEW i \in DOMAIN Tail(s), NEW j \in DOMAIN Tail(s),
                      Tail(s)[i] = r, Tail(s)[j] = r
               PROVE  i = j
    BY DEF Once
  <2>1. i + 1 = j + 1
    BY <1>1, <1>3 DEF Once
  <2> QED BY <1>1, <2>1
<1>4. ASSUME Once(s, r), Head(s) = r, In(Tail(s), r) PROVE FALSE
  <2>1. PICK i \in DOMAIN Tail(s) : Tail(s)[i] = r
    BY <1>4 DEF In
  <2>2. i + 1 = 1
    BY <1>1, <1>4, <2>1 DEF Once
  <2> QED BY <1>1, <2>2
<1> QED BY <1>2, <1>3, <1>4

LEMMA InAppend ==
    ASSUME NEW S, NEW s \in Seq(S), NEW e, NEW r
    PROVE  /\ In(Append(s, e), r) <=> In(s, r) \/ e = r
           /\ Once(s, r) /\ (e = r => ~In(s, r)) => Once(Append(s, e), r)
<1>1. /\ \A i \in DOMAIN s : i \in DOMAIN Append(s, e) /\ Append(s, e)[i] = s[i]
      /\ DOMAIN Append(s, e) = DOMAIN s \cup {Len(s) + 1}
      /\ Append(s, e)[Len(s) + 1] = e
  OBVIOUS
<1> QED BY <1>1 DEF In, Once

LEMMA InBoth ==
    ASSUME NEW S, NEW s \in Seq(S), NEW t \in Seq(S), NEW r
    PROVE  /\ In(s \o t, r) <=> In(s, r) \/ In(t, r)
           /\ Once(s, r) /\ Once(t, r) /\ ~(In(s, r) /\ In(t, r)) => Once(s \o t, r)
<1> DEFINE both == s \o t
<1>1. /\ \A i \in DOMAIN s : i \in DOMAIN both /\ both[i] = s[i]
      /\ \A i \in DOMAIN t : Len(s) + i \in DOMAIN both /\ both[Len(s) + i] = t[i]
      /\ \A i \in DOMAIN both : \/ i \in DOMAIN s /\ both[i] = s[i]
                                \/ i - Len(s) \in DOMAIN t /\ both[i] = t[i - Len(s)]
      /\ DOMAIN both \subseteq Nat /\ Len(s) \in Nat
  OBVIOUS
<1> HIDE DEF both
<1>2. In(both, r) <=> In(s, r) \/ In(t, r)
  BY <1>1 DEF In
<1>3. ASSUME Once(s, r), Once(t, r), ~(In(s, r) /\ In(t, r)) PROVE Once(both, r)
  <2> SUFFICES ASSUME NEW i \in DOMAIN both, NEW j \in DOMAIN both,
                      both[i] = r, both[j] = r
               PROVE  i = j
    BY DEF Once
  <2>1. CASE In(s, r)
    BY <1>1, <1>3, <2>1 DEF In, Once
  <2>2. CASE ~In(s, r)
    <3>1. i - Len(s) = j - Len(s)
      BY <1>1, <1>3, <2>2 DEF In, Once
    <3> QED BY <1>1, <3>1
  <2> QED BY <2>1, <2>2
<1> QED BY <1>2, <1>3 DEF both

LEMMA EndsTail ==
    ASSUME NEW S, NEW s \in Seq(S), s # <<>>, LastOnly(s)
    PROVE  /\ LastOnly(Tail(s))
           /\ Head(s) = "started" => (Ends(Tail(s)) <=> Ends(s))
           /\ Head(s) # "started" => Ends(s)
<1>1. /\ Head(s) = s[1] /\ 1 \in DOMAIN s /\ Len(Tail(s)) = Len(s) - 1 /\ Len(s) \in Nat
      /\ \A i \in DOMAIN Tail(s) : i + 1 \in DOMAIN s /\ Tail(s)[i] = s[i + 1]
      /\ \A i \in DOMAIN s \ {1} : i - 1 \in DOMAIN Tail(s) /\ Tail(s)[i - 1] = s[i]
      /\ DOMAIN s \subseteq Nat /\ DOMAIN Tail(s) \subseteq Nat
  OBVIOUS
<1>2. LastOnly(Tail(s))
  BY <1>1 DEF LastOnly
<1>3. ASSUME Head(s) = "started" PROVE Ends(Tail(s)) <=> Ends(s)
  <2>1. Ends(Tail(s)) => Ends(s)
    BY <1>1 DEF Ends
  <2>2. Ends(s) => Ends(Tail(s))
    BY <1>1, <1>3 DEF Ends
  <2> QED BY <2>1, <2>2
<1>4. Head(s) # "started" => Ends(s)
  BY <1>1 DEF Ends
<1> QED BY <1>2, <1>3, <1>4

LEMMA EndsAppend ==
    ASSUME NEW S, NEW s \in Seq(S), NEW e, ~Ends(s)
    PROVE  /\ LastOnly(Append(s, e))
           /\ Ends(Append(s, e)) <=> e # "started"
<1>1. /\ \A i \in DOMAIN s : Append(s, e)[i] = s[i]
      /\ DOMAIN Append(s, e) = DOMAIN s \cup {Len(s) + 1}
      /\ Append(s, e)[Len(s) + 1] = e
      /\ Len(Append(s, e)) = Len(s) + 1
  OBVIOUS
<1> QED BY <1>1 DEF Ends, LastOnly

\* A step that moves no job and no message of r owes r what was owed.
LEMMA OwedStays ==
    ASSUME NEW r \in Requests, OwedOnce(r),
           In(ticks, r)' <=> In(ticks, r), Once(ticks, r) => Once(ticks, r)',
           In(windows, r)' <=> In(windows, r), Once(windows, r) => Once(windows, r)',
           In(drained, r)' <=> In(drained, r), Once(drained, r) => Once(drained, r)',
           AtWorker(r)' <=> AtWorker(r), Waiting(r)' <=> Waiting(r),
           Finished(r)' <=> Finished(r)
    PROVE  OwedOnce(r)'
BY DEF OwedOnce, Answered

LEMMA OwedInit == Init => OwedInv
<1> SUFFICES ASSUME Init PROVE OwedInv
  OBVIOUS
<1>1. \A r \in Requests : ~Waiting(r)
  BY DEF Init, Waiting
<1>2. \A r \in Requests : ~AtWorker(r)
  BY NoJobAssumption DEF Init, AtWorker
<1>3. ticks = <<>> /\ windows = <<>> /\ drained = <<>>
  BY DEF Init
<1>4. \A r \in Requests : OwedOnce(r)
  BY <1>1, <1>2, <1>3, InEmpty DEF OwedOnce, Answered
<1>5. DrainShape /\ FinishedIsLast
  BY DEF Init, DrainShape, FinishedIsLast, LastOnly
<1> QED BY <1>4, <1>5 DEF OwedInv

LEMMA OwedTake ==
    ASSUME TypeInv, OwedInv, TakeTick \/ TakeWindow
    PROVE  OwedInv'
<1>1. /\ job = NoJob /\ drained = <<>> /\ drained' = <<>>
      /\ UNCHANGED <<caller, events, stopped>>
      /\ wpc' = "start"
  BY DEF OwedInv, DrainShape, TakeTick, TakeWindow, Take, calls
<1>2. ticks \in Seq(Requests) /\ windows \in Seq(Requests)
  BY DEF TypeInv, QueuesInv, QueuesOK
<1>3. ASSUME NEW r \in Requests PROVE OwedOnce(r)'
  <2>1. CASE TakeTick
    <3>1. /\ ticks # <<>> /\ ticks' = Tail(ticks) /\ job' = Head(ticks)
          /\ windows' = windows
      BY <2>1 DEF TakeTick, Take
    <3>2. /\ In(ticks, r) <=> Head(ticks) = r \/ In(ticks, r)'
          /\ Once(ticks, r) => /\ Once(ticks, r)'
                               /\ Head(ticks) = r => ~In(ticks, r)'
      BY <1>2, <3>1, InTail
    <3> QED BY <1>1, <3>1, <3>2, NoJobAssumption
            DEF OwedInv, OwedOnce, AtWorker, Answered, Waiting, Finished, In, Once
  <2>2. CASE TakeWindow
    <3>1. /\ windows # <<>> /\ windows' = Tail(windows) /\ job' = Head(windows)
          /\ ticks' = ticks
      BY <2>2 DEF TakeWindow, Take
    <3>2. /\ In(windows, r) <=> Head(windows) = r \/ In(windows, r)'
          /\ Once(windows, r) => /\ Once(windows, r)'
                                 /\ Head(windows) = r => ~In(windows, r)'
      BY <1>2, <3>1, InTail
    <3> QED BY <1>1, <3>1, <3>2, NoJobAssumption
            DEF OwedInv, OwedOnce, AtWorker, Answered, Waiting, Finished, In, Once
  <2> QED BY <2>1, <2>2
<1>4. DrainShape' /\ FinishedIsLast'
  BY <1>1 DEF DrainShape, OwedInv, FinishedIsLast
<1> QED BY <1>3, <1>4 DEF OwedInv

\* Deciding what the answer will be moves no job.
LEMMA OwedRun ==
    ASSUME TypeInv, OwedInv,
           \/ ExitWhenIdle \/ Sleep \/ WakeSpuriously
           \/ StartJob \/ Decode \/ CheckCancellation \/ AcknowledgeJob \/ FailJob
    PROVE  OwedInv'
<1>1. UNCHANGED <<ticks, windows, stopped, job, drained, caller, events>>
  BY DEF ExitWhenIdle, Sleep, WakeSpuriously, StartJob, Decode, CheckCancellation,
         AcknowledgeJob, FailJob, queues, calls
<1>2. DrainShape'
  BY <1>1 DEF OwedInv, DrainShape, ExitWhenIdle, Sleep, WakeSpuriously, StartJob, Decode,
              CheckCancellation, AcknowledgeJob, FailJob
<1>3. FinishedIsLast'
  BY <1>1 DEF OwedInv, FinishedIsLast
<1>4. ASSUME NEW r \in Requests PROVE OwedOnce(r)'
  BY <1>1 DEF OwedInv, OwedOnce, AtWorker, Answered, Waiting, Finished
<1> QED BY <1>2, <1>3, <1>4 DEF OwedInv

LEMMA OwedAnnounce ==
    ASSUME TypeInv, OwedInv, Announce
    PROVE  OwedInv'
<1>1. /\ job \in Requests /\ drained = <<>>
      /\ UNCHANGED <<ticks, windows, stopped, job, drained, caller>>
      /\ events' = [events EXCEPT ![job] = Append(@, "started")]
  BY DEF OwedInv, DrainShape, Announce, queues, TypeInv, WorkerInv, WorkerHasJob, Holding
<1>2. events \in [Requests -> Seq({"started"} \cup Answers)]
  BY DEF TypeInv, CallsOK
<1>3. ~Ends(events[job])
  BY <1>1 DEF OwedInv, OwedOnce, AtWorker, Answered, Finished, Ends
<1>4. /\ LastOnly(events'[job]) /\ ~Ends(events'[job])
      /\ \A r \in Requests \ {job} : events'[r] = events[r]
  BY <1>1, <1>2, <1>3, EndsAppend
<1>5. ASSUME NEW r \in Requests PROVE OwedOnce(r)'
  <2>1. Finished(r)' <=> Finished(r)
    BY <1>3, <1>4 DEF Finished, Ends
  <2> QED BY <1>1, <2>1, OwedStays DEF OwedInv, AtWorker, Waiting
<1>6. DrainShape' /\ FinishedIsLast'
  BY <1>1, <1>4 DEF OwedInv, DrainShape, FinishedIsLast, Announce
<1> QED BY <1>5, <1>6 DEF OwedInv

\* The answer moves from the worker, or from the drained jobs, to the channel.
LEMMA OwedAnswer ==
    ASSUME TypeInv, OwedInv, Answer
    PROVE  OwedInv'
<1>1. /\ job \in Requests /\ job' = NoJob /\ answer # "started"
      /\ UNCHANGED <<ticks, windows, stopped, caller>>
      /\ events' = [events EXCEPT ![job] = Append(@, answer)]
      /\ events \in [Requests -> Seq({"started"} \cup Answers)]
      /\ drained \in Seq(Requests)
  BY DEF Answer, queues, TypeInv, WorkerInv, WorkerOK, WorkerHasJob, Holding, Answers,
         CallsOK
<1>2. drained # <<>> => Head(drained) = job /\ drained' = Tail(drained)
  BY DEF Answer, OwedInv, DrainShape
<1>3. drained = <<>> => drained' = <<>>
  BY DEF Answer
<1>4. \A r \in Requests : drained # <<>> =>
        /\ In(drained, r) <=> job = r \/ In(drained, r)'
        /\ Once(drained, r) => Once(drained, r)' /\ (job = r => ~In(drained, r)')
  <2> SUFFICES ASSUME NEW r \in Requests, drained # <<>>
               PROVE  /\ In(drained, r) <=> job = r \/ In(drained, r)'
                      /\ Once(drained, r) => Once(drained, r)' /\ (job = r => ~In(drained, r)')
    OBVIOUS
  <2>1. /\ In(drained, r) <=> Head(drained) = r \/ In(Tail(drained), r)
        /\ Once(drained, r) => /\ Once(Tail(drained), r)
                               /\ Head(drained) = r => ~In(Tail(drained), r)
    BY <1>1, InTail
  <2>2. /\ In(drained, r)' <=> In(Tail(drained), r)
        /\ Once(drained, r)' <=> Once(Tail(drained), r)
    BY <1>2 DEF In, Once
  <2> QED BY <1>2, <2>1, <2>2
<1>5. Waiting(job) /\ ~Ends(events[job])
  <2>1. OwedOnce(job)
    BY <1>1 DEF OwedInv
  <2>2. AtWorker(job) \/ In(drained, job)
    BY <1>1, <1>4 DEF AtWorker
  <2> QED BY <2>1, <2>2 DEF OwedOnce, Answered, Finished, Ends
<1>6. /\ LastOnly(events'[job]) /\ Ends(events'[job])
      /\ \A r \in Requests \ {job} : events'[r] = events[r]
  BY <1>1, <1>5, EndsAppend
<1>7. ASSUME NEW r \in Requests PROVE OwedOnce(r)'
  <2>1. /\ ~AtWorker(r)'
        /\ Waiting(r)' <=> Waiting(r)
        /\ Finished(r)' <=> Finished(r) \/ r = job
    BY <1>1, <1>6, NoJobAssumption DEF AtWorker, Waiting, Finished, Ends
  <2>2. OwedOnce(r) /\ (AtWorker(r) <=> r = job /\ drained = <<>>)
    BY DEF OwedInv, AtWorker
  <2>3. CASE drained = <<>>
    BY <1>1, <1>3, <1>5, <2>1, <2>2, <2>3, InEmpty DEF OwedOnce, Answered
  <2>4. CASE drained # <<>>
    BY <1>1, <1>4, <1>5, <2>1, <2>2, <2>4 DEF OwedOnce, Answered
  <2> QED BY <2>3, <2>4
<1>8. FinishedIsLast'
  BY <1>1, <1>6 DEF OwedInv, FinishedIsLast
<1>9. DrainShape'
  BY <1>1, <1>2, <1>3 DEF Answer, OwedInv, DrainShape
<1> QED BY <1>7, <1>8, <1>9 DEF OwedInv

\* The queues become the drained jobs.
LEMMA OwedStop ==
    ASSUME TypeInv, OwedInv, StopAfterPanic
    PROVE  OwedInv'
<1>1. /\ job = NoJob /\ drained = <<>> /\ UNCHANGED <<job, caller, events>>
      /\ stopped' /\ ticks' = <<>> /\ windows' = <<>> /\ drained' = ticks \o windows
      /\ wpc' = "drain"
      /\ ticks \in Seq(Requests) /\ windows \in Seq(Requests)
  BY DEF StopAfterPanic, OwedInv, DrainShape, calls, TypeInv, QueuesInv, QueuesOK
<1>2. ASSUME NEW r \in Requests PROVE OwedOnce(r)'
  <2>1. /\ In(ticks \o windows, r) <=> In(ticks, r) \/ In(windows, r)
        /\ Once(ticks, r) /\ Once(windows, r) /\ ~(In(ticks, r) /\ In(windows, r))
             => Once(ticks \o windows, r)
    BY <1>1, InBoth
  <2>2. /\ In(drained, r)' <=> In(ticks \o windows, r)
        /\ Once(drained, r)' <=> Once(ticks \o windows, r)
        /\ ~In(ticks, r)' /\ Once(ticks, r)' /\ ~In(windows, r)' /\ Once(windows, r)'
        /\ ~In(drained, r)
    BY <1>1, InEmpty DEF In, Once
  <2>3. /\ ~AtWorker(r) /\ ~AtWorker(r)'
        /\ Waiting(r)' <=> Waiting(r)
        /\ Finished(r)' <=> Finished(r)
    BY <1>1, NoJobAssumption DEF AtWorker, Waiting, Finished
  <2> QED BY <2>1, <2>2, <2>3 DEF OwedInv, OwedOnce, Answered
<1>3. DrainShape' /\ FinishedIsLast'
  BY <1>1 DEF OwedInv, DrainShape, FinishedIsLast
<1> QED BY <1>2, <1>3 DEF OwedInv

LEMMA OwedDrain ==
    ASSUME TypeInv, OwedInv, Drain
    PROVE  OwedInv'
<1>1. /\ UNCHANGED <<ticks, windows, stopped, drained, caller, events>>
      /\ job = NoJob /\ wpc = "drain"
      /\ drained = <<>> => job' = job
  BY DEF Drain, queues, calls, OwedInv, DrainShape
<1>2. ASSUME NEW r \in Requests PROVE OwedOnce(r)'
  <2>1. AtWorker(r)' <=> AtWorker(r)
    BY <1>1, NoJobAssumption DEF AtWorker
  <2>2. /\ In(ticks, r)' <=> In(ticks, r)
        /\ Once(ticks, r)' <=> Once(ticks, r)
        /\ In(windows, r)' <=> In(windows, r)
        /\ Once(windows, r)' <=> Once(windows, r)
        /\ In(drained, r)' <=> In(drained, r)
        /\ Once(drained, r)' <=> Once(drained, r)
        /\ Waiting(r)' <=> Waiting(r)
        /\ Finished(r)' <=> Finished(r)
    BY <1>1 DEF In, Once, Waiting, Finished
  <2> QED BY <2>1, <2>2, OwedStays DEF OwedInv
<1>3. DrainShape'
  BY <1>1 DEF Drain, OwedInv, DrainShape
<1> QED BY <1>1, <1>2, <1>3 DEF OwedInv, FinishedIsLast

\* A caller's step that moves no job and no message, and after which it waits
\* if it did before.
LEMMA OwedElsewhere ==
    ASSUME OwedInv, UNCHANGED <<ticks, windows, job, drained, events>>,
           \A r \in Requests : Waiting(r)' <=> Waiting(r), DrainShape'
    PROVE  OwedInv'
<1>1. ASSUME NEW r \in Requests PROVE OwedOnce(r)'
  BY OwedStays DEF OwedInv, AtWorker, Finished, In, Once
<1>2. FinishedIsLast'
  BY DEF OwedInv, FinishedIsLast
<1> QED BY <1>1, <1>2 DEF OwedInv

LEMMA OwedCallers ==
    ASSUME TypeInv, OwedInv, NEW q \in Requests,
           Begin(q) \/ Expire(q) \/ CancelExpired(q) \/ CancelRequest(q) \/ Close(q)
    PROVE  OwedInv'
<1>1. UNCHANGED <<ticks, windows, stopped, job, drained, events, wpc>>
  BY DEF Begin, Expire, CancelExpired, CancelRequest, Close, queues, worker, calls
<1>2. caller \in [Requests -> CallerSteps]
  BY DEF TypeInv, CallsOK
<1>3. \A r \in Requests : Waiting(r)' <=> Waiting(r)
  BY <1>2 DEF Begin, Return, Expire, CancelExpired, CancelRequest, Close, calls, Waiting
<1>4. DrainShape'
  BY <1>1 DEF OwedInv, DrainShape
<1> QED BY <1>1, <1>3, <1>4, OwedElsewhere

\* The accepted call enters one queue; a refused one enters none.
LEMMA OwedSubmit ==
    ASSUME TypeInv, OwedInv, NEW q \in Requests, Submit(q)
    PROVE  OwedInv'
<1>1. /\ ~Waiting(q) /\ UNCHANGED <<stopped, job, drained>>
      /\ caller \in [Requests -> CallerSteps]
      /\ wpc' = wpc \/ (wpc = "asleep" /\ wpc' = "take")
  BY DEF Submit, Waiting, TypeInv, CallsOK, Notified
<1>2. CASE stopped
  <2>1. UNCHANGED <<ticks, windows, events, wpc>> /\ caller' = [caller EXCEPT ![q] = "idle"]
    BY <1>2 DEF Submit, Return
  <2>2. \A r \in Requests : Waiting(r)' <=> Waiting(r)
    BY <1>1, <2>1 DEF Waiting
  <2>3. DrainShape'
    BY <1>1, <2>1 DEF OwedInv, DrainShape
  <2> QED BY <1>1, <2>1, <2>2, <2>3, OwedElsewhere
<1>3. CASE ~stopped
  <2>1. Push(q)
    BY <1>3 DEF Submit
  <2>2. /\ drained = <<>> /\ wpc \notin {"drain", "exited"}
        /\ DrainShape'
    BY <1>1, <1>3 DEF OwedInv, DrainShape
  <2>3. /\ events' = [events EXCEPT ![q] = <<>>] /\ caller' = [caller EXCEPT ![q] = "await"]
        /\ events \in [Requests -> Seq({"started"} \cup Answers)]
    BY <2>1 DEF Push, TypeInv, CallsOK
  <2>4. FinishedIsLast'
    BY <2>3 DEF OwedInv, FinishedIsLast, LastOnly
  <2>5. ASSUME NEW r \in Requests PROVE OwedOnce(r)'
    <3>1. /\ In(drained, r)' <=> In(drained, r)
          /\ Once(drained, r)' <=> Once(drained, r)
          /\ AtWorker(r)' <=> AtWorker(r)
      BY <1>1 DEF In, Once, AtWorker
    <3>2. /\ r # q => /\ Waiting(r)' <=> Waiting(r)
                      /\ Finished(r)' <=> Finished(r)
          /\ Waiting(q)' /\ ~Finished(q)'
      BY <1>1, <2>3 DEF Waiting, Finished
    <3>3. /\ In(Append(ticks, q), r) <=> In(ticks, r) \/ q = r
          /\ Once(ticks, r) /\ (q = r => ~In(ticks, r)) => Once(Append(ticks, q), r)
          /\ In(Append(windows, q), r) <=> In(windows, r) \/ q = r
          /\ Once(windows, r) /\ (q = r => ~In(windows, r)) => Once(Append(windows, q), r)
      BY InAppend DEF TypeInv, QueuesInv, QueuesOK
    <3>4. CASE ticks' = Append(ticks, q) /\ windows' = windows
      <4>1. /\ In(ticks, r)' <=> In(Append(ticks, q), r)
            /\ Once(ticks, r)' <=> Once(Append(ticks, q), r)
            /\ In(windows, r)' <=> In(windows, r)
            /\ Once(windows, r)' <=> Once(windows, r)
        BY <3>4 DEF In, Once
      <4> QED BY <1>1, <3>1, <3>2, <3>3, <4>1 DEF OwedInv, OwedOnce, Answered
    <3>5. CASE windows' = Append(windows, q) /\ ticks' = ticks
      <4>1. /\ In(windows, r)' <=> In(Append(windows, q), r)
            /\ Once(windows, r)' <=> Once(Append(windows, q), r)
            /\ In(ticks, r)' <=> In(ticks, r)
            /\ Once(ticks, r)' <=> Once(ticks, r)
        BY <3>5 DEF In, Once
      <4> QED BY <1>1, <3>1, <3>2, <3>3, <4>1 DEF OwedInv, OwedOnce, Answered
    <3> QED BY <2>1, <3>4, <3>5 DEF Push
  <2> QED BY <2>2, <2>4, <2>5 DEF OwedInv
<1> QED BY <1>2, <1>3

\* Only Finished ends the wait, and nothing is left behind it.
LEMMA OwedReceive ==
    ASSUME TypeInv, OwedInv, NEW q \in Requests, Receive(q) \/ Settle(q)
    PROVE  OwedInv'
<1>1. /\ Waiting(q) /\ events[q] # <<>>
      /\ events' = [events EXCEPT ![q] = Tail(@)]
      /\ UNCHANGED <<ticks, windows, stopped, job, drained, wpc>>
      /\ events \in [Requests -> Seq({"started"} \cup Answers)]
      /\ caller \in [Requests -> CallerSteps]
  BY DEF Receive, Settle, Waiting, queues, worker, TypeInv, CallsOK
<1>2. /\ LastOnly(events'[q])
      /\ Head(events[q]) = "started" => (Ends(events'[q]) <=> Ends(events[q]))
      /\ Head(events[q]) # "started" => Ends(events[q])
      /\ \A r \in Requests \ {q} : events'[r] = events[r]
  BY <1>1, EndsTail DEF OwedInv, FinishedIsLast
<1>3. /\ Waiting(q)' <=> Head(events[q]) = "started"
      /\ \A r \in Requests \ {q} : Waiting(r)' <=> Waiting(r)
  BY <1>1 DEF Receive, Settle, Return, Waiting
<1>4. ASSUME NEW r \in Requests PROVE OwedOnce(r)'
  <2>1. /\ In(ticks, r)' <=> In(ticks, r)
        /\ Once(ticks, r)' <=> Once(ticks, r)
        /\ In(windows, r)' <=> In(windows, r)
        /\ Once(windows, r)' <=> Once(windows, r)
        /\ In(drained, r)' <=> In(drained, r)
        /\ Once(drained, r)' <=> Once(drained, r)
        /\ AtWorker(r)' <=> AtWorker(r)
    BY <1>1 DEF In, Once, AtWorker
  <2>2. /\ Finished(r) <=> Ends(events[r])
        /\ Finished(r)' <=> Ends(events'[r])
    BY DEF Finished, Ends
  <2> QED BY <1>1, <1>2, <1>3, <2>1, <2>2 DEF OwedInv, OwedOnce, Answered
<1>5. DrainShape' /\ FinishedIsLast'
  BY <1>1, <1>2 DEF OwedInv, DrainShape, FinishedIsLast
<1> QED BY <1>4, <1>5 DEF OwedInv

LEMMA OwedDrop ==
    ASSUME OwedInv, DropScheduler \/ Joined
    PROVE  OwedInv'
<1>1. /\ UNCHANGED <<ticks, windows, job, drained, events, caller>>
      /\ stopped => stopped'
      /\ wpc' = wpc \/ (wpc = "asleep" /\ wpc' = "take")
  BY DEF DropScheduler, Joined, Notified, queues, worker, calls
<1>2. DrainShape'
  BY <1>1 DEF OwedInv, DrainShape
<1> QED BY <1>1, <1>2, OwedElsewhere DEF Waiting

LEMMA OwedInductive == Spec => [](TypeInv /\ OwedInv)
<1>1. TypeInv /\ OwedInv /\ [Next]_vars => OwedInv'
  <2> SUFFICES ASSUME TypeInv, OwedInv, [Next]_vars PROVE OwedInv'
    OBVIOUS
  <2>1. CASE UNCHANGED vars
    <3>1. UNCHANGED <<ticks, windows, job, drained, events, caller, stopped, wpc>>
      BY <2>1 DEF vars, queues, worker, calls
    <3>2. DrainShape'
      BY <3>1 DEF OwedInv, DrainShape
    <3> QED BY <3>1, <3>2, OwedElsewhere DEF Waiting
  <2>2. CASE Serve \/ WakeSpuriously
    BY <2>2, OwedTake, OwedRun, OwedAnnounce, OwedAnswer, OwedStop, OwedDrain DEF Serve
  <2>3. ASSUME NEW r \in Requests,
               Begin(r) \/ Call(r) \/ Expire(r) \/ CancelRequest(r) \/ Close(r)
        PROVE  OwedInv'
    BY <2>3, OwedCallers, OwedSubmit, OwedReceive DEF Call
  <2>4. CASE DropScheduler \/ Joined
    BY <2>4, OwedDrop
  <2> QED BY <2>1, <2>2, <2>3, <2>4 DEF Next
<1> QED BY <1>1, OwedInit, TypeInductive, PTL DEF Spec

\* Where r is in a queue.
LEMMA AtIsIn ==
    ASSUME NEW s, NEW r, Once(s, r)
    PROVE  /\ ~In(s, r) => At(s, r) = {}
           /\ In(s, r) => \E i : At(s, r) = {i}
BY DEF At, In, Once

LEMMA SourceIsOne ==
    ASSUME TypeInv, OwedInv, NEW r \in Requests
    PROVE  /\ ~Waiting(r) => Sources(r) = {}
           /\ Waiting(r) => \E x : Sources(r) = {x}
<1> DEFINE working == IF AtWorker(r) THEN {<<"worker", 0>>} ELSE {}
           told    == IF Answered(r) THEN {<<"channel", 0>>} ELSE {}
           all     == {"ticks"} \X At(ticks, r) \cup {"windows"} \X At(windows, r)
                        \cup {"drained"} \X At(drained, r) \cup working \cup told
<1>1. Sources(r) = all
  <2>1. CASE wpc = "exited"
    <3>1. ticks = <<>> /\ windows = <<>> /\ drained = <<>> /\ job # r
      BY <2>1, NoJobAssumption DEF OwedInv, DrainShape
    <3>2. At(ticks, r) = {} /\ At(windows, r) = {} /\ At(drained, r) = {}
      BY <3>1, InEmpty, AtIsIn
    <3> QED BY <2>1, <3>1, <3>2 DEF Sources, AtWorker, Answered
  <2>2. CASE wpc # "exited"
    BY <2>2 DEF Sources, AtWorker, Answered
  <2> QED BY <2>1, <2>2
<1>2. OwedOnce(r)
  BY DEF OwedInv
<1>3. /\ ~In(ticks, r) => {"ticks"} \X At(ticks, r) = {}
      /\ In(ticks, r) => \E x : {"ticks"} \X At(ticks, r) = {x}
      /\ ~In(windows, r) => {"windows"} \X At(windows, r) = {}
      /\ In(windows, r) => \E x : {"windows"} \X At(windows, r) = {x}
      /\ ~In(drained, r) => {"drained"} \X At(drained, r) = {}
      /\ In(drained, r) => \E x : {"drained"} \X At(drained, r) = {x}
  <2>1. ASSUME NEW s, NEW n, Once(s, r)
        PROVE  /\ ~In(s, r) => {n} \X At(s, r) = {}
               /\ In(s, r) => \E x : {n} \X At(s, r) = {x}
    <3>1. ~In(s, r) => {n} \X At(s, r) = {}
      BY <2>1, AtIsIn
    <3>2. ASSUME In(s, r) PROVE \E x : {n} \X At(s, r) = {x}
      <4>1. PICK i : At(s, r) = {i}
        BY <2>1, <3>2, AtIsIn
      <4>2. {n} \X At(s, r) = {<<n, i>>}
        BY <4>1
      <4> QED BY <4>2
    <3> QED BY <3>1, <3>2
  <2> QED BY <1>2, <2>1 DEF OwedOnce
<1> HIDE DEF working, told
<1>4. /\ ~AtWorker(r) => working = {}
      /\ AtWorker(r) => \E x : working = {x}
      /\ ~Answered(r) => told = {}
      /\ Answered(r) => \E x : told = {x}
  BY DEF working, told
<1>5. ~Waiting(r) => all = {}
  BY <1>2, <1>3, <1>4 DEF OwedOnce
<1>6. ASSUME Waiting(r) PROVE \E x : all = {x}
  <2>1. CASE In(ticks, r)
    BY <1>2, <1>3, <1>4, <2>1 DEF OwedOnce
  <2>2. CASE In(windows, r)
    BY <1>2, <1>3, <1>4, <2>2 DEF OwedOnce
  <2>3. CASE In(drained, r)
    BY <1>2, <1>3, <1>4, <2>3 DEF OwedOnce
  <2>4. CASE AtWorker(r)
    BY <1>2, <1>3, <1>4, <2>4 DEF OwedOnce
  <2>5. CASE Answered(r)
    BY <1>2, <1>3, <1>4, <2>5 DEF OwedOnce
  <2> QED BY <1>2, <1>6, <2>1, <2>2, <2>3, <2>4, <2>5 DEF OwedOnce
<1> QED BY <1>1, <1>5, <1>6

\* No accepted call is lost, answered twice or left behind, for any number of
\* requests, through panics, drains, drops and expired waits (scheduler.rs).
THEOREM AnswerAlwaysOwed == Spec => []AnswerOwed
<1>1. ASSUME TypeInv, OwedInv PROVE AnswerOwed
  <2> SUFFICES ASSUME NEW r \in Requests
               PROVE  Cardinality(Sources(r)) = IF Waiting(r) THEN 1 ELSE 0
    BY DEF AnswerOwed
  <2>1. CASE Waiting(r)
    BY <1>1, <2>1, SourceIsOne, FS_Singleton
  <2>2. CASE ~Waiting(r)
    BY <1>1, <2>2, SourceIsOne, FS_EmptySet
  <2> QED BY <2>1, <2>2
<1> QED BY <1>1, OwedInductive, PTL

----------------------------------------------------------------------------
(* The loops of compare-and-swap behind every operation on a control, for   *)
(* any number of threads: they are atomic, as the scheduler takes them to   *)
(* be, and never report two outcomes.                                       *)

\* What a thread saw is where the control has been since.
ObservedIsPast == \A t \in Threads :
    pc[t] \in {"decide", "swap"} => Atomic!Forward(observed[t], state)

SwapIsAllowed == \A t \in Threads :
    pc[t] = "swap" => observed[t] \in SwapsFrom[op[t]]

LoopsInv == LoopTypeOK /\ ReportedIsFinal /\ ObservedIsPast /\ SwapIsAllowed

\* A successful compare_exchange is one of the atomic operations on the state
\* it found, and moves the control forward.
LEMMA SwapIsAnOperation ==
    ASSUME NEW o \in Ops, NEW s \in SwapsFrom[o]
    PROVE  /\ Target[o] \in Atomic!Operations(s)
           /\ Target[o] \in States
           /\ Atomic!Forward(s, Target[o])
<1> USE DEF Ops, SwapsFrom, Target, States, Atomic!Operations, Atomic!Forward
<1>1. CASE o = "acknowledge"
  BY <1>1 DEF Atomic!Acknowledge
<1>2. CASE o \in {"enqueue", "start"}
  BY <1>2 DEF Atomic!Enqueue, Atomic!Start, Atomic!Refuses, Atomic!Active
<1>3. CASE o \in {"request", "complete", "fail"}
  BY <1>3 DEF Active, Atomic!Active, Atomic!RequestCancellation,
              Atomic!Complete, Atomic!Fail
<1> QED BY <1>1, <1>2, <1>3

LEMMA ForwardIsTransitive ==
    ASSUME NEW s \in States, NEW u \in States, NEW v \in States,
           Atomic!Forward(s, u), Atomic!Forward(u, v)
    PROVE  Atomic!Forward(s, v)
BY DEF Atomic!Forward, States

\* A state an operation returns without swapping is final, or a requested
\* cancellation, and was seen after anything reported before.
LEMMA ReturnedIsFinal ==
    ASSUME NEW s \in States, NEW u \in States, Atomic!Forward(s, u)
    PROVE  /\ s \in Terminal => u = s
           /\ s = "CancelRequested" => u \in CancelWon
BY DEF Atomic!Forward, States, Terminal, CancelWon

LEMMA LoopsInit == LoopInit => LoopsInv
BY DEF LoopInit, LoopsInv, LoopTypeOK, ReportedIsFinal, ObservedIsPast, SwapIsAllowed,
       States, Ops, Target

LEMMA CallKeeps == ASSUME LoopsInv, NEW t \in Threads, Invoke(t) PROVE LoopsInv'
BY DEF LoopsInv, LoopTypeOK, ReportedIsFinal, ObservedIsPast, SwapIsAllowed, Invoke

LEMMA LoadKeeps == ASSUME LoopsInv, NEW t \in Threads, Load(t) PROVE LoopsInv'
BY DEF LoopsInv, LoopTypeOK, ReportedIsFinal, ObservedIsPast, SwapIsAllowed, Load,
       Atomic!Forward

LEMMA DecideKeeps == ASSUME LoopsInv, NEW t \in Threads, Decide(t) PROVE LoopsInv'
<1> USE DEF LoopsInv
<1>1. CASE observed[t] \in SwapsFrom[op[t]] /\ pc' = [pc EXCEPT ![t] = "swap"]
           /\ UNCHANGED <<op, verdicts, state, observed>>
  BY <1>1 DEF LoopTypeOK, ReportedIsFinal, ObservedIsPast, SwapIsAllowed, Decide
<1>2. CASE op' = [op EXCEPT ![t] = "acknowledge"] /\ pc' = [pc EXCEPT ![t] = "load"]
           /\ UNCHANGED <<verdicts, state, observed>>
  BY <1>2 DEF LoopTypeOK, ReportedIsFinal, ObservedIsPast, SwapIsAllowed, Ops, Target
<1>3. CASE ReturnOutcome(t, observed[t]) /\ UNCHANGED <<op, state, observed>>
  <2>1. LoopTypeOK'
    BY <1>3 DEF LoopTypeOK, ReturnOutcome
  <2>2. ReportedIsFinal'
    <3>1. Atomic!Forward(observed[t], state)
      BY DEF ObservedIsPast, Decide
    <3> QED BY <1>3, <3>1, ReturnedIsFinal DEF ReportedIsFinal, ReturnOutcome, LoopTypeOK
  <2>3. ObservedIsPast' /\ SwapIsAllowed'
    BY <1>3 DEF ObservedIsPast, SwapIsAllowed, ReturnOutcome, LoopTypeOK
  <2> QED BY <2>1, <2>2, <2>3
<1> QED BY <1>1, <1>2, <1>3 DEF Decide

LEMMA SwapKeeps == ASSUME LoopsInv, NEW t \in Threads, Swap(t) PROVE LoopsInv'
<1> USE DEF LoopsInv
<1>1. CASE /\ state = observed[t] /\ state' = Target[op[t]]
           /\ ReturnOutcome(t, Target[op[t]]) /\ UNCHANGED <<op, observed>>
  <2>1. /\ state \in SwapsFrom[op[t]] /\ op[t] \in Ops
        /\ Target[op[t]] \in States /\ Atomic!Forward(state, state')
    BY <1>1, SwapIsAnOperation DEF SwapIsAllowed, Swap, LoopTypeOK
  <2>2. LoopTypeOK'
    BY <1>1, <2>1 DEF LoopTypeOK, ReturnOutcome
  <2>3. ReportedIsFinal'
    <3>1. verdicts' \subseteq verdicts \cup {state'}
      BY <1>1 DEF ReturnOutcome
    <3>2. \A s \in verdicts \cap Terminal : state' = s
      BY <2>1, <2>2, ReturnedIsFinal DEF ReportedIsFinal, LoopTypeOK
    <3>3. "CancelRequested" \in verdicts => state' \in CancelWon
      BY <2>1, <2>2 DEF ReportedIsFinal, LoopTypeOK, CancelWon, Atomic!Forward
    <3> QED BY <3>1, <3>2, <3>3 DEF ReportedIsFinal, CancelWon
  <2>4. ObservedIsPast'
    <3> SUFFICES ASSUME NEW u \in Threads, pc[u] \in {"decide", "swap"}
                 PROVE  Atomic!Forward(observed[u], state')
      BY <1>1 DEF ObservedIsPast, ReturnOutcome, LoopTypeOK
    <3>1. Atomic!Forward(observed[u], state)
      BY DEF ObservedIsPast
    <3> QED BY <2>1, <2>2, <3>1, ForwardIsTransitive DEF LoopTypeOK
  <2>5. SwapIsAllowed'
    BY <1>1 DEF SwapIsAllowed, ReturnOutcome, LoopTypeOK
  <2> QED BY <2>2, <2>3, <2>4, <2>5
<1>2. CASE pc' = [pc EXCEPT ![t] = "load"] /\ UNCHANGED <<state, verdicts, op, observed>>
  BY <1>2 DEF LoopTypeOK, ReportedIsFinal, ObservedIsPast, SwapIsAllowed
<1> QED BY <1>1, <1>2 DEF Swap

LEMMA LoopsInductive == LoopSpec => []LoopsInv
<1>1. LoopsInv /\ [LoopNext]_loopVars => LoopsInv'
  <2> SUFFICES ASSUME LoopsInv, [LoopNext]_loopVars PROVE LoopsInv'
    OBVIOUS
  <2>1. CASE UNCHANGED loopVars
    BY <2>1 DEF loopVars, LoopsInv, LoopTypeOK, ReportedIsFinal, ObservedIsPast, SwapIsAllowed
  <2>2. ASSUME NEW t \in Threads, Invoke(t) \/ Load(t) \/ Decide(t) \/ Swap(t)
        PROVE  LoopsInv'
    BY <2>2, CallKeeps, LoadKeeps, DecideKeeps, SwapKeeps
  <2> QED BY <2>1, <2>2 DEF LoopNext
<1> QED BY <1>1, LoopsInit, PTL DEF LoopSpec

\* At most one outcome is ever reported, and a reported cancellation excludes
\* the other outcomes, for any number of owners (execution.rs).
THEOREM OneOutcomeHolds == LoopSpec => []OneOutcome
<1>1. LoopsInv => OneOutcome
  BY DEF LoopsInv, ReportedIsFinal, OneOutcome, CancelWon, Terminal
<1> QED BY <1>1, LoopsInductive, PTL

\* The loops of execution.rs implement the atomic control of ControlLifecycle.
THEOREM LoopsImplementAtomicControl == LoopSpec => ImplementsAtomicControl
<1>1. LoopInit => Atomic!Init
  BY DEF LoopInit, Atomic!Init
<1>2. LoopsInv /\ [LoopNext]_loopVars => [Atomic!Next]_([c \in {TheControl} |-> state])
  <2> SUFFICES ASSUME LoopsInv, [LoopNext]_loopVars, state' # state
               PROVE  Atomic!Next
    BY DEF Atomic!Next
  <2>1. PICK t \in Threads : Swap(t)
    BY DEF LoopNext, loopVars, Invoke, Load, Decide
  <2>2. state \in SwapsFrom[op[t]] /\ op[t] \in Ops /\ state' = Target[op[t]]
    BY <2>1 DEF Swap, LoopsInv, SwapIsAllowed, LoopTypeOK
  <2>3. state' \in Atomic!Operations(state)
    BY <2>2, SwapIsAnOperation
  <2> QED BY <2>3 DEF Atomic!Next, Atomic!Step
<1> QED BY <1>1, <1>2, LoopsInductive, PTL DEF LoopSpec, ImplementsAtomicControl, Atomic!Spec
=============================================================================
