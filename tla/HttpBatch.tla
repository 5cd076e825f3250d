-------------------------------- MODULE HttpBatch --------------------------------
(***************************************************************************)
(* One batch transcription request, from its headers to its response       *)
(* (service/src/http.rs), composed with Admission and ExecutionControl.    *)
(* Two actors serve a request: the request future, which a client can drop *)
(* at any await and which a deadline ends, and the blocking work, which    *)
(* nothing interrupts and which owns the HTTP permit and the duty to end   *)
(* the control.                                                            *)
(*                                                                         *)
(* Recognition is abstracted to its effect on the control, as the module   *)
(* Scheduler shows it: a call starts the control, or fails and leaves it   *)
(* cancelled or terminal, or the decoder itself returns an error.          *)
(***************************************************************************)
EXTENDS ExecutionControl, Naturals, FiniteSets

CONSTANTS Requests, MaxHttp, MaxUploads

ASSUME LimitAssumption == MaxHttp \in Nat \ {0} /\ MaxUploads \in Nat \ {0}

VARIABLES
    phase, closed, available, stage, drainer, waiter,   \* of Admission
    future,    \* [Requests -> where the request future is]
    reply,     \* [Requests -> what the client was answered]
    work,      \* [Requests -> where the blocking work is]
    result,    \* [Requests -> what the work will return]
    control    \* [Requests -> States]

admissionVars == <<phase, closed, available, stage, drainer, waiter>>
workVars      == <<work, result, control>>
vars          == <<admissionVars, future, reply, workVars>>

Reader(r) == <<r, "uploads">>
Permit(r) == <<r, "http">>
Tokens    == Requests \X {"uploads", "http"}

Admission == INSTANCE Admission
               WITH PoolOf   <- [t \in Tokens |-> t[2]],
                    Weight   <- [t \in Tokens |-> 1],
                    Capacity <- [p \in {"http", "uploads", "ws"} |->
                                   CASE p = "http" -> MaxHttp
                                     [] p = "uploads" -> MaxUploads
                                     [] OTHER -> 1]

FutureSteps == {"received", "upload", "body", "inner", "admit", "refused",
                "admitted", "spawn", "await", "elapsed", "dropped", "ended"}

\* "gone" answers nobody: the client has left.
Replies == {"none", "gone", "200", "400", "408", "503 overloaded",
            "503 draining", "503 worker", "504", "work error"}

\* "running" executes the closure; "owner" is about to end the control, and
\* "permit" to drop the permit; "observe" reports the terminal state.
WorkSteps == {"none", "queued", "running", "owner", "permit", "observe", "done"}

Results == {"none", "ok", "error", "panic"}

TypeOK ==
    /\ Admission!TypeOK
    /\ future \in [Requests -> FutureSteps]
    /\ reply \in [Requests -> Replies]
    /\ work \in [Requests -> WorkSteps]
    /\ result \in [Requests -> Results]
    /\ control \in [Requests -> States]

Init ==
    /\ Admission!Init
    /\ future = [r \in Requests |-> "received"]
    /\ reply = [r \in Requests |-> "none"]
    /\ work = [r \in Requests |-> "none"]
    /\ result = [r \in Requests |-> "none"]
    /\ control = [r \in Requests |-> "Ready"]

Move(r, s) == future' = [future EXCEPT ![r] = s]

\* The future returns its response.
Respond(r, s) == /\ reply' = [reply EXCEPT ![r] = s]
                 /\ Move(r, "ended")

----------------------------------------------------------------------------
(* The request future. *)

\* upload_transcribe and openai_transcribe: headers, and the query of the
\* native route, are refused before any capacity is asked for.
ParseRequest(r) ==
    /\ future[r] = "received"
    /\ \/ Respond(r, "400")
       \/ Move(r, "upload") /\ UNCHANGED reply
    /\ UNCHANGED <<admissionVars, workVars>>

AdmitUpload(r) ==
    /\ future[r] = "upload"
    /\ Admission!Admit(Reader(r))
    /\ UNCHANGED <<future, reply, workVars>>

UploadAnswered(r) ==
    /\ future[r] = "upload"
    /\ \/ stage[Reader(r)] = "held" /\ Move(r, "body") /\ UNCHANGED reply
       \/ stage[Reader(r)] = "overloaded" /\ Respond(r, "503 overloaded")
       \/ stage[Reader(r)] = "draining" /\ Respond(r, "503 draining")
    /\ UNCHANGED <<admissionVars, workVars>>

\* The whole body has arrived within upload_timeout.
ReadBody(r) ==
    /\ future[r] = "body"
    /\ Move(r, "inner")
    /\ UNCHANGED <<admissionVars, reply, workVars>>

\* The body is rejected (too large, broken) or late: the handler answers, and
\* the reader is dropped with its frame.
BodyRefused(r) ==
    /\ future[r] = "body"
    /\ \/ Respond(r, "400")
       \/ Respond(r, "408")
    /\ Admission!Release(Reader(r))
    /\ UNCHANGED workVars

\* transcribe_inner: an empty body is refused; otherwise HTTP capacity is
\* asked for while the reader is still held.
InspectBody(r) ==
    /\ future[r] = "inner"
    /\ \/ Respond(r, "400") /\ Admission!Release(Reader(r))
       \/ Move(r, "admit") /\ UNCHANGED <<admissionVars, reply>>
    /\ UNCHANGED workVars

AdmitHttp(r) ==
    /\ future[r] = "admit"
    /\ Admission!Admit(Permit(r))
    /\ UNCHANGED <<future, reply, workVars>>

\* drop(body); drop(reader); then the refusal.
HttpRefused(r) ==
    /\ future[r] = "admit"
    /\ \/ stage[Permit(r)] = "overloaded" /\ Respond(r, "503 overloaded")
       \/ stage[Permit(r)] = "draining" /\ Respond(r, "503 draining")
    /\ Admission!Release(Reader(r))
    /\ UNCHANGED workVars

\* Admitted: the reader is dropped once the work's permit is owned.
DropReader(r) ==
    /\ future[r] = "admit"
    /\ stage[Permit(r)] = "held"
    /\ Admission!Release(Reader(r))
    /\ Move(r, "spawn")
    /\ UNCHANGED <<reply, workVars>>

\* execute_admitted_work: the permit and the control move into the work.
Spawn(r) ==
    /\ future[r] = "spawn"
    /\ work' = [work EXCEPT ![r] = "queued"]
    /\ Move(r, "await")
    /\ UNCHANGED <<admissionVars, reply, result, control>>

\* timeout(job) polls the job first.
JobFinished(r) ==
    /\ future[r] = "await"
    /\ work[r] = "done"
    /\ Respond(r, CASE result[r] = "ok"    -> "200"
                    [] result[r] = "error" -> "work error"
                    [] result[r] = "panic" -> "503 worker")
    /\ UNCHANGED <<admissionVars, workVars>>

\* The processing deadline: the job was not ready when it was polled.
DeadlinePasses(r) ==
    /\ future[r] = "await"
    /\ work[r] # "done"
    /\ Move(r, "elapsed")
    /\ UNCHANGED <<admissionVars, reply, workVars>>

\* Mutated form of AnswerTimeout: the permit belongs to the future.
AnswerTimeoutReleasing(r) ==
    /\ future[r] = "elapsed"
    /\ control' = [control EXCEPT ![r] = RequestCancellation(@)]
    /\ Respond(r, "504")
    /\ IF stage[Permit(r)] = "held"
         THEN Admission!Release(Permit(r))
         ELSE UNCHANGED admissionVars
    /\ UNCHANGED <<work, result>>

\* The job handle is dropped, not aborted; the permit stays with the work.
AnswerTimeout(r) ==
    /\ future[r] = "elapsed"
    /\ control' = [control EXCEPT ![r] = RequestCancellation(@)]
    /\ Respond(r, "504")
    /\ UNCHANGED <<admissionVars, work, result>>

\* The client leaves at an await: hyper drops the future.
Disconnect(r) ==
    /\ \/ future[r] = "body" /\ Admission!Release(Reader(r))
          /\ reply' = [reply EXCEPT ![r] = "gone"] /\ Move(r, "ended")
       \/ future[r] = "await" /\ Move(r, "dropped")
          /\ UNCHANGED <<admissionVars, reply>>
    /\ UNCHANGED workVars

\* Mutated form of DropGuard: nobody cancels.
DropGuardDisarmed(r) ==
    /\ future[r] = "dropped"
    /\ Respond(r, "gone")
    /\ UNCHANGED <<admissionVars, workVars>>

\* RequestCancellationGuard: dropped with the future.
DropGuard(r) ==
    /\ future[r] = "dropped"
    /\ control' = [control EXCEPT ![r] = RequestCancellation(@)]
    /\ Respond(r, "gone")
    /\ UNCHANGED <<admissionVars, work, result>>

Future(r) == \/ ParseRequest(r) \/ AdmitUpload(r) \/ UploadAnswered(r)
             \/ InspectBody(r) \/ AdmitHttp(r) \/ HttpRefused(r)
             \/ DropReader(r) \/ Spawn(r) \/ JobFinished(r)
             \/ AnswerTimeout(r) \/ DropGuard(r)

----------------------------------------------------------------------------
(* The blocking work. *)

\* A blocking thread takes the closure.
WorkStarts(r) ==
    /\ work[r] = "queued"
    /\ work' = [work EXCEPT ![r] = "running"]
    /\ UNCHANGED <<admissionVars, future, reply, result, control>>

\* A scheduled call that succeeds, or at least starts.
CallStarts(r) ==
    /\ work[r] = "running"
    /\ ~Refuses(control[r])
    /\ control' = [control EXCEPT ![r] = Start(Enqueue(@))]
    /\ UNCHANGED <<admissionVars, future, reply, work, result>>

\* A scheduled call that fails ends the batch: refused or thrown away because
\* of a cancellation, expired in the queue, or met by a stopped worker.
CallFails(r) ==
    /\ work[r] = "running"
    /\ control' \in {[control EXCEPT ![r] = s] :
                       s \in {Acknowledge(RequestCancellation(control[r])),
                              Fail(control[r])}
                             \cup (IF Refuses(control[r]) THEN {control[r]} ELSE {})}
    /\ result' = [result EXCEPT ![r] = "error"]
    /\ work' = [work EXCEPT ![r] = "owner"]
    /\ UNCHANGED <<admissionVars, future, reply>>

\* The closure returns Ok, returns Err for a reason of its own, or panics.
WorkEnds(r) ==
    /\ work[r] = "running"
    /\ \E v \in {"ok", "error", "panic"} : result' = [result EXCEPT ![r] = v]
    /\ work' = [work EXCEPT ![r] = "owner"]
    /\ UNCHANGED <<admissionVars, future, reply, control>>

\* Mutated form of EndControl: the result is published first.
ReturnBeforeOwner(r) ==
    /\ work[r] = "owner"
    /\ work' = [work EXCEPT ![r] = "done"]
    /\ UNCHANGED <<admissionVars, future, reply, result, control>>

\* Mutated form of EndControl: unwinding forgets the permit.
EndControlLeakingOnPanic(r) ==
    /\ work[r] = "owner"
    /\ control' = [control EXCEPT ![r] = IF result[r] = "ok" THEN Complete(@) ELSE Fail(@)]
    /\ work' = [work EXCEPT ![r] = IF result[r] = "panic" THEN "observe" ELSE "permit"]
    /\ UNCHANGED <<admissionVars, future, reply, result>>

\* owner.complete(), owner.fail(), or the owner's Drop while unwinding.  An
\* Ok whose control turns out cancelled becomes an error.
EndControl(r) ==
    /\ work[r] = "owner"
    /\ IF result[r] = "ok"
         THEN /\ control' = [control EXCEPT ![r] = Complete(@)]
              /\ result' = IF Complete(control[r]) = "Completed" THEN result
                           ELSE [result EXCEPT ![r] = "error"]
         ELSE /\ control' = [control EXCEPT ![r] = Fail(@)]
              /\ UNCHANGED result
    /\ work' = [work EXCEPT ![r] = "permit"]
    /\ UNCHANGED <<admissionVars, future, reply>>

\* The owner's permit drops after its control has ended.
DropPermit(r) ==
    /\ work[r] = "permit"
    /\ Admission!Release(Permit(r))
    /\ work' = [work EXCEPT ![r] = "observe"]
    /\ UNCHANGED <<future, reply, result, control>>

\* WorkObservation, outside the owner's scope; then the job is finished.
Observe(r) ==
    /\ work[r] = "observe"
    /\ work' = [work EXCEPT ![r] = "done"]
    /\ UNCHANGED <<admissionVars, future, reply, result, control>>

\* What the closure does, and what is done once it has returned.
Closure(r) == CallStarts(r) \/ CallFails(r) \/ WorkEnds(r)
Wrapper(r) == WorkStarts(r) \/ EndControl(r) \/ DropPermit(r) \/ Observe(r)

----------------------------------------------------------------------------

Drain == /\ Admission!BeginDraining \/ Admission!Close
         /\ UNCHANGED <<future, reply, workVars>>

Next == \/ \E r \in Requests : \/ Future(r) \/ Wrapper(r) \/ Closure(r)
                               \/ ReadBody(r) \/ BodyRefused(r)
                               \/ DeadlinePasses(r) \/ Disconnect(r)
        \/ Drain

Spec == Init /\ [][Next]_vars

\* The async runtime polls a ready future, the blocking pool runs its queue and
\* what is left to do behind a closure, and a timer fires: upload_timeout
\* bounds a body, the request's deadline the wait for its work.  Nothing obliges
\* the closure to return: its calls are window calls, which the scheduler
\* starves while ticks keep coming (Scheduler, WindowCallsReturn).
Fairness == \A r \in Requests :
               /\ WF_vars(Future(r))
               /\ WF_vars(Wrapper(r))
               /\ WF_vars(BodyRefused(r))
               /\ WF_vars(DeadlinePasses(r))

FairSpec == Spec /\ Fairness

----------------------------------------------------------------------------
(* Properties. *)

Executing(r) == work[r] \in {"queued", "running", "owner", "permit"}

\* EXEC-CANCEL-001: admitted work keeps its permit until its control is
\* terminal, through deadlines, disconnects and panics; so native work never
\* outnumbers ASR_MAX_CONCURRENCY, however many requests have timed out.  The
\* terminal work record comes after both (OPERATIONS.md, WorkObservation).
PermitHeldUntilTerminal ==
    /\ \A r \in Requests :
          /\ Executing(r) => stage[Permit(r)] = "held"
          /\ work[r] \in {"observe", "done"} =>
                control[r] \in Terminal /\ stage[Permit(r)] # "held"
    /\ Cardinality({r \in Requests : Executing(r)}) <= MaxHttp

\* A client is told success exactly by a completed control: a cancelled or
\* failed request is never answered 200.
SuccessMeansCompleted ==
    \A r \in Requests : reply[r] = "200" => control[r] = "Completed"

\* What a future leaves behind when a deadline, a disconnect or an answer has
\* ended it: no reader, no permit without work to hold it, and no work that may
\* still start a recognition call (EXEC-CANCEL-001; http.rs DropGuard, drop(body)).
EndedLeavesNothing ==
    \A r \in Requests :
        future[r] = "ended" =>
            /\ Executing(r) => control[r] \notin Active
            /\ stage[Reader(r)] \notin {"commit", "surrender", "held"}
            /\ stage[Permit(r)] \in {"commit", "surrender", "held"} => Executing(r)

\* Every request is answered or abandoned even if its work never returns, and
\* once the work has returned, or panicked, nothing keeps its capacity: only a
\* closure that is still running may hold a permit for ever.
CapacityReturns ==
    \A r \in Requests :
        future[r] # "received" ~>
            future[r] = "ended" /\ (stage[Permit(r)] = "held" => work[r] = "running")
================================================================================
