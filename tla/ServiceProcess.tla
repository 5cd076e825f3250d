----------------------------- MODULE ServiceProcess -----------------------------
(***************************************************************************)
(* The service process from its start to its end (service/src/lifecycle.rs, *)
(* lib.rs): the stages of run_process, the workers it starts, admission      *)
(* (Admission) while it serves, readiness probes (health.rs), and the        *)
(* shutdown by a signal.                                                     *)
(*                                                                           *)
(* axum and tokio are external: a server whose shutdown future is ready      *)
(* accepts no connection and returns when the requests it has are answered;  *)
(* an upgraded WebSocket is a request no longer, and dies with the process.  *)
(***************************************************************************)
EXTENDS Admission, Sequences

CONSTANT WithRnnt       \* what --no-rnnt leaves: a subset of BOOLEAN

VARIABLES
    at,        \* the stage of run_process
    rnnt,      \* Startup::with_rnnt
    handlers,  \* wait_signal: whether the signal handlers are installed
    worker,    \* [Roles -> the state of the scheduler's worker]
    probe      \* one readiness probe after the other

process == <<at, rnnt, handlers, worker, probe>>
allvars == <<vars, process>>

Roles == {"ctc", "rnnt"}
Workers == IF rnnt THEN Roles ELSE {"ctc"}

(***************************************************************************)
(* The stages up to the listener, in order; any of them may be fatal.  What *)
(* only reads comes before what is native, and the listener comes last.      *)
(***************************************************************************)
StartUp == <<"configuration", "package", "rate", "limits", "policy", "runtime", "weights",
             "frontend", "ctc", "ctcWarmup", "rnnt", "rnntWarmup", "capabilities", "assembly",
             "bind", "serving">>

Starting == \E i \in 1..(Len(StartUp) - 1) : at = StartUp[i]
After(s) == LET i == CHOOSE i \in DOMAIN StartUp : StartUp[i] = s IN
            IF s = "ctcWarmup" /\ ~rnnt THEN "capabilities" ELSE StartUp[i + 1]

\* A probe is asked again once it is answered; sick is a history variable: the
\* workers that had stopped when it was asked.
Answers == {"none", "draining", "workerStopped", "ready"}
Answered(told) == [at |-> told, phase |-> "Running", sick |-> {}]

ProcessInit ==
    /\ Init
    /\ at = "configuration"
    /\ rnnt \in WithRnnt
    /\ handlers = "absent"
    /\ worker = [r \in Roles |-> "absent"]
    /\ probe = Answered("none")

----------------------------------------------------------------------------
(* Start. *)

\* A stage succeeds; constructing a decoder spawns its worker, and the warmup
\* decodes one window on it.
Advance ==
    /\ Starting
    /\ at \in {"ctcWarmup", "rnntWarmup"} => \A r \in Roles : worker[r] # "stopped"
    /\ at' = After(at)
    /\ worker' = IF at \in Roles THEN [worker EXCEPT ![at] = "running"] ELSE worker
    /\ UNCHANGED <<vars, rnnt, handlers, probe>>

\* fatal: the process exits with status 1 and nothing of it is left.
Fatal ==
    /\ Starting \/ (at = "serving" /\ handlers = "absent")
    /\ at' = "failed"
    /\ UNCHANGED <<vars, rnnt, handlers, worker, probe>>

\* A decoder panics on the worker's thread, in its warmup or under a request,
\* which stops it.
Panic(r) ==
    /\ at \in {IF r = "ctc" THEN "ctcWarmup" ELSE "rnntWarmup", "serving", "closing"}
    /\ worker[r] = "running"
    /\ worker' = [worker EXCEPT ![r] = "stopped"]
    /\ UNCHANGED <<vars, at, rnnt, handlers, probe>>

\* wait_signal: the first poll of the shutdown future, in its own task.
InstallHandlers ==
    /\ at = "serving" /\ handlers = "absent"
    /\ handlers' = "installed"
    /\ UNCHANGED <<vars, at, rnnt, worker, probe>>

----------------------------------------------------------------------------
(* Requests. *)

\* A step of a request that has a connection, or that opens one.
Serve(t) ==
    /\ at \in {"serving", "closing"}
    /\ Admit(t) \/ Release(t)
    /\ at = "closing" => stage[t] # "idle"
    /\ UNCHANGED process

ComeAgain(t) == at = "serving" /\ Retry(t) /\ UNCHANGED process

----------------------------------------------------------------------------
(* Readiness: readyz reads the phase, then each worker. *)

Reachable == at \in {"serving", "closing"}

Ask ==
    /\ at = "serving" /\ probe.at \in Answers
    /\ probe' = [at |-> "workers", phase |-> phase,
                 sick |-> {r \in Workers : worker[r] = "stopped"}]
    /\ UNCHANGED <<vars, at, rnnt, handlers, worker>>

Answer(told) == probe' = Answered(told)
Readiness(stopped) == IF probe.phase = "Draining" THEN "draining"
                      ELSE IF stopped THEN "workerStopped" ELSE "ready"

\* Mutated form of AskWorkers: the second worker is not looked at.
AskFirstWorker ==
    /\ Reachable /\ probe.at = "workers"
    /\ Answer(Readiness(worker["ctc"] = "stopped"))
    /\ UNCHANGED <<vars, at, rnnt, handlers, worker>>

\* HealthState::workers_stopped, the first worker.
AskWorkers ==
    /\ Reachable /\ probe.at = "workers"
    /\ IF worker["ctc"] = "stopped" \/ ~rnnt THEN Answer(Readiness(worker["ctc"] = "stopped"))
       ELSE probe' = [probe EXCEPT !.at = "second"]
    /\ UNCHANGED <<vars, at, rnnt, handlers, worker>>

\* The second.
AskSecond ==
    /\ Reachable /\ probe.at = "second"
    /\ Answer(Readiness(worker["rnnt"] = "stopped"))
    /\ UNCHANGED <<vars, at, rnnt, handlers, worker>>

----------------------------------------------------------------------------
(* Shutdown. *)

\* SIGTERM or SIGINT: drained by the handler, or fatal where there is none yet.
Signal ==
    \/ /\ at = "serving" /\ handlers = "installed"
       /\ BeginDraining
       /\ UNCHANGED process
    \/ /\ Starting \/ (at = "serving" /\ handlers = "absent")
       /\ at' = "failed"
       /\ UNCHANGED <<vars, rnnt, handlers, worker, probe>>

\* The shutdown future goes on, and is ready once the wait is over.
Drain ==
    \/ at = "serving" /\ Shutdown /\ UNCHANGED process
    \/ /\ at = "serving" /\ waiter \in {"drained", "timedOut"}
       /\ at' = "closing"
       /\ UNCHANGED <<vars, rnnt, handlers, worker, probe>>

\* What the server waits for: requests, until they are answered or upgraded.
Answering(t) ==
    \/ stage[t] \in {"acquire", "full", "shut", "commit", "surrender"}
    \/ stage[t] = "held" /\ PoolOf[t] # "ws"

Stop ==
    /\ at = "closing"
    /\ probe.at \in Answers /\ \A t \in Tokens : ~Answering(t)
    /\ at' = "stopped"
    /\ UNCHANGED <<vars, rnnt, handlers, worker, probe>>

----------------------------------------------------------------------------

ProcessNext ==
    \/ Advance \/ Fatal \/ InstallHandlers \/ (\E r \in Roles : Panic(r))
    \/ (\E t \in Tokens : Serve(t) \/ ComeAgain(t))
    \/ Ask \/ AskWorkers \/ AskSecond
    \/ Signal \/ Drain \/ Stop

ProcessSpec == ProcessInit /\ [][ProcessNext]_allvars

\* The process runs: its start, the requests it has, the shutdown task and the
\* probe it answers.  The wait for the sessions does not outlast its deadline, so
\* the sleep after which it has passed comes.  HTTP work ends, as its deadline
\* bounds it; nothing obliges a WebSocket client to go, another to come, or a
\* signal to arrive.
ProcessFairness ==
    /\ WF_allvars(Advance)
    /\ WF_allvars(InstallHandlers)
    /\ \A t \in Tokens : WF_allvars(Answering(t) /\ Serve(t))
    /\ WF_allvars(AskWorkers) /\ WF_allvars(AskSecond)
    /\ WF_allvars(Drain)
    /\ SF_allvars(Drain /\ waiter' = "timedOut")
    /\ WF_allvars(Stop)

FairProcessSpec == ProcessSpec /\ ProcessFairness

----------------------------------------------------------------------------
(* Properties. *)

\* No interleaving of commits, drain races and drops loses or invents a permit,
\* and after wait_for_ws_drain has reported Drained no session owns one
\* (admission.rs: Pending*Admission::commit and the owners' drops).
PermitsAreConserved == PermitsConserved /\ DrainedIsFinal

\* SHUTDOWN-ADMISSION-001: once the phase is Draining nothing is admitted, not
\* even an attempt that had read Running and acquired its permit.
NoneAdmittedOnceDraining ==
    [][phase = "Draining" =>
         \A t \in Tokens : stage'[t] = "held" => stage[t] = "held"]_allvars

\* A client is told "overloaded, retry later" only if capacity was really taken:
\* a semaphore closed by the drain is never reported as overload.
RefusalIsHonest ==
    [][\A t \in Tokens : stage'[t] = "overloaded" => stage[t] \in {"full", "overloaded"}]_allvars

\* A probe is never told "ready" when a worker had stopped or the drain had begun
\* before it asked, so a load balancer that was told otherwise is not told ready
\* again (health.rs readyz, workers_stopped).
ReadyMeansHealthy ==
    [][probe.at \notin Answers /\ probe'.at = "ready" =>
         probe.sick = {} /\ probe.phase = "Running"]_allvars

\* A signal that is handled ends the process, whatever is open: requests are
\* answered and sessions have ten seconds (lifecycle.rs run_process).
SignalEndsTheProcess == phase = "Draining" ~> at = "stopped"
================================================================================
