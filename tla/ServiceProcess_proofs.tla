-------------------------- MODULE ServiceProcess_proofs --------------------------
(***************************************************************************)
(* The process, for any attempts, weights and capacities: what admission    *)
(* promises holds from the start of the process to its end, and a readiness *)
(* probe reports what it read, though it reads phase and workers apart.     *)
(***************************************************************************)
EXTENDS ServiceProcess, Admission_proofs

\* A probe in flight was asked while the process served; what it found stopped
\* is still stopped, and it has passed the first worker only if that one ran.
ProbeInv ==
    /\ probe \in [at : Answers \cup {"workers", "second"},
                  phase : {"Running", "Draining"}, sick : SUBSET Roles]
    /\ worker \in [Roles -> {"absent", "running", "stopped"}]
    /\ probe.at \notin Answers =>
         /\ at \in {"serving", "closing", "stopped", "failed"}
         /\ probe.sick \subseteq Workers
         /\ \A r \in probe.sick : worker[r] = "stopped"
    /\ probe.at = "second" => rnnt /\ "ctc" \notin probe.sick

ProcessInv == IInv /\ ProbeInv

----------------------------------------------------------------------------
(* The process moves admission only by admission's own steps. *)

LEMMA ProcessStepIsAdmissionStep ==
    ASSUME [ProcessNext]_allvars
    PROVE  [Next]_vars
BY DEF ProcessNext, allvars, Next, Advance, Fatal, InstallHandlers, Panic, Serve,
       ComeAgain, Ask, AskWorkers, AskSecond, Signal, Drain, Stop

\* No stage of the start is one in which the process serves.
LEMMA StartingIsNotServing ==
    Starting => at \notin {"serving", "closing", "stopped", "failed"}
BY DEF Starting, StartUp

LEMMA ProbeInit == ProcessInit => ProbeInv
BY DEF ProcessInit, ProbeInv, Answered, Answers, Roles

\* A stage, a failure or a panic: workers change, the probe does not.
LEMMA ProcessStepKeepsProbe ==
    ASSUME ProbeInv,
           Advance \/ Fatal \/ InstallHandlers \/ (\E r \in Roles : Panic(r))
             \/ Signal \/ Drain \/ Stop
             \/ (\E t \in Tokens : Serve(t) \/ ComeAgain(t))
    PROVE  ProbeInv'
<1>1. probe' = probe /\ rnnt' = rnnt
  BY DEF Advance, Fatal, InstallHandlers, Panic, Signal, Drain, Stop, Serve,
         ComeAgain, process
<1>2. CASE Advance
  <2>1. worker' \in [Roles -> {"absent", "running", "stopped"}]
    BY <1>2 DEF Advance, ProbeInv
  <2>2. probe.at \in Answers
    BY <1>2, StartingIsNotServing DEF Advance, ProbeInv
  <2> QED BY <1>1, <2>1, <2>2 DEF ProbeInv, Workers, Answers
<1>3. CASE \E r \in Roles : Panic(r)
  BY <1>1, <1>3 DEF Panic, ProbeInv, Workers
<1>4. CASE Fatal \/ InstallHandlers \/ Signal \/ Drain \/ Stop
           \/ (\E t \in Tokens : Serve(t) \/ ComeAgain(t))
  <2>1. worker' = worker /\ (at' = at \/ at' \in {"closing", "stopped", "failed"})
    BY <1>4 DEF Fatal, InstallHandlers, Signal, Drain, Stop, Serve, ComeAgain, process
  <2> QED BY <1>1, <2>1 DEF ProbeInv, Workers
<1> QED BY <1>2, <1>3, <1>4

LEMMA ProbeStepPreserves ==
    ASSUME TypeOK, ProbeInv, Ask \/ AskWorkers \/ AskSecond
    PROVE  ProbeInv'
<1>1. CASE Ask
  <2> DEFINE sick == {r \in Workers : worker[r] = "stopped"}
  <2>1. /\ probe' = [at |-> "workers", phase |-> phase, sick |-> sick]
        /\ UNCHANGED <<at, rnnt, worker>> /\ at = "serving"
    BY <1>1 DEF Ask
  <2>2. sick \subseteq Workers /\ Workers \subseteq Roles
        /\ \A r \in sick : worker[r] = "stopped"
    BY DEF Workers, Roles
  <2> HIDE DEF sick
  <2> QED BY <2>1, <2>2 DEF TypeOK, ProbeInv, Answers, Workers
<1>2. CASE AskWorkers
  <2>1. UNCHANGED <<at, rnnt, worker>> /\ probe.at = "workers"
    BY <1>2 DEF AskWorkers
  <2>2. CASE worker["ctc"] = "stopped" \/ ~rnnt
    <3>1. probe' = Answered(Readiness(worker["ctc"] = "stopped"))
      BY <1>2, <2>2 DEF AskWorkers, Answer
    <3> QED BY <2>1, <3>1 DEF ProbeInv, Answered, Readiness, Answers, Workers
  <2>3. CASE ~(worker["ctc"] = "stopped" \/ ~rnnt)
    <3>1. probe' = [probe EXCEPT !.at = "second"]
      BY <1>2, <2>3 DEF AskWorkers
    <3> QED BY <2>1, <2>3, <3>1 DEF ProbeInv, Answers, Workers
  <2> QED BY <2>2, <2>3
<1>3. CASE AskSecond
  <2>1. probe' = Answered(Readiness(worker["rnnt"] = "stopped"))
        /\ UNCHANGED <<at, rnnt, worker>>
    BY <1>3 DEF AskSecond, Answer
  <2> QED BY <2>1 DEF ProbeInv, Answered, Readiness, Answers, Workers
<1> QED BY <1>1, <1>2, <1>3

THEOREM ProcessInvariant == ProcessSpec => []ProcessInv
<1>1. ProcessInit => ProcessInv
  BY InitEstablishes, ProbeInit DEF ProcessInit, ProcessInv
<1>2. ProcessInv /\ [ProcessNext]_allvars => ProcessInv'
  <2> SUFFICES ASSUME ProcessInv, [ProcessNext]_allvars PROVE ProcessInv'
    OBVIOUS
  <2>1. IInv'
    BY ProcessStepIsAdmissionStep, StepPreserves DEF ProcessInv
  <2>2. ProbeInv'
    <3>1. CASE UNCHANGED allvars
      BY <3>1 DEF ProcessInv, allvars, process, ProbeInv, Workers
    <3>2. CASE ProcessNext
      BY <3>2, ProcessStepKeepsProbe, ProbeStepPreserves DEF ProcessInv, IInv, ProcessNext
    <3> QED BY <3>1, <3>2
  <2> QED BY <2>1, <2>2 DEF ProcessInv
<1> QED BY <1>1, <1>2, PTL DEF ProcessSpec

----------------------------------------------------------------------------

\* From the start of the process to its end no permit is lost or invented, and
\* a drain that was reported stays drained (admission.rs).
THEOREM PermitsAreConservedHolds == ProcessSpec => []PermitsAreConserved
<1>1. ProcessInv => PermitsAreConserved
  BY DEF ProcessInv, IInv, PermitsInv, PermitsAreConserved, PermitsConserved
<1> QED BY <1>1, ProcessInvariant, PTL

\* Nothing is admitted once the phase is Draining, whenever the attempt read it
\* (admission.rs: the second read of the phase).
THEOREM NoneAdmittedHolds == ProcessSpec => NoneAdmittedOnceDraining
<1>1. ProcessInv /\ [ProcessNext]_allvars
        => [phase = "Draining" =>
              \A t \in Tokens : stage'[t] = "held" => stage[t] = "held"]_allvars
  BY ProcessStepIsAdmissionStep, StepRespectsDrain DEF ProcessInv
<1> QED BY <1>1, ProcessInvariant, PTL DEF ProcessSpec, NoneAdmittedOnceDraining

\* A semaphore that the drain has closed is never reported to a client as
\* overload (admission.rs refusal_after_capacity_failure).
THEOREM RefusalIsHonestHolds == ProcessSpec => RefusalIsHonest
<1>1. ProcessInv /\ [ProcessNext]_allvars
        => [\A t \in Tokens :
              stage'[t] = "overloaded" => stage[t] \in {"full", "overloaded"}]_allvars
  BY ProcessStepIsAdmissionStep, StepRespectsDrain DEF ProcessInv
<1> QED BY <1>1, ProcessInvariant, PTL DEF ProcessSpec, RefusalIsHonest

\* A probe told "ready" found no worker stopped and no drain begun when it was
\* asked (health.rs readyz).
THEOREM ReadyMeansHealthyHolds == ProcessSpec => ReadyMeansHealthy
<1>1. ProcessInv /\ [ProcessNext]_allvars
        => [probe.at \notin Answers /\ probe'.at = "ready" =>
              probe.sick = {} /\ probe.phase = "Running"]_allvars
  <2> SUFFICES ASSUME ProbeInv, ProcessNext, probe.at \notin Answers, probe'.at = "ready"
               PROVE  probe.sick = {} /\ probe.phase = "Running"
    BY DEF ProcessInv
  <2>1. probe' # probe
    BY DEF Answers
  <2>2. CASE AskWorkers
    <3>1. CASE worker["ctc"] = "stopped" \/ ~rnnt
      <4>1. Readiness(worker["ctc"] = "stopped") = "ready"
        BY <2>2, <3>1 DEF AskWorkers, Answer, Answered
      <4>2. probe.phase = "Running" /\ worker["ctc"] # "stopped" /\ ~rnnt
        BY <3>1, <4>1 DEF Readiness, ProbeInv
      <4> QED BY <4>2 DEF ProbeInv, Workers
    <3>2. CASE ~(worker["ctc"] = "stopped" \/ ~rnnt)
      BY <2>2, <3>2 DEF AskWorkers, Answers, ProbeInv
    <3> QED BY <3>1, <3>2
  <2>3. CASE AskSecond
    <3>1. Readiness(worker["rnnt"] = "stopped") = "ready" /\ probe.at = "second"
      BY <2>3 DEF AskSecond, Answer, Answered
    <3>2. probe.phase = "Running" /\ worker["rnnt"] # "stopped"
      BY <3>1 DEF Readiness, ProbeInv
    <3> QED BY <3>1, <3>2 DEF ProbeInv, Workers, Roles
  <2>4. ~Ask
    BY DEF Ask
  <2>5. ~(Advance \/ Fatal \/ InstallHandlers \/ (\E r \in Roles : Panic(r))
            \/ Signal \/ Drain \/ Stop
            \/ (\E t \in Tokens : Serve(t) \/ ComeAgain(t)))
    BY <2>1 DEF Advance, Fatal, InstallHandlers, Panic, Signal, Drain, Stop, Serve,
                ComeAgain, process
  <2> QED BY <2>2, <2>3, <2>4, <2>5 DEF ProcessNext
<1> QED BY <1>1, ProcessInvariant, PTL DEF ProcessSpec, ReadyMeansHealthy
=============================================================================
