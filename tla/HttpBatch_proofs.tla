----------------------------- MODULE HttpBatch_proofs -----------------------------
(***************************************************************************)
(* A batch request, for any number of requests and any limits: its permit   *)
(* is held until its control is terminal, success means a completed         *)
(* control, and nothing of it outlives its end but work that is cancelled.  *)
(* What admission guarantees is taken from Admission_proofs.                *)
(***************************************************************************)
EXTENDS HttpBatch, FiniteSetTheorems, TLAPS

AdmissionProofs ==
    INSTANCE Admission_proofs
      WITH PoolOf   <- [t \in Tokens |-> t[2]],
           Weight   <- [t \in Tokens |-> 1],
           Capacity <- [p \in {"http", "uploads", "ws"} |->
                          CASE p = "http" -> MaxHttp
                            [] p = "uploads" -> MaxUploads
                            [] OTHER -> 1]

\* An attempt that holds nothing and asks for nothing.
Settled == {"idle", "overloaded", "draining"}

\* Where the future is decides what its reader and its permit may be.
PlaceInv(r) ==
    /\ future[r] = "received" => stage[Reader(r)] = "idle"
    /\ future[r] \in {"received", "upload", "body", "inner"} => stage[Permit(r)] = "idle"
    /\ future[r] \in {"body", "inner", "admit"} => stage[Reader(r)] = "held"
    /\ future[r] \in {"spawn", "await", "elapsed", "dropped"} => stage[Reader(r)] = "idle"
    /\ future[r] = "spawn" => stage[Permit(r)] = "held"
    /\ future[r] = "ended" => /\ stage[Reader(r)] \in Settled
                              /\ work[r] = "none" => stage[Permit(r)] \in Settled
    /\ work[r] # "none" => future[r] \in {"await", "elapsed", "dropped", "ended"}
    /\ future[r] \in {"await", "elapsed", "dropped"} => work[r] # "none"

\* Where the work is decides what its permit, its control and its result are.
WorkInv(r) ==
    /\ Executing(r) => stage[Permit(r)] = "held"
    /\ work[r] \in {"observe", "done"} => stage[Permit(r)] = "idle"
    /\ work[r] \in {"permit", "observe", "done"} =>
         control[r] \in Terminal /\ (result[r] = "ok" => control[r] = "Completed")
    /\ work[r] \in {"owner", "permit", "observe", "done"} => result[r] # "none"
    /\ reply[r] = "200" => work[r] = "done" /\ result[r] = "ok"
    /\ future[r] = "ended" /\ Executing(r) => control[r] \notin Active

RequestType ==
    /\ future \in [Requests -> FutureSteps]
    /\ reply \in [Requests -> Replies]
    /\ work \in [Requests -> WorkSteps]
    /\ result \in [Requests -> Results]
    /\ control \in [Requests -> States]

IInv == /\ RequestType
        /\ AdmissionProofs!IInv
        /\ \A r \in Requests : PlaceInv(r) /\ WorkInv(r)

----------------------------------------------------------------------------
(* Admission, as these requests use it. *)

\* The limits give every pool a capacity (admission.rs Admission::new).
LEMMA TokensAreAdmissible ==
    /\ [t \in Tokens |-> t[2]] \in [Tokens -> AdmissionProofs!Pools]
    /\ [t \in Tokens |-> 1] \in [Tokens -> Nat \ {0}]
    /\ [p \in {"http", "uploads", "ws"} |->
          CASE p = "http" -> MaxHttp
            [] p = "uploads" -> MaxUploads
            [] OTHER -> 1] \in [AdmissionProofs!Pools -> Nat \ {0}]
BY LimitAssumption DEF Tokens, AdmissionProofs!Pools

\* A step that is one of admission's, or leaves it alone, keeps its invariant.
AdmissionStep ==
    \/ UNCHANGED admissionVars
    \/ \E t \in Tokens : Admission!Admit(t) \/ Admission!Release(t)
    \/ Admission!BeginDraining \/ Admission!Close

LEMMA AdmissionStepPreserves ==
    ASSUME AdmissionProofs!IInv, AdmissionStep
    PROVE  AdmissionProofs!IInv'
<1>1. AdmissionStep => AdmissionProofs!Next \/ UNCHANGED AdmissionProofs!vars
  BY DEF AdmissionStep, admissionVars, AdmissionProofs!vars, AdmissionProofs!Next,
         Admission!Admit, Admission!ReadPhase, Admission!TryAcquire,
         Admission!ClassifyRefusal, Admission!Commit, Admission!Surrender,
         Admission!Release, Admission!BeginDraining, Admission!Close,
         Admission!GiveBack, Admission!Goto, Admission!life, Admission!AfterClosing,
         Admission!Pools,
         AdmissionProofs!Admit, AdmissionProofs!ReadPhase, AdmissionProofs!TryAcquire,
         AdmissionProofs!ClassifyRefusal, AdmissionProofs!Commit,
         AdmissionProofs!Surrender, AdmissionProofs!Release,
         AdmissionProofs!BeginDraining, AdmissionProofs!Shutdown, AdmissionProofs!Close,
         AdmissionProofs!GiveBack, AdmissionProofs!Goto, AdmissionProofs!life,
         AdmissionProofs!AfterClosing, AdmissionProofs!Pools
<1> QED BY <1>1, TokensAreAdmissible, AdmissionProofs!StepPreserves

\* A step of one attempt moves that attempt's stage and no other.
LEMMA StagesMoveAlone ==
    ASSUME IInv, NEW t \in Tokens
    PROVE  /\ stage \in [Tokens -> Admission!Stages]
           /\ Admission!Release(t) => /\ stage[t] = "held"
                                      /\ stage' = [stage EXCEPT ![t] = "idle"]
           /\ Admission!Admit(t) => /\ stage[t] # "held"
                                    /\ \E s \in Admission!Stages :
                                         stage' = [stage EXCEPT ![t] = s]
BY DEF IInv, AdmissionProofs!IInv, AdmissionProofs!TypeOK, AdmissionProofs!Stages,
       Admission!Stages, Admission!Release, Admission!Admit, Admission!ReadPhase,
       Admission!TryAcquire, Admission!ClassifyRefusal, Admission!Commit,
       Admission!Surrender, Admission!Goto

----------------------------------------------------------------------------
(* A request's steps touch no other request. *)

Frame(r) == \A q \in Requests \ {r} :
                /\ future'[q] = future[q] /\ reply'[q] = reply[q]
                /\ work'[q] = work[q] /\ result'[q] = result[q]
                /\ control'[q] = control[q]
                /\ stage'[Reader(q)] = stage[Reader(q)]
                /\ stage'[Permit(q)] = stage[Permit(q)]

LEMMA FrameKeepsOthers ==
    ASSUME IInv, NEW r \in Requests, Frame(r), RequestType', AdmissionStep,
           PlaceInv(r)', WorkInv(r)'
    PROVE  IInv'
<1>1. ASSUME NEW q \in Requests \ {r} PROVE PlaceInv(q)' /\ WorkInv(q)'
  BY <1>1 DEF IInv, Frame, PlaceInv, WorkInv, Executing
<1>2. AdmissionProofs!IInv'
  BY AdmissionStepPreserves DEF IInv
<1> QED BY <1>1, <1>2 DEF IInv

\* The tokens of two requests are different, and so are those of one.
LEMMA TokensDiffer ==
    ASSUME NEW r \in Requests
    PROVE  /\ Reader(r) \in Tokens /\ Permit(r) \in Tokens /\ Reader(r) # Permit(r)
           /\ \A q \in Requests \ {r} : {Reader(q), Permit(q)} \cap {Reader(r), Permit(r)} = {}
BY DEF Reader, Permit, Tokens

\* Stages after a step that moves at most the two attempts of r.
LEMMA StagesAfter ==
    ASSUME IInv, NEW r \in Requests, NEW t \in {Reader(r), Permit(r)},
           NEW s \in Admission!Stages, stage' = [stage EXCEPT ![t] = s]
    PROVE  /\ stage'[t] = s
           /\ \A u \in {Reader(r), Permit(r)} \ {t} : stage'[u] = stage[u]
           /\ \A q \in Requests \ {r} : /\ stage'[Reader(q)] = stage[Reader(q)]
                                        /\ stage'[Permit(q)] = stage[Permit(q)]
<1>1. stage \in [Tokens -> Admission!Stages] /\ t \in Tokens
  BY StagesMoveAlone, TokensDiffer
<1>2. \A q \in Requests : Reader(q) \in Tokens /\ Permit(q) \in Tokens
  BY TokensDiffer
<1>3. \A u \in Tokens \ {t} : stage'[u] = stage[u]
  BY <1>1
<1> QED BY <1>1, <1>2, <1>3, TokensDiffer

----------------------------------------------------------------------------
(* One lemma per part of the request. *)

\* Headers, upload capacity and body.
LEMMA ReceivingPreserves ==
    ASSUME IInv, NEW r \in Requests, ParseRequest(r) \/ AdmitUpload(r) \/ UploadAnswered(r) \/ ReadBody(r) \/ BodyRefused(r)
    PROVE  IInv'
<1>1. CASE ParseRequest(r)
  <2>1. UNCHANGED admissionVars /\ AdmissionStep
    BY <1>1 DEF ParseRequest, AdmissionStep
  <2>2. UNCHANGED stage
    BY <2>1 DEF admissionVars
  <2>3. Frame(r) /\ RequestType'
    BY <1>1, <2>2 DEF IInv, ParseRequest, RequestType, Frame, Move, Respond, workVars, FutureSteps,
       Replies, WorkSteps, Results
  <2>4. PlaceInv(r)' /\ WorkInv(r)'
    BY <1>1, <2>2 DEF IInv, ParseRequest, RequestType, PlaceInv, WorkInv, Executing, Move, Respond,
       workVars, Settled, Active, Terminal
  <2> QED BY <2>1, <2>3, <2>4, FrameKeepsOthers
<1>2. CASE AdmitUpload(r)
  <2>1. Admission!Admit(Reader(r)) /\ AdmissionStep
    BY <1>2, TokensDiffer DEF AdmitUpload, AdmissionStep
  <2>2. PICK s \in Admission!Stages : stage' = [stage EXCEPT ![Reader(r)] = s]
    BY <2>1, StagesMoveAlone, TokensDiffer
  <2>3. /\ stage'[Permit(r)] = stage[Permit(r)]
        /\ \A q \in Requests \ {r} : /\ stage'[Reader(q)] = stage[Reader(q)]
                                     /\ stage'[Permit(q)] = stage[Permit(q)]
    BY <2>2, StagesAfter, TokensDiffer
  <2>4. Frame(r) /\ RequestType'
    BY <1>2, <2>3 DEF IInv, AdmitUpload, RequestType, Frame, Move, Respond, workVars, FutureSteps,
       Replies, WorkSteps, Results
  <2>5. PlaceInv(r)' /\ WorkInv(r)'
    BY <1>2, <2>2, <2>3 DEF IInv, AdmitUpload, RequestType, PlaceInv, WorkInv, Executing, Move, Respond,
       workVars, Settled, Active, Terminal
  <2> QED BY <2>1, <2>4, <2>5, FrameKeepsOthers
<1>3. CASE UploadAnswered(r)
  <2>1. UNCHANGED admissionVars /\ AdmissionStep
    BY <1>3 DEF UploadAnswered, AdmissionStep
  <2>2. UNCHANGED stage
    BY <2>1 DEF admissionVars
  <2>3. Frame(r) /\ RequestType'
    BY <1>3, <2>2 DEF IInv, UploadAnswered, RequestType, Frame, Move, Respond, workVars, FutureSteps,
       Replies, WorkSteps, Results
  <2>4. PlaceInv(r)' /\ WorkInv(r)'
    BY <1>3, <2>2, ZenonT(60) DEF IInv, UploadAnswered, RequestType, PlaceInv, WorkInv, Executing, Move, Respond,
       workVars, Settled, Active, Terminal
  <2> QED BY <2>1, <2>3, <2>4, FrameKeepsOthers
<1>4. CASE ReadBody(r)
  <2>1. UNCHANGED admissionVars /\ AdmissionStep
    BY <1>4 DEF ReadBody, AdmissionStep
  <2>2. UNCHANGED stage
    BY <2>1 DEF admissionVars
  <2>3. Frame(r) /\ RequestType'
    BY <1>4, <2>2 DEF IInv, ReadBody, RequestType, Frame, Move, Respond, workVars, FutureSteps,
       Replies, WorkSteps, Results
  <2>4. PlaceInv(r)' /\ WorkInv(r)'
    BY <1>4, <2>2 DEF IInv, ReadBody, RequestType, PlaceInv, WorkInv, Executing, Move, Respond,
       workVars, Settled, Active, Terminal
  <2> QED BY <2>1, <2>3, <2>4, FrameKeepsOthers
<1>5. CASE BodyRefused(r)
  <2>1. Admission!Release(Reader(r)) /\ AdmissionStep
    BY <1>5, TokensDiffer DEF BodyRefused, AdmissionStep
  <2>2. stage' = [stage EXCEPT ![Reader(r)] = "idle"] /\ stage[Reader(r)] = "held"
    BY <2>1, StagesMoveAlone, TokensDiffer
  <2>3. /\ stage'[Reader(r)] = "idle" /\ stage'[Permit(r)] = stage[Permit(r)]
        /\ \A q \in Requests \ {r} : /\ stage'[Reader(q)] = stage[Reader(q)]
                                     /\ stage'[Permit(q)] = stage[Permit(q)]
    BY <2>2, StagesAfter, TokensDiffer DEF Admission!Stages
  <2>4. Frame(r) /\ RequestType'
    BY <1>5, <2>3 DEF IInv, BodyRefused, RequestType, Frame, Move, Respond, workVars, FutureSteps,
       Replies, WorkSteps, Results
  <2>5. PlaceInv(r)' /\ WorkInv(r)'
    BY <1>5, <2>2, <2>3 DEF IInv, BodyRefused, RequestType, PlaceInv, WorkInv, Executing, Move, Respond,
       workVars, Settled, Active, Terminal
  <2> QED BY <2>1, <2>4, <2>5, FrameKeepsOthers
<1> QED BY <1>1, <1>2, <1>3, <1>4, <1>5

\* The body is read: HTTP capacity is asked for, and the reader dropped.
LEMMA AdmittingPreserves ==
    ASSUME IInv, NEW r \in Requests, InspectBody(r) \/ AdmitHttp(r) \/ HttpRefused(r) \/ DropReader(r)
    PROVE  IInv'
<1>1. CASE InspectBody(r) /\ Move(r, "admit") /\ UNCHANGED <<admissionVars, reply>>
  <2>1. UNCHANGED admissionVars /\ AdmissionStep
    BY <1>1 DEF InspectBody, AdmissionStep
  <2>2. UNCHANGED stage
    BY <2>1 DEF admissionVars
  <2>3. Frame(r) /\ RequestType'
    BY <1>1, <2>2 DEF IInv, InspectBody, RequestType, Frame, Move, Respond, workVars, FutureSteps,
       Replies, WorkSteps, Results
  <2>4. PlaceInv(r)' /\ WorkInv(r)'
    BY <1>1, <2>2 DEF IInv, InspectBody, RequestType, PlaceInv, WorkInv, Executing, Move, Respond,
       workVars, Settled, Active, Terminal
  <2> QED BY <2>1, <2>3, <2>4, FrameKeepsOthers
<1>2. CASE InspectBody(r) /\ Respond(r, "400") /\ Admission!Release(Reader(r))
  <2>1. Admission!Release(Reader(r)) /\ AdmissionStep
    BY <1>2, TokensDiffer DEF InspectBody, AdmissionStep
  <2>2. stage' = [stage EXCEPT ![Reader(r)] = "idle"] /\ stage[Reader(r)] = "held"
    BY <2>1, StagesMoveAlone, TokensDiffer
  <2>3. /\ stage'[Reader(r)] = "idle" /\ stage'[Permit(r)] = stage[Permit(r)]
        /\ \A q \in Requests \ {r} : /\ stage'[Reader(q)] = stage[Reader(q)]
                                     /\ stage'[Permit(q)] = stage[Permit(q)]
    BY <2>2, StagesAfter, TokensDiffer DEF Admission!Stages
  <2>4. Frame(r) /\ RequestType'
    BY <1>2, <2>3 DEF IInv, InspectBody, RequestType, Frame, Move, Respond, workVars, FutureSteps,
       Replies, WorkSteps, Results
  <2>5. PlaceInv(r)' /\ WorkInv(r)'
    BY <1>2, <2>2, <2>3 DEF IInv, InspectBody, RequestType, PlaceInv, WorkInv, Executing, Move, Respond,
       workVars, Settled, Active, Terminal
  <2> QED BY <2>1, <2>4, <2>5, FrameKeepsOthers
<1>3. CASE AdmitHttp(r)
  <2>1. Admission!Admit(Permit(r)) /\ AdmissionStep
    BY <1>3, TokensDiffer DEF AdmitHttp, AdmissionStep
  <2>2. PICK s \in Admission!Stages : stage' = [stage EXCEPT ![Permit(r)] = s]
    BY <2>1, StagesMoveAlone, TokensDiffer
  <2>3. /\ stage'[Reader(r)] = stage[Reader(r)]
        /\ \A q \in Requests \ {r} : /\ stage'[Reader(q)] = stage[Reader(q)]
                                     /\ stage'[Permit(q)] = stage[Permit(q)]
    BY <2>2, StagesAfter, TokensDiffer
  <2>4. Frame(r) /\ RequestType'
    BY <1>3, <2>3 DEF IInv, AdmitHttp, RequestType, Frame, Move, Respond, workVars, FutureSteps,
       Replies, WorkSteps, Results
  <2>5. PlaceInv(r)' /\ WorkInv(r)'
    BY <1>3, <2>2, <2>3 DEF IInv, AdmitHttp, RequestType, PlaceInv, WorkInv, Executing, Move, Respond,
       workVars, Settled, Active, Terminal
  <2> QED BY <2>1, <2>4, <2>5, FrameKeepsOthers
<1>4. CASE HttpRefused(r)
  <2>1. Admission!Release(Reader(r)) /\ AdmissionStep
    BY <1>4, TokensDiffer DEF HttpRefused, AdmissionStep
  <2>2. stage' = [stage EXCEPT ![Reader(r)] = "idle"] /\ stage[Reader(r)] = "held"
    BY <2>1, StagesMoveAlone, TokensDiffer
  <2>3. /\ stage'[Reader(r)] = "idle" /\ stage'[Permit(r)] = stage[Permit(r)]
        /\ \A q \in Requests \ {r} : /\ stage'[Reader(q)] = stage[Reader(q)]
                                     /\ stage'[Permit(q)] = stage[Permit(q)]
    BY <2>2, StagesAfter, TokensDiffer DEF Admission!Stages
  <2>4. Frame(r) /\ RequestType'
    BY <1>4, <2>3 DEF IInv, HttpRefused, RequestType, Frame, Move, Respond, workVars, FutureSteps,
       Replies, WorkSteps, Results
  <2>5. PlaceInv(r)' /\ WorkInv(r)'
    BY <1>4, <2>2, <2>3, ZenonT(60) DEF IInv, HttpRefused, RequestType, PlaceInv, WorkInv, Executing, Move, Respond,
       workVars, Settled, Active, Terminal
  <2> QED BY <2>1, <2>4, <2>5, FrameKeepsOthers
<1>5. CASE DropReader(r)
  <2>1. Admission!Release(Reader(r)) /\ AdmissionStep
    BY <1>5, TokensDiffer DEF DropReader, AdmissionStep
  <2>2. stage' = [stage EXCEPT ![Reader(r)] = "idle"] /\ stage[Reader(r)] = "held"
    BY <2>1, StagesMoveAlone, TokensDiffer
  <2>3. /\ stage'[Reader(r)] = "idle" /\ stage'[Permit(r)] = stage[Permit(r)]
        /\ \A q \in Requests \ {r} : /\ stage'[Reader(q)] = stage[Reader(q)]
                                     /\ stage'[Permit(q)] = stage[Permit(q)]
    BY <2>2, StagesAfter, TokensDiffer DEF Admission!Stages
  <2>4. Frame(r) /\ RequestType'
    BY <1>5, <2>3 DEF IInv, DropReader, RequestType, Frame, Move, Respond, workVars, FutureSteps,
       Replies, WorkSteps, Results
  <2>5. PlaceInv(r)' /\ WorkInv(r)'
    BY <1>5, <2>2, <2>3 DEF IInv, DropReader, RequestType, PlaceInv, WorkInv, Executing, Move, Respond,
       workVars, Settled, Active, Terminal
  <2> QED BY <2>1, <2>4, <2>5, FrameKeepsOthers
<1> QED BY <1>1, <1>2, <1>3, <1>4, <1>5 DEF InspectBody

\* The work is spawned and awaited; a deadline or a disconnect cancels it.
LEMMA AwaitingPreserves ==
    ASSUME IInv, NEW r \in Requests, Spawn(r) \/ JobFinished(r) \/ DeadlinePasses(r) \/ AnswerTimeout(r) \/ Disconnect(r) \/ DropGuard(r)
    PROVE  IInv'
<1>1. CASE Spawn(r)
  <2>1. UNCHANGED admissionVars /\ AdmissionStep
    BY <1>1 DEF Spawn, AdmissionStep
  <2>2. UNCHANGED stage
    BY <2>1 DEF admissionVars
  <2>3. Frame(r) /\ RequestType'
    BY <1>1, <2>2 DEF IInv, Spawn, RequestType, Frame, Move, Respond, workVars, FutureSteps,
       Replies, WorkSteps, Results,
       RequestCancellation, Acknowledge, Complete, Fail, Enqueue, Start, Refuses, States,
       Active, Terminal
  <2>4. PlaceInv(r)' /\ WorkInv(r)'
    BY <1>1, <2>2 DEF IInv, Spawn, RequestType, PlaceInv, WorkInv, Executing, Move, Respond,
       workVars, Settled,
       RequestCancellation, Acknowledge, Complete, Fail, Enqueue, Start, Refuses, States,
       Active, Terminal
  <2> QED BY <2>1, <2>3, <2>4, FrameKeepsOthers
<1>2. CASE JobFinished(r)
  <2>1. UNCHANGED admissionVars /\ AdmissionStep
    BY <1>2 DEF JobFinished, AdmissionStep
  <2>2. UNCHANGED stage
    BY <2>1 DEF admissionVars
  <2>3. result[r] \in {"ok", "error", "panic"} /\ future[r] = "await" /\ work[r] = "done"
    BY <1>2 DEF JobFinished, IInv, RequestType, Results, WorkInv
  <2>4. PICK x \in {"200", "work error", "503 worker"} :
          Respond(r, x) /\ (x = "200" => result[r] = "ok")
    BY <1>2, <2>3 DEF JobFinished
  <2>5. UNCHANGED <<work, result, control>>
    BY <1>2 DEF JobFinished, workVars
  <2>6. Frame(r) /\ RequestType'
    BY <2>2, <2>4, <2>5 DEF IInv, RequestType, Frame, Move, Respond, FutureSteps, Replies
  <2>7. PlaceInv(r)' /\ WorkInv(r)'
    BY <2>2, <2>3, <2>4, <2>5 DEF IInv, RequestType, PlaceInv, WorkInv, Executing, Move,
       Respond, Settled
  <2> QED BY <2>1, <2>6, <2>7, FrameKeepsOthers
<1>3. CASE DeadlinePasses(r)
  <2>1. UNCHANGED admissionVars /\ AdmissionStep
    BY <1>3 DEF DeadlinePasses, AdmissionStep
  <2>2. UNCHANGED stage
    BY <2>1 DEF admissionVars
  <2>3. Frame(r) /\ RequestType'
    BY <1>3, <2>2 DEF IInv, DeadlinePasses, RequestType, Frame, Move, Respond, workVars, FutureSteps,
       Replies, WorkSteps, Results,
       RequestCancellation, Acknowledge, Complete, Fail, Enqueue, Start, Refuses, States,
       Active, Terminal
  <2>4. PlaceInv(r)' /\ WorkInv(r)'
    BY <1>3, <2>2 DEF IInv, DeadlinePasses, RequestType, PlaceInv, WorkInv, Executing, Move, Respond,
       workVars, Settled,
       RequestCancellation, Acknowledge, Complete, Fail, Enqueue, Start, Refuses, States,
       Active, Terminal
  <2> QED BY <2>1, <2>3, <2>4, FrameKeepsOthers
<1>4. CASE AnswerTimeout(r)
  <2>1. UNCHANGED admissionVars /\ AdmissionStep
    BY <1>4 DEF AnswerTimeout, AdmissionStep
  <2>2. UNCHANGED stage
    BY <2>1 DEF admissionVars
  <2>3. Frame(r) /\ RequestType'
    BY <1>4, <2>2 DEF IInv, AnswerTimeout, RequestType, Frame, Move, Respond, workVars, FutureSteps,
       Replies, WorkSteps, Results,
       RequestCancellation, Acknowledge, Complete, Fail, Enqueue, Start, Refuses, States,
       Active, Terminal
  <2>4. PlaceInv(r)' /\ WorkInv(r)'
    BY <1>4, <2>2 DEF IInv, AnswerTimeout, RequestType, PlaceInv, WorkInv, Executing, Move, Respond,
       workVars, Settled,
       RequestCancellation, Acknowledge, Complete, Fail, Enqueue, Start, Refuses, States,
       Active, Terminal
  <2> QED BY <2>1, <2>3, <2>4, FrameKeepsOthers
<1>5. CASE Disconnect(r) /\ future[r] = "await" /\ UNCHANGED <<admissionVars, reply>>
  <2>1. UNCHANGED admissionVars /\ AdmissionStep
    BY <1>5 DEF Disconnect, AdmissionStep
  <2>2. UNCHANGED stage
    BY <2>1 DEF admissionVars
  <2>3. Frame(r) /\ RequestType'
    BY <1>5, <2>2 DEF IInv, Disconnect, RequestType, Frame, Move, Respond, workVars, FutureSteps,
       Replies, WorkSteps, Results,
       RequestCancellation, Acknowledge, Complete, Fail, Enqueue, Start, Refuses, States,
       Active, Terminal
  <2>4. PlaceInv(r)' /\ WorkInv(r)'
    BY <1>5, <2>2 DEF IInv, Disconnect, RequestType, PlaceInv, WorkInv, Executing, Move, Respond,
       workVars, Settled,
       RequestCancellation, Acknowledge, Complete, Fail, Enqueue, Start, Refuses, States,
       Active, Terminal
  <2> QED BY <2>1, <2>3, <2>4, FrameKeepsOthers
<1>6. CASE Disconnect(r) /\ future[r] = "body" /\ Admission!Release(Reader(r))
  <2>1. Admission!Release(Reader(r)) /\ AdmissionStep
    BY <1>6, TokensDiffer DEF Disconnect, AdmissionStep
  <2>2. stage' = [stage EXCEPT ![Reader(r)] = "idle"] /\ stage[Reader(r)] = "held"
    BY <2>1, StagesMoveAlone, TokensDiffer
  <2>3. /\ stage'[Reader(r)] = "idle" /\ stage'[Permit(r)] = stage[Permit(r)]
        /\ \A q \in Requests \ {r} : /\ stage'[Reader(q)] = stage[Reader(q)]
                                     /\ stage'[Permit(q)] = stage[Permit(q)]
    BY <2>2, StagesAfter, TokensDiffer DEF Admission!Stages
  <2>4. Frame(r) /\ RequestType'
    BY <1>6, <2>3, ZenonT(60) DEF IInv, Disconnect, RequestType, Frame, Move, Respond, workVars, FutureSteps,
       Replies, WorkSteps, Results,
       RequestCancellation, Acknowledge, Complete, Fail, Enqueue, Start, Refuses, States,
       Active, Terminal
  <2>5. PlaceInv(r)' /\ WorkInv(r)'
    BY <1>6, <2>2, <2>3 DEF IInv, Disconnect, RequestType, PlaceInv, WorkInv, Executing, Move, Respond,
       workVars, Settled,
       RequestCancellation, Acknowledge, Complete, Fail, Enqueue, Start, Refuses, States,
       Active, Terminal
  <2> QED BY <2>1, <2>4, <2>5, FrameKeepsOthers
<1>7. CASE DropGuard(r)
  <2>1. UNCHANGED admissionVars /\ AdmissionStep
    BY <1>7 DEF DropGuard, AdmissionStep
  <2>2. UNCHANGED stage
    BY <2>1 DEF admissionVars
  <2>3. Frame(r) /\ RequestType'
    BY <1>7, <2>2 DEF IInv, DropGuard, RequestType, Frame, Move, Respond, workVars, FutureSteps,
       Replies, WorkSteps, Results,
       RequestCancellation, Acknowledge, Complete, Fail, Enqueue, Start, Refuses, States,
       Active, Terminal
  <2>4. PlaceInv(r)' /\ WorkInv(r)'
    BY <1>7, <2>2 DEF IInv, DropGuard, RequestType, PlaceInv, WorkInv, Executing, Move, Respond,
       workVars, Settled,
       RequestCancellation, Acknowledge, Complete, Fail, Enqueue, Start, Refuses, States,
       Active, Terminal
  <2> QED BY <2>1, <2>3, <2>4, FrameKeepsOthers
<1> QED BY <1>1, <1>2, <1>3, <1>4, <1>5, <1>6, <1>7 DEF Disconnect

\* The blocking work, to the record of its end.
LEMMA WorkPreserves ==
    ASSUME IInv, NEW r \in Requests, WorkStarts(r) \/ CallStarts(r) \/ CallFails(r) \/ WorkEnds(r) \/ EndControl(r) \/ DropPermit(r) \/ Observe(r)
    PROVE  IInv'
<1>1. CASE WorkStarts(r)
  <2>1. UNCHANGED admissionVars /\ AdmissionStep
    BY <1>1 DEF WorkStarts, AdmissionStep
  <2>2. UNCHANGED stage
    BY <2>1 DEF admissionVars
  <2>3. Frame(r) /\ RequestType'
    BY <1>1, <2>2 DEF IInv, WorkStarts, RequestType, Frame, Move, Respond, workVars, FutureSteps,
       Replies, WorkSteps, Results,
       RequestCancellation, Acknowledge, Complete, Fail, Enqueue, Start, Refuses, States,
       Active, Terminal
  <2>4. PlaceInv(r)' /\ WorkInv(r)'
    BY <1>1, <2>2 DEF IInv, WorkStarts, RequestType, PlaceInv, WorkInv, Executing, Move, Respond,
       workVars, Settled,
       RequestCancellation, Acknowledge, Complete, Fail, Enqueue, Start, Refuses, States,
       Active, Terminal
  <2> QED BY <2>1, <2>3, <2>4, FrameKeepsOthers
<1>2. CASE CallStarts(r)
  <2>1. UNCHANGED admissionVars /\ AdmissionStep
    BY <1>2 DEF CallStarts, AdmissionStep
  <2>2. UNCHANGED stage
    BY <2>1 DEF admissionVars
  <2>3. Frame(r) /\ RequestType'
    BY <1>2, <2>2 DEF IInv, CallStarts, RequestType, Frame, Move, Respond, workVars, FutureSteps,
       Replies, WorkSteps, Results,
       RequestCancellation, Acknowledge, Complete, Fail, Enqueue, Start, Refuses, States,
       Active, Terminal
  <2>4. PlaceInv(r)' /\ WorkInv(r)'
    BY <1>2, <2>2 DEF IInv, CallStarts, RequestType, PlaceInv, WorkInv, Executing, Move, Respond,
       workVars, Settled,
       RequestCancellation, Acknowledge, Complete, Fail, Enqueue, Start, Refuses, States,
       Active, Terminal
  <2> QED BY <2>1, <2>3, <2>4, FrameKeepsOthers
<1>3. CASE CallFails(r)
  <2>1. UNCHANGED admissionVars /\ AdmissionStep
    BY <1>3 DEF CallFails, AdmissionStep
  <2>2. UNCHANGED <<stage, future, reply>>
    BY <1>3, <2>1 DEF admissionVars, CallFails
  <2>3. PICK x \in States : control' = [control EXCEPT ![r] = x] /\ x \notin Active
    <3>1. control[r] \in States
      BY DEF IInv, RequestType
    <3> QED BY <1>3, <3>1 DEF CallFails, Acknowledge, RequestCancellation, Fail, Refuses,
               Active, States
  <2>4. /\ work[r] = "running" /\ work' = [work EXCEPT ![r] = "owner"]
        /\ result' = [result EXCEPT ![r] = "error"]
    BY <1>3 DEF CallFails
  <2>5. Frame(r) /\ RequestType'
    BY <2>2, <2>3, <2>4 DEF IInv, RequestType, Frame, WorkSteps, Results
  <2>6. PlaceInv(r)' /\ WorkInv(r)'
    BY <2>2, <2>3, <2>4 DEF IInv, RequestType, PlaceInv, WorkInv, Executing
  <2> QED BY <2>1, <2>5, <2>6, FrameKeepsOthers
<1>4. CASE WorkEnds(r)
  <2>1. UNCHANGED admissionVars /\ AdmissionStep
    BY <1>4 DEF WorkEnds, AdmissionStep
  <2>2. UNCHANGED <<stage, future, reply, control>>
    BY <1>4, <2>1 DEF admissionVars, WorkEnds
  <2>3. PICK x \in {"ok", "error", "panic"} : result' = [result EXCEPT ![r] = x]
    BY <1>4 DEF WorkEnds
  <2>4. work[r] = "running" /\ work' = [work EXCEPT ![r] = "owner"]
    BY <1>4 DEF WorkEnds
  <2>5. Frame(r) /\ RequestType'
    BY <2>2, <2>3, <2>4 DEF IInv, RequestType, Frame, WorkSteps, Results
  <2>6. PlaceInv(r)' /\ WorkInv(r)'
    BY <2>2, <2>3, <2>4 DEF IInv, RequestType, PlaceInv, WorkInv, Executing
  <2> QED BY <2>1, <2>5, <2>6, FrameKeepsOthers
<1>5. CASE EndControl(r)
  <2>1. UNCHANGED admissionVars /\ AdmissionStep
    BY <1>5 DEF EndControl, AdmissionStep
  <2>2. UNCHANGED stage
    BY <2>1 DEF admissionVars
  <2>3. Frame(r) /\ RequestType'
    BY <1>5, <2>2, ZenonT(60) DEF IInv, EndControl, RequestType, Frame, Move, Respond, workVars, FutureSteps,
       Replies, WorkSteps, Results,
       RequestCancellation, Acknowledge, Complete, Fail, Enqueue, Start, Refuses, States,
       Active, Terminal
  <2>4. PlaceInv(r)' /\ WorkInv(r)'
    BY <1>5, <2>2 DEF IInv, EndControl, RequestType, PlaceInv, WorkInv, Executing, Move, Respond,
       workVars, Settled,
       RequestCancellation, Acknowledge, Complete, Fail, Enqueue, Start, Refuses, States,
       Active, Terminal
  <2> QED BY <2>1, <2>3, <2>4, FrameKeepsOthers
<1>6. CASE DropPermit(r)
  <2>1. Admission!Release(Permit(r)) /\ AdmissionStep
    BY <1>6, TokensDiffer DEF DropPermit, AdmissionStep
  <2>2. stage' = [stage EXCEPT ![Permit(r)] = "idle"] /\ stage[Permit(r)] = "held"
    BY <2>1, StagesMoveAlone, TokensDiffer
  <2>3. /\ stage'[Permit(r)] = "idle" /\ stage'[Reader(r)] = stage[Reader(r)]
        /\ \A q \in Requests \ {r} : /\ stage'[Reader(q)] = stage[Reader(q)]
                                     /\ stage'[Permit(q)] = stage[Permit(q)]
    BY <2>2, StagesAfter, TokensDiffer DEF Admission!Stages
  <2>4. Frame(r) /\ RequestType'
    BY <1>6, <2>3 DEF IInv, DropPermit, RequestType, Frame, Move, Respond, workVars, FutureSteps,
       Replies, WorkSteps, Results,
       RequestCancellation, Acknowledge, Complete, Fail, Enqueue, Start, Refuses, States,
       Active, Terminal
  <2>5. PlaceInv(r)' /\ WorkInv(r)'
    BY <1>6, <2>2, <2>3 DEF IInv, DropPermit, RequestType, PlaceInv, WorkInv, Executing, Move, Respond,
       workVars, Settled,
       RequestCancellation, Acknowledge, Complete, Fail, Enqueue, Start, Refuses, States,
       Active, Terminal
  <2> QED BY <2>1, <2>4, <2>5, FrameKeepsOthers
<1>7. CASE Observe(r)
  <2>1. UNCHANGED admissionVars /\ AdmissionStep
    BY <1>7 DEF Observe, AdmissionStep
  <2>2. UNCHANGED stage
    BY <2>1 DEF admissionVars
  <2>3. Frame(r) /\ RequestType'
    BY <1>7, <2>2 DEF IInv, Observe, RequestType, Frame, Move, Respond, workVars, FutureSteps,
       Replies, WorkSteps, Results,
       RequestCancellation, Acknowledge, Complete, Fail, Enqueue, Start, Refuses, States,
       Active, Terminal
  <2>4. PlaceInv(r)' /\ WorkInv(r)'
    BY <1>7, <2>2 DEF IInv, Observe, RequestType, PlaceInv, WorkInv, Executing, Move, Respond,
       workVars, Settled,
       RequestCancellation, Acknowledge, Complete, Fail, Enqueue, Start, Refuses, States,
       Active, Terminal
  <2> QED BY <2>1, <2>3, <2>4, FrameKeepsOthers
<1> QED BY <1>1, <1>2, <1>3, <1>4, <1>5, <1>6, <1>7

----------------------------------------------------------------------------
(* Theorems. *)

LEMMA InitEstablishes == Init => IInv
<1> SUFFICES ASSUME Init PROVE IInv
  OBVIOUS
<1>1. AdmissionProofs!IInv
  <2>1. Admission!Init => AdmissionProofs!Init
    BY DEF Admission!Init, AdmissionProofs!Init, Admission!Pools, AdmissionProofs!Pools
  <2> QED BY <2>1, TokensAreAdmissible, AdmissionProofs!InitEstablishes DEF Init
<1>2. RequestType
  BY DEF Init, RequestType, FutureSteps, Replies, WorkSteps, Results, States
<1>3. \A r \in Requests : PlaceInv(r) /\ WorkInv(r)
  <2>1. \A r \in Requests : stage[Reader(r)] = "idle" /\ stage[Permit(r)] = "idle"
    BY TokensDiffer DEF Init, Admission!Init
  <2> QED BY <2>1 DEF Init, PlaceInv, WorkInv, Executing
<1> QED BY <1>1, <1>2, <1>3 DEF IInv

THEOREM HttpBatchInvariant == Spec => []IInv
<1>1. Init => IInv
  BY InitEstablishes
<1>2. IInv /\ [Next]_vars => IInv'
  <2> SUFFICES ASSUME IInv, [Next]_vars PROVE IInv'
    OBVIOUS
  <2>1. CASE UNCHANGED vars
    <3>1. AdmissionProofs!IInv'
      BY <2>1, AdmissionStepPreserves DEF vars, AdmissionStep, IInv
    <3> QED BY <2>1, <3>1 DEF IInv, vars, admissionVars, workVars, RequestType, PlaceInv,
               WorkInv, Executing
  <2>2. CASE Drain
    <3>1. AdmissionStep /\ UNCHANGED stage
      BY <2>2 DEF Drain, AdmissionStep, Admission!BeginDraining, Admission!Close
    <3>2. AdmissionProofs!IInv'
      BY <3>1, AdmissionStepPreserves DEF IInv
    <3> QED BY <2>2, <3>1, <3>2 DEF Drain, IInv, workVars, RequestType, PlaceInv, WorkInv,
               Executing
  <2>3. ASSUME NEW r \in Requests,
               \/ Future(r) \/ Wrapper(r) \/ Closure(r) \/ ReadBody(r) \/ BodyRefused(r)
               \/ DeadlinePasses(r) \/ Disconnect(r)
        PROVE  IInv'
    BY <2>3, ReceivingPreserves, AdmittingPreserves, AwaitingPreserves, WorkPreserves
       DEF Future, Wrapper, Closure
  <2> QED BY <2>1, <2>2, <2>3 DEF Next
<1> QED BY <1>1, <1>2, PTL DEF Spec

\* Executing work is never more than the HTTP limit: each holds one permit.
LEMMA ExecutingIsBounded ==
    ASSUME IInv
    PROVE  Cardinality({r \in Requests : Executing(r)}) <= MaxHttp
<1> DEFINE running == {r \in Requests : Executing(r)}
           out == AdmissionProofs!OwnedPermits("http")
           permit == [r \in running |-> <<Permit(r), 1>>]
<1>1. "http" \in AdmissionProofs!Pools
  BY DEF AdmissionProofs!Pools
<1>2. /\ IsFiniteSet(out)
      /\ available["http"] + Cardinality(out) = MaxHttp
      /\ available["http"] \in Nat
  <2> DEFINE limit == [p \in {"http", "uploads", "ws"} |->
                         CASE p = "http" -> MaxHttp
                           [] p = "uploads" -> MaxUploads
                           [] OTHER -> 1]
  <2>1. limit["http"] = MaxHttp
    OBVIOUS
  <2> HIDE DEF limit
  <2>2. IsFiniteSet(out) /\ available["http"] + Cardinality(out) = limit["http"]
    <3>1. \A S : /\ AdmissionProofs!IsFiniteSet(S) <=> IsFiniteSet(S)
                 /\ AdmissionProofs!Cardinality(S) = Cardinality(S)
      BY DEF AdmissionProofs!IsFiniteSet, IsFiniteSet, AdmissionProofs!Cardinality, Cardinality
    <3> QED BY <1>1, <3>1 DEF IInv, AdmissionProofs!IInv, AdmissionProofs!PermitsInv, limit
  <2>3. available["http"] \in Nat
    BY <1>1 DEF IInv, AdmissionProofs!IInv, AdmissionProofs!TypeOK
  <2> QED BY <2>1, <2>2, <2>3
<1>3. \A r \in running : <<Permit(r), 1>> \in out
  <2> TAKE r \in running
  <2>1. Permit(r) \in AdmissionProofs!Owners("http")
    BY TokensDiffer DEF IInv, WorkInv, AdmissionProofs!Owners, AdmissionProofs!Owns, Permit
  <2>2. <<Permit(r), 1>> \in {Permit(r)} \X (1..[t \in Tokens |-> 1][Permit(r)])
    BY TokensDiffer
  <2> QED BY <2>1, <2>2 DEF AdmissionProofs!OwnedPermits
<1>4. permit \in Injection(running, out)
  <2>1. permit \in [running -> out]
    BY <1>3
  <2>2. \A q, r \in running : permit[q] = permit[r] => q = r
    BY DEF Permit
  <2> QED BY <2>1, <2>2 DEF Injection, IsInjective
<1>5. Cardinality(running) <= Cardinality(out) /\ IsFiniteSet(running)
  BY <1>2, <1>4, FS_Injection
<1>6. Cardinality(out) \in Nat /\ Cardinality(running) \in Nat
  BY <1>2, <1>5, FS_CardinalityType
<1> QED BY <1>2, <1>5, <1>6, LimitAssumption

\* Native work never outnumbers ASR_MAX_CONCURRENCY, and a permit comes back
\* only after the control is terminal, for any number of requests, through
\* deadlines, disconnects, panics and a drain (http.rs execute_admitted_work).
THEOREM PermitHeldHolds == Spec => []PermitHeldUntilTerminal
<1>1. IInv => PermitHeldUntilTerminal
  BY ExecutingIsBounded DEF IInv, WorkInv, PermitHeldUntilTerminal
<1> QED BY <1>1, HttpBatchInvariant, PTL

\* A client that was answered 200 has a completed control.
THEOREM SuccessMeansCompletedHolds == Spec => []SuccessMeansCompleted
<1>1. IInv => SuccessMeansCompleted
  BY DEF IInv, WorkInv, SuccessMeansCompleted
<1> QED BY <1>1, HttpBatchInvariant, PTL

\* A request that has ended holds no reader, no permit without work, and no
\* work that could still start a recognition call (http.rs drop guards).
THEOREM EndedLeavesNothingHolds == Spec => []EndedLeavesNothing
<1>1. IInv => EndedLeavesNothing
  BY DEF IInv, PlaceInv, WorkInv, EndedLeavesNothing, Settled, Executing, RequestType,
         WorkSteps
<1> QED BY <1>1, HttpBatchInvariant, PTL

----------------------------------------------------------------------------
(* What a request is made of: admission's steps, and the control's. *)

LEMMA StepIsAdmissionStep ==
    ASSUME [Next]_vars
    PROVE  AdmissionStep
<1>1. CASE UNCHANGED vars \/ Drain
  BY <1>1 DEF vars, Drain, AdmissionStep
<1>2. ASSUME NEW r \in Requests,
             \/ Future(r) \/ Wrapper(r) \/ Closure(r) \/ ReadBody(r) \/ BodyRefused(r)
             \/ DeadlinePasses(r) \/ Disconnect(r)
      PROVE  AdmissionStep
  <2>1. CASE UNCHANGED admissionVars
    BY <2>1 DEF AdmissionStep
  <2>2. CASE Admission!Admit(Reader(r)) \/ Admission!Admit(Permit(r))
             \/ Admission!Release(Reader(r)) \/ Admission!Release(Permit(r))
    BY <2>2, TokensDiffer DEF AdmissionStep
  <2>3. \/ UNCHANGED admissionVars
        \/ Admission!Admit(Reader(r)) \/ Admission!Admit(Permit(r))
        \/ Admission!Release(Reader(r)) \/ Admission!Release(Permit(r))
    BY <1>2 DEF Future, ParseRequest, AdmitUpload, UploadAnswered, InspectBody, AdmitHttp,
           HttpRefused, DropReader, Spawn, JobFinished, AnswerTimeout, DropGuard, Wrapper, Closure,
           WorkStarts, CallFails, WorkEnds, EndControl, DropPermit, Observe, CallStarts,
           ReadBody, BodyRefused, DeadlinePasses, Disconnect
  <2> QED BY <2>1, <2>2, <2>3
<1> QED BY <1>1, <1>2 DEF Next

\* Futures, deadlines, disconnects and blocking work together move phase, pools
\* and permits only as admission's own protocol does: a permit that travels
\* from the future into the work is still given back once, by one of them, and
\* what Admission_proofs shows of every client holds of these (http.rs
\* upload_transcribe, transcribe_inner, execute_admitted_work).
THEOREM HttpBatchImplementsAdmission == Spec => Admission!Spec
<1>1. Init => Admission!Init
  BY DEF Init
<1>2. [Next]_vars => [Admission!Next]_(Admission!vars)
  <2>1. AdmissionStep => [Admission!Next]_(Admission!vars)
    BY DEF AdmissionStep, admissionVars, Admission!Next, Admission!vars, Admission!Shutdown
  <2> QED BY <2>1, StepIsAdmissionStep
<1> QED BY <1>1, <1>2, PTL DEF Spec, Admission!Spec

Lifecycle == INSTANCE ControlLifecycle WITH Controls <- Requests

\* Every operation, and two of them in one step, lead forward.
LEMMA OperationsLeadForward ==
    ASSUME NEW s \in States
    PROVE  /\ Lifecycle!Forward(s, s)
           /\ Lifecycle!Forward(s, RequestCancellation(s))
           /\ Lifecycle!Forward(s, Acknowledge(RequestCancellation(s)))
           /\ Lifecycle!Forward(s, Complete(s)) /\ Lifecycle!Forward(s, Fail(s))
           /\ ~Refuses(s) => Lifecycle!Forward(s, Start(Enqueue(s)))
BY DEF States, Lifecycle!Forward, RequestCancellation, Acknowledge, Complete, Fail, Refuses,
       Enqueue, Start, Active

\* The deadline, the guard of a dropped future, the scheduled calls and the
\* owner race for one control, and none of them ever moves it back or out of
\* its final state (http.rs RequestCancellationGuard, execution.rs).
THEOREM ControlsOnlyMoveForward == Spec => Lifecycle!OnlyForward
<1>1. IInv /\ [Next]_vars
        => [\A c \in Requests : Lifecycle!Forward(control[c], control'[c])]_control
  <2> SUFFICES ASSUME IInv, [Next]_vars, NEW q \in Requests
               PROVE  Lifecycle!Forward(control[q], control'[q])
    OBVIOUS
  <2>1. control \in [Requests -> States] /\ control[q] \in States
    BY DEF IInv, RequestType
  <2>2. CASE UNCHANGED control
    BY <2>1, <2>2, OperationsLeadForward
  <2>3. ASSUME NEW r \in Requests, NEW s \in States, control' = [control EXCEPT ![r] = s],
               Lifecycle!Forward(control[r], s)
        PROVE  Lifecycle!Forward(control[q], control'[q])
    <3>1. control'[q] = IF q = r THEN s ELSE control[q]
      BY <2>1, <2>3
    <3> QED BY <2>1, <2>3, <3>1, OperationsLeadForward
  <2>4. ASSUME NEW r \in Requests, Future(r) \/ DeadlinePasses(r) \/ Disconnect(r)
                                  \/ ReadBody(r) \/ BodyRefused(r)
        PROVE  UNCHANGED control
               \/ control' = [control EXCEPT ![r] = RequestCancellation(@)]
    BY <2>4 DEF Future, ParseRequest, AdmitUpload, UploadAnswered, InspectBody, AdmitHttp,
           HttpRefused, DropReader, Spawn, JobFinished, AnswerTimeout, DropGuard, ReadBody,
           BodyRefused, DeadlinePasses, Disconnect, workVars
  <2>5. ASSUME NEW r \in Requests, Wrapper(r) \/ Closure(r)
        PROVE  \E s \in States : /\ UNCHANGED control \/ control' = [control EXCEPT ![r] = s]
                                 /\ Lifecycle!Forward(control[r], s)
    <3>1. control[r] \in States
      BY <2>1
    <3>2. \/ UNCHANGED control
          \/ control' = [control EXCEPT ![r] = Start(Enqueue(control[r]))] /\ ~Refuses(control[r])
          \/ control' = [control EXCEPT ![r] = Acknowledge(RequestCancellation(control[r]))]
          \/ control' = [control EXCEPT ![r] = Fail(control[r])]
          \/ control' = [control EXCEPT ![r] = Complete(control[r])]
          \/ control' = [control EXCEPT ![r] = control[r]]
      <4>1. CASE CallStarts(r)
        BY <4>1 DEF CallStarts
      <4>2. CASE CallFails(r)
        BY <4>2 DEF CallFails
      <4>3. CASE EndControl(r)
        BY <4>3 DEF EndControl
      <4>4. CASE WorkStarts(r) \/ WorkEnds(r) \/ DropPermit(r) \/ Observe(r)
        BY <4>4 DEF WorkStarts, WorkEnds, DropPermit, Observe
      <4> QED BY <2>5, <4>1, <4>2, <4>3, <4>4 DEF Wrapper, Closure
    <3>3. \A s \in States : /\ RequestCancellation(s) \in States /\ Acknowledge(s) \in States
                            /\ Complete(s) \in States /\ Fail(s) \in States
                            /\ Enqueue(s) \in States /\ Start(s) \in States
      BY DEF States, RequestCancellation, Acknowledge, Complete, Fail, Enqueue, Start
    <3>4. CASE UNCHANGED control
      BY <3>1, <3>4, OperationsLeadForward
    <3>5. CASE control' = [control EXCEPT ![r] = Start(Enqueue(control[r]))] /\ ~Refuses(control[r])
      BY <3>1, <3>3, <3>5, OperationsLeadForward
    <3>6. CASE \/ control' = [control EXCEPT ![r] = Acknowledge(RequestCancellation(control[r]))]
               \/ control' = [control EXCEPT ![r] = Fail(control[r])]
      BY <3>1, <3>3, <3>6, OperationsLeadForward
    <3>7. CASE \/ control' = [control EXCEPT ![r] = Complete(control[r])]
               \/ control' = [control EXCEPT ![r] = control[r]]
      BY <3>1, <3>3, <3>7, OperationsLeadForward
    <3> QED BY <3>2, <3>4, <3>5, <3>6, <3>7
  <2>6. CASE UNCHANGED vars \/ Drain
    BY <2>2, <2>6 DEF vars, workVars, Drain
  <2>7. ASSUME NEW r \in Requests, Future(r) \/ DeadlinePasses(r) \/ Disconnect(r)
                                  \/ ReadBody(r) \/ BodyRefused(r)
        PROVE  Lifecycle!Forward(control[q], control'[q])
    <3>1. control[r] \in States /\ RequestCancellation(control[r]) \in States
      BY <2>1 DEF RequestCancellation, States
    <3> QED BY <2>2, <2>3, <2>4, <2>7, <3>1, OperationsLeadForward
  <2>8. ASSUME NEW r \in Requests, Wrapper(r) \/ Closure(r)
        PROVE  Lifecycle!Forward(control[q], control'[q])
    BY <2>2, <2>3, <2>5, <2>8
  <2> QED BY <2>6, <2>7, <2>8 DEF Next
<1>2. Spec => [][\A c \in Requests : Lifecycle!Forward(control[c], control'[c])]_control
  BY <1>1, HttpBatchInvariant, PTL DEF Spec
<1> QED BY <1>2 DEF Lifecycle!OnlyForward
=============================================================================
