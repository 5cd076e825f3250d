-------------------------------- MODULE Admission --------------------------------
(***************************************************************************)
(* Service admission (service/src/admission.rs): one lifecycle phase, three*)
(* semaphores, and the two-read protocol by which an admission acquires    *)
(* capacity and then commits.  A token is one admission attempt: an upload *)
(* reader, an HTTP request's work, or a WebSocket session that needs one   *)
(* permit for each source channel, all or none.                            *)
(*                                                                         *)
(* A step is one operation on shared state: a read of the phase, a         *)
(* try_acquire, a permit drop, a close.  tokio's semaphore is external: a  *)
(* closed one refuses acquisition and still takes permits back.            *)
(***************************************************************************)
EXTENDS Naturals, FiniteSets

CONSTANTS Tokens,
          PoolOf,    \* [Tokens -> Pools]
          Weight,    \* [Tokens -> permits it needs]
          Capacity   \* [Pools -> permits]

Pools == {"http", "uploads", "ws"}

ASSUME TokenAssumption ==
    /\ PoolOf \in [Tokens -> Pools]
    /\ Weight \in [Tokens -> Nat \ {0}]
    /\ Capacity \in [Pools -> Nat \ {0}]

VARIABLES
    phase,      \* AdmissionPhase in the watch channel
    closed,     \* [Pools -> BOOLEAN]
    available,  \* [Pools -> Nat], available_permits()
    stage,      \* [Tokens -> where the admission attempt is]
    drainer,    \* begin_draining: the next semaphore to close
    waiter      \* wait_for_ws_drain

vars == <<phase, closed, available, stage, drainer, waiter>>
life == <<phase, closed, drainer, waiter>>

(***************************************************************************)
(* The two failures of try_acquire are one Err(_) in the code; the model   *)
(* remembers which it was ("full", "shut") for OverloadMeansFull only.     *)
(***************************************************************************)
Stages == {"idle", "acquire", "full", "shut", "commit", "surrender", "held",
           "overloaded", "draining"}

Owns(t) == stage[t] \in {"commit", "surrender", "held"}

TypeOK ==
    /\ phase \in {"Running", "Draining"}
    /\ closed \in [Pools -> BOOLEAN]
    /\ available \in [Pools -> Nat]
    /\ stage \in [Tokens -> Stages]
    /\ drainer \in {"idle", "http", "uploads", "ws", "done"}
    /\ waiter \in {"idle", "poll", "asleep", "drained", "timedOut"}

Init ==
    /\ phase = "Running"
    /\ closed = [p \in Pools |-> FALSE]
    /\ available = Capacity
    /\ stage = [t \in Tokens |-> "idle"]
    /\ drainer = "idle"
    /\ waiter = "idle"

Goto(t, s) == stage' = [stage EXCEPT ![t] = s]

----------------------------------------------------------------------------
(* One admission: admit_upload, admit_http or admit_ws. *)

\* The first read of the phase.
ReadPhase(t) ==
    /\ stage[t] = "idle"
    /\ Goto(t, IF phase = "Running" THEN "acquire" ELSE "draining")
    /\ UNCHANGED <<life, available>>

\* Mutated form of TryAcquire: one permit, whatever the channel count.
AcquireOne(t) ==
    LET p == PoolOf[t] IN
    /\ stage[t] = "acquire"
    /\ ~closed[p] /\ available[p] > 0
    /\ available' = [available EXCEPT ![p] = @ - 1]
    /\ Goto(t, "commit")
    /\ UNCHANGED life

\* try_acquire_many_owned: every permit or none.
TryAcquire(t) ==
    LET p == PoolOf[t] IN
    /\ stage[t] = "acquire"
    /\ IF ~closed[p] /\ available[p] >= Weight[t]
         THEN /\ available' = [available EXCEPT ![p] = @ - Weight[t]]
              /\ Goto(t, "commit")
         ELSE /\ Goto(t, IF closed[p] THEN "shut" ELSE "full")
              /\ UNCHANGED available
    /\ UNCHANGED life

\* refusal_after_capacity_failure: a later read of the phase decides which.
ClassifyRefusal(t) ==
    /\ stage[t] \in {"full", "shut"}
    /\ Goto(t, IF phase = "Running" THEN "overloaded" ELSE "draining")
    /\ UNCHANGED <<life, available>>

\* Mutated form of Commit: no second read.
CommitUnread(t) ==
    /\ stage[t] = "commit"
    /\ Goto(t, "held")
    /\ UNCHANGED <<life, available>>

\* The second read of the phase, while the permit is owned.
Commit(t) ==
    /\ stage[t] = "commit"
    /\ Goto(t, IF phase = "Running" THEN "held" ELSE "surrender")
    /\ UNCHANGED <<life, available>>

GiveBack(t) == available' = [available EXCEPT ![PoolOf[t]] = @ + Weight[t]]

\* The refused admission drops its permit.
Surrender(t) ==
    /\ stage[t] = "surrender"
    /\ GiveBack(t)
    /\ Goto(t, "draining")
    /\ UNCHANGED life

\* The owner of a committed admission drops it.
Release(t) ==
    /\ stage[t] = "held"
    /\ GiveBack(t)
    /\ Goto(t, "idle")
    /\ UNCHANGED life

\* A refused client may come again.
Retry(t) ==
    /\ stage[t] \in {"overloaded", "draining"}
    /\ Goto(t, "idle")
    /\ UNCHANGED <<life, available>>

\* The steps inside one admit call.
Admit(t) == ReadPhase(t) \/ TryAcquire(t) \/ ClassifyRefusal(t)
            \/ Commit(t) \/ Surrender(t)

----------------------------------------------------------------------------
(* Shutdown: begin_draining, then wait_for_ws_drain. *)

\* Mutated form of BeginDraining: the semaphores close before the phase changes.
CloseAllFirst ==
    /\ drainer = "idle"
    /\ closed' = [p \in Pools |-> TRUE]
    /\ drainer' = "done"
    /\ UNCHANGED <<phase, available, stage, waiter>>

\* The phase changes first: everything after it is refused as draining.
BeginDraining ==
    /\ drainer = "idle"
    /\ phase' = "Draining"
    /\ drainer' = "http"
    /\ UNCHANGED <<closed, available, stage, waiter>>

AfterClosing(p) == CASE p = "http" -> "uploads"
                     [] p = "uploads" -> "ws"
                     [] p = "ws" -> "done"

Close ==
    /\ drainer \in Pools
    /\ closed' = [closed EXCEPT ![drainer] = TRUE]
    /\ drainer' = AfterClosing(drainer)
    /\ UNCHANGED <<phase, available, stage, waiter>>

StartWaiting ==
    /\ drainer = "done" /\ waiter = "idle"
    /\ waiter' = "poll"
    /\ UNCHANGED <<phase, closed, available, stage, drainer>>

\* Returned permits, not a session counter, are the truth about draining.
Poll ==
    /\ waiter = "poll"
    /\ waiter' = IF available["ws"] = Capacity["ws"] THEN "drained" ELSE "asleep"
    /\ UNCHANGED <<phase, closed, available, stage, drainer>>

\* Mutated form of AfterSleep: the wait has no deadline.
SleepAgain ==
    /\ waiter = "asleep"
    /\ waiter' = "poll"
    /\ UNCHANGED <<phase, closed, available, stage, drainer>>

\* The 10 second deadline has passed, or another 50 ms sleep is over.
AfterSleep ==
    /\ waiter = "asleep"
    /\ waiter' \in {"poll", "timedOut"}
    /\ UNCHANGED <<phase, closed, available, stage, drainer>>

Shutdown == Close \/ StartWaiting \/ Poll \/ AfterSleep

----------------------------------------------------------------------------

Next == \/ \E t \in Tokens : Admit(t) \/ Release(t) \/ Retry(t)
        \/ BeginDraining \/ Shutdown

Spec == Init /\ [][Next]_vars

----------------------------------------------------------------------------
(* Properties. *)

Owners(p) == {t \in Tokens : PoolOf[t] = p /\ Owns(t)}

\* The permits that are out, one by one.
OwnedPermits(p) == UNION {{t} \X (1..Weight[t]) : t \in Owners(p)}

\* No interleaving of commits, drain races and drops loses or invents a
\* permit (admission.rs: Pending*Admission::commit and the owners' drops).
PermitsConserved ==
    \A p \in Pools :
        available[p] + Cardinality(OwnedPermits(p)) = Capacity[p]

\* After wait_for_ws_drain has reported Drained no session owns a permit, and
\* none ever will (the semaphore is closed before the first poll).
DrainedIsFinal ==
    waiter = "drained" => \A t \in Tokens : PoolOf[t] = "ws" => ~Owns(t)
=============================================================================
