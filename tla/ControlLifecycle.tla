---------------------------- MODULE ControlLifecycle ----------------------------
(***************************************************************************)
(* What an execution control promises, whoever holds its clones and in     *)
(* whatever order they call it: every step applies one operation to one    *)
(* control.  The scheduler and the compare-and-swap loops are shown to     *)
(* implement this specification; a batch request, one step of which may    *)
(* take two operations, keeps its OnlyForward.                             *)
(***************************************************************************)
EXTENDS ExecutionControl

CONSTANT Controls

VARIABLE control

Operations(s) == {RequestCancellation(s), Acknowledge(s), Complete(s), Fail(s)}
                 \cup (IF Refuses(s) THEN {} ELSE {Enqueue(s), Start(s)})

TypeOK == control \in [Controls -> States]

Init == control = [c \in Controls |-> "Ready"]

Step(c) == \E s \in Operations(control[c]) :
              control' = [control EXCEPT ![c] = s]

Next == \E c \in Controls : Step(c)

Spec == Init /\ [][Next]_control

\* u may be seen after s.
Forward(s, u) ==
    \/ u = s
    \/ s = "Ready"
    \/ s = "Queued"          /\ u # "Ready"
    \/ s = "Running"         /\ u \notin {"Ready", "Queued"}
    \/ s = "CancelRequested" /\ u = "Cancelled"

\* A control only moves forward: a terminal state is final, a requested
\* cancellation can only be acknowledged, and a running request never looks
\* queued again (execution.rs: every compare_exchange).
OnlyForward == [][\A c \in Controls : Forward(control[c], control'[c])]_control
=============================================================================
