---------------------------- MODULE ExecutionControl ----------------------------
(***************************************************************************)
(* The request-owned execution control: one atomic byte whose value is one *)
(* of seven lifecycle states, and the operations every owner of a clone    *)
(* may call.  An operation is written as what it leaves in the byte, given *)
(* what it finds there; a refusing operation has a predicate of its own.   *)
(* Each operation of the source is a compare-and-swap loop: the module     *)
(* ControlCas shows that the loops behave like the operators below.        *)
(***************************************************************************)

States == {"Ready", "Queued", "Running", "CancelRequested",
           "Completed", "Failed", "Cancelled"}

Active       == {"Ready", "Queued", "Running"}
CancelWon    == {"CancelRequested", "Cancelled"}
Terminal     == {"Completed", "Failed", "Cancelled"}

RequestCancellation(s) == IF s \in Active THEN "CancelRequested" ELSE s

Acknowledge(s) == IF s = "CancelRequested" THEN "Cancelled" ELSE s

\* A pending cancellation is acknowledged instead of the success or failure.
Complete(s) == IF s \in Active THEN "Completed" ELSE Acknowledge(s)

Fail(s) == IF s \in Active THEN "Failed" ELSE Acknowledge(s)

\* enqueue and start refuse a cancelled or terminal control.
Refuses(s) == s \notin Active

Enqueue(s) == IF s = "Ready" THEN "Queued" ELSE s

Start(s) == IF s \in {"Ready", "Queued"} THEN "Running" ELSE s
=============================================================================
