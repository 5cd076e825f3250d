------------------------------- MODULE ControlCas -------------------------------
(***************************************************************************)
(* The compare-and-swap loops of execution.rs, one control shared by       *)
(* Threads.  A thread loads the byte, decides on what it saw, and either   *)
(* returns or tries to swap; a lost race loads again.  complete and fail   *)
(* that find a requested cancellation become acknowledge_cancellation,     *)
(* which has a loop of its own.                                            *)
(***************************************************************************)
EXTENDS ExecutionControl

CONSTANTS Threads, TheControl

VARIABLES state,      \* the AtomicU8
          pc,         \* [Threads -> {"idle", "load", "decide", "swap"}]
          op,         \* the operation a thread is executing
          observed,   \* what its last load returned
          verdicts    \* history: the states that operations have returned

loopVars == <<state, pc, op, observed, verdicts>>

\* The state each operation tries to leave the byte in.
Target == [request |-> "CancelRequested", acknowledge |-> "Cancelled",
           complete |-> "Completed", fail |-> "Failed",
           enqueue |-> "Queued", start |-> "Running"]

Ops == DOMAIN Target

\* The states it swaps from.
SwapsFrom == [request |-> Active, acknowledge |-> {"CancelRequested"},
              complete |-> Active, fail |-> Active,
              enqueue |-> {"Ready"}, start |-> {"Ready", "Queued"}]

Delegates(o, s) == o \in {"complete", "fail"} /\ s = "CancelRequested"

\* enqueue and start answer Ok or Err; the others return a state.
ReturnsState(o) == o \notin {"enqueue", "start"}

LoopTypeOK ==
    /\ state \in States
    /\ pc \in [Threads -> {"idle", "load", "decide", "swap"}]
    /\ op \in [Threads -> Ops]
    /\ observed \in [Threads -> States]
    /\ verdicts \subseteq States

LoopInit ==
    /\ state = "Ready"
    /\ pc = [t \in Threads |-> "idle"]
    /\ op = [t \in Threads |-> "request"]
    /\ observed = [t \in Threads |-> "Ready"]
    /\ verdicts = {}

ReturnOutcome(t, s) ==
    /\ pc' = [pc EXCEPT ![t] = "idle"]
    /\ verdicts' = IF ReturnsState(op[t]) THEN verdicts \cup {s} ELSE verdicts

Invoke(t) ==
    /\ pc[t] = "idle"
    /\ \E o \in Ops : op' = [op EXCEPT ![t] = o]
    /\ pc' = [pc EXCEPT ![t] = "load"]
    /\ UNCHANGED <<state, observed, verdicts>>

Load(t) ==
    /\ pc[t] = "load"
    /\ observed' = [observed EXCEPT ![t] = state]
    /\ pc' = [pc EXCEPT ![t] = "decide"]
    /\ UNCHANGED <<state, op, verdicts>>

\* The match on the observed state: swap, become an acknowledgement, or
\* return what was seen.
Decide(t) ==
    /\ pc[t] = "decide"
    /\ \/ /\ observed[t] \in SwapsFrom[op[t]]
          /\ pc' = [pc EXCEPT ![t] = "swap"]
          /\ UNCHANGED <<op, verdicts>>
       \/ /\ Delegates(op[t], observed[t])
          /\ op' = [op EXCEPT ![t] = "acknowledge"]
          /\ pc' = [pc EXCEPT ![t] = "load"]
          /\ UNCHANGED verdicts
       \/ /\ observed[t] \notin SwapsFrom[op[t]]
          /\ ~Delegates(op[t], observed[t])
          /\ ReturnOutcome(t, observed[t])
          /\ UNCHANGED op
    /\ UNCHANGED <<state, observed>>

\* Mutated form of Swap: a plain store.
StoreBlindly(t) ==
    /\ pc[t] = "swap"
    /\ state' = Target[op[t]]
    /\ ReturnOutcome(t, Target[op[t]])
    /\ UNCHANGED <<op, observed>>

\* compare_exchange: succeeds and returns, or fails and loops.
Swap(t) ==
    /\ pc[t] = "swap"
    /\ \/ /\ state = observed[t]
          /\ state' = Target[op[t]]
          /\ ReturnOutcome(t, Target[op[t]])
       \/ /\ state # observed[t]
          /\ pc' = [pc EXCEPT ![t] = "load"]
          /\ UNCHANGED <<state, verdicts>>
    /\ UNCHANGED <<op, observed>>

LoopNext == \E t \in Threads : Invoke(t) \/ Load(t) \/ Decide(t) \/ Swap(t)

LoopSpec == LoopInit /\ [][LoopNext]_loopVars

Atomic == INSTANCE ControlLifecycle
            WITH Controls <- {TheControl}, control <- [c \in {TheControl} |-> state]

\* The loops implement the atomic operations: however loads and swaps of
\* several threads interleave, the byte changes as ControlLifecycle allows
\* (execution.rs, every loop).
ImplementsAtomicControl == Atomic!Spec

\* At most one outcome is ever reported for a request, and a caller that was
\* told "cancellation requested" never sees another one told "completed" or
\* "failed" (execution.rs request_cancellation, complete, fail).
OneOutcome ==
    /\ \A s, u \in verdicts \cap Terminal : s = u
    /\ "CancelRequested" \in verdicts =>
          verdicts \cap {"Completed", "Failed"} = {}

\* Everything proved of the control's returns rests on this: a reported
\* outcome is the outcome.
ReportedIsFinal ==
    /\ \A s \in verdicts \cap Terminal : state = s
    /\ "CancelRequested" \in verdicts => state \in CancelWon
=============================================================================
