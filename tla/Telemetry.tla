-------------------------------- MODULE Telemetry --------------------------------
(***************************************************************************)
(* The detached telemetry pipeline (service/src/telemetry.rs): producers   *)
(* on request threads offer records without blocking, a writer thread      *)
(* writes them, and after the first failed write it closes the pipeline    *)
(* for good.  Every counter is a SeqCst atomic, and a step is one access   *)
(* to one of them or one channel operation.                                *)
(*                                                                         *)
(* Records are indistinguishable, so the channel is its length.  What is   *)
(* at stake is the accounting: checked counters panic on an underflow, and *)
(* the published drop counts must add up.                                  *)
(***************************************************************************)
EXTENDS Naturals, FiniteSets

CONSTANTS Producers, MaxHttp, MaxWs,
          MaxOffers   \* bounds the number of offers made, in Next only

ASSUME LimitAssumption == MaxHttp \in Nat \ {0} /\ MaxWs \in Nat \ {0}

\* capacity_for, without its overflow refusals.
Capacity == MaxHttp + 3 * MaxWs

VARIABLES
    closed, active, queued, undelivered, entered, remaining, delivered,
    queueFull, sinkClosed, terminalClaimed,   \* TelemetryState
    channel,     \* records in the mpsc channel
    pc,          \* [Producers -> where offer_with is]
    wpc,         \* where the writer is
    claimed      \* the writer's local

counters == <<entered, remaining, delivered, queueFull, sinkClosed>>
writer   == <<wpc, claimed, terminalClaimed>>
vars     == <<closed, active, queued, undelivered, counters, channel, pc, writer>>

ProducerSteps == {"idle", "entered", "counted", "enter", "recheck", "reserve",
                  "transfer", "transferred", "send", "leave",
                  "closedOutside", "sinkOutside", "closedInside", "sinkInside",
                  "full", "fullCount"}

WriterSteps == {"receive", "release", "write", "deliver", "deliverCount",
                "close", "spin", "swap", "claim", "count", "clear", "drop",
                "exited"}

TypeOK ==
    /\ closed \in BOOLEAN
    /\ active \in Nat /\ queued \in Nat /\ undelivered \in Nat
    /\ entered \in Nat /\ remaining \in Nat /\ delivered \in Nat
    /\ queueFull \in Nat /\ sinkClosed \in Nat /\ terminalClaimed \in Nat
    /\ channel \in Nat
    /\ pc \in [Producers -> ProducerSteps]
    /\ wpc \in WriterSteps
    /\ claimed \in Nat

Init ==
    /\ closed = FALSE
    /\ active = 0 /\ queued = 0 /\ undelivered = 0
    /\ entered = 0 /\ remaining = 0 /\ delivered = 0
    /\ queueFull = 0 /\ sinkClosed = 0 /\ terminalClaimed = 0
    /\ channel = 0
    /\ pc = [p \in Producers |-> "idle"]
    /\ wpc = "receive"
    /\ claimed = 0

Goto(p, from, to) == pc[p] = from /\ pc' = [pc EXCEPT ![p] = to]

----------------------------------------------------------------------------
(* A producer inside offer_with. *)

Enter(p) ==
    /\ Goto(p, "idle", "entered")
    /\ entered' = entered + 1
    /\ UNCHANGED <<closed, active, queued, undelivered, remaining, delivered,
                   queueFull, sinkClosed, channel, writer>>

Count(p) ==
    /\ Goto(p, "entered", "counted")
    /\ remaining' = remaining + 1
    /\ UNCHANGED <<closed, active, queued, undelivered, entered, delivered,
                   queueFull, sinkClosed, channel, writer>>

ReadClosed(p) ==
    /\ Goto(p, "counted", IF closed THEN "closedOutside" ELSE "enter")
    /\ UNCHANGED <<closed, active, queued, undelivered, counters, channel, writer>>

EnterActive(p) ==
    /\ Goto(p, "enter", "recheck")
    /\ active' = active + 1
    /\ UNCHANGED <<closed, queued, undelivered, counters, channel, writer>>

\* Closed is read again inside the active window that the writer waits for.
RecheckClosed(p) ==
    /\ Goto(p, "recheck", IF closed THEN "closedInside" ELSE "reserve")
    /\ UNCHANGED <<closed, active, queued, undelivered, counters, channel, writer>>

\* reserve_slot: a full queue drops the newest record.
Reserve(p) ==
    /\ IF queued < Capacity
         THEN Goto(p, "reserve", "transfer") /\ queued' = queued + 1
         ELSE Goto(p, "reserve", "full") /\ UNCHANGED queued
    /\ UNCHANGED <<closed, active, undelivered, counters, channel, writer>>

\* Ownership moves from remaining to undelivered: first the increment.
Transfer(p) ==
    /\ Goto(p, "transfer", "transferred")
    /\ undelivered' = undelivered + 1
    /\ UNCHANGED <<closed, active, queued, counters, channel, writer>>

Transferred(p) ==
    /\ Goto(p, "transferred", "send")
    /\ remaining' = remaining - 1
    /\ UNCHANGED <<closed, active, queued, undelivered, entered, delivered,
                   queueFull, sinkClosed, channel, writer>>

\* The receiver exists: NoSendAfterClaim shows that the failed send, which
\* the code also handles, is never reached.
Send(p) ==
    /\ Goto(p, "send", "leave")
    /\ channel' = channel + 1
    /\ UNCHANGED <<closed, active, queued, undelivered, counters, writer>>

\* The drop of ActiveSubmission.
Leave(p) ==
    /\ Goto(p, "leave", "idle")
    /\ active' = active - 1
    /\ UNCHANGED <<closed, queued, undelivered, counters, channel, writer>>

\* remaining_to_sink_closed and remaining_to_queue_full: two counters each.
GiveUpRemaining(p) ==
    /\ \/ Goto(p, "closedOutside", "sinkOutside")
       \/ Goto(p, "closedInside", "sinkInside")
       \/ Goto(p, "full", "fullCount")
    /\ remaining' = remaining - 1
    /\ UNCHANGED <<closed, active, queued, undelivered, entered, delivered,
                   queueFull, sinkClosed, channel, writer>>

\* Mutated form of CountSinkClosed: an early return leaves active raised.
CountSinkClosedForgetting(p) ==
    /\ Goto(p, "sinkOutside", "idle") \/ Goto(p, "sinkInside", "idle")
    /\ sinkClosed' = sinkClosed + 1
    /\ UNCHANGED <<closed, active, queued, undelivered, entered, remaining,
                   delivered, queueFull, channel, writer>>

CountSinkClosed(p) ==
    /\ Goto(p, "sinkOutside", "idle") \/ Goto(p, "sinkInside", "leave")
    /\ sinkClosed' = sinkClosed + 1
    /\ UNCHANGED <<closed, active, queued, undelivered, entered, remaining,
                   delivered, queueFull, channel, writer>>

CountQueueFull(p) ==
    /\ Goto(p, "fullCount", "leave")
    /\ queueFull' = queueFull + 1
    /\ UNCHANGED <<closed, active, queued, undelivered, entered, remaining,
                   delivered, sinkClosed, channel, writer>>

\* The offer continues; it never waits for another thread.
Offer(p) == \/ Count(p) \/ ReadClosed(p) \/ EnterActive(p) \/ RecheckClosed(p)
            \/ Reserve(p) \/ Transfer(p) \/ Transferred(p) \/ Send(p)
            \/ Leave(p) \/ GiveUpRemaining(p) \/ CountSinkClosed(p)
            \/ CountQueueFull(p)

----------------------------------------------------------------------------
(* The writer thread. *)

WGoto(from, to) == wpc = from /\ wpc' = to

Receive ==
    /\ WGoto("receive", "release")
    /\ channel > 0
    /\ channel' = channel - 1
    /\ UNCHANGED <<closed, active, queued, undelivered, counters, pc, claimed, terminalClaimed>>

ReleaseSlot ==
    /\ WGoto("release", "write")
    /\ queued' = queued - 1
    /\ UNCHANGED <<closed, active, undelivered, counters, channel, pc, claimed, terminalClaimed>>

\* The write succeeds or fails.
Write ==
    /\ WGoto("write", "deliver") \/ WGoto("write", "close")
    /\ UNCHANGED <<closed, active, queued, undelivered, counters, channel, pc, claimed, terminalClaimed>>

Deliver ==
    /\ WGoto("deliver", "deliverCount")
    /\ undelivered' = undelivered - 1
    /\ UNCHANGED <<closed, active, queued, counters, channel, pc, claimed, terminalClaimed>>

CountDelivered ==
    /\ WGoto("deliverCount", "receive")
    /\ delivered' = delivered + 1
    /\ UNCHANGED <<closed, active, queued, undelivered, entered, remaining,
                   queueFull, sinkClosed, channel, pc, claimed, terminalClaimed>>

Close ==
    /\ WGoto("close", "spin")
    /\ closed' = TRUE
    /\ UNCHANGED <<active, queued, undelivered, counters, channel, pc, claimed, terminalClaimed>>

\* Spin until no submission is in its active window.
Spin ==
    /\ WGoto("spin", "swap")
    /\ active = 0
    /\ UNCHANGED <<closed, active, queued, undelivered, counters, channel, pc, claimed, terminalClaimed>>

\* Mutated form of Swap: a load instead of a swap.
ReadUndelivered ==
    /\ WGoto("swap", "claim")
    /\ claimed' = undelivered
    /\ UNCHANGED <<closed, active, queued, undelivered, counters, channel, pc, terminalClaimed>>

\* undelivered.swap(0): the writer claims the failed record and all queued.
Swap ==
    /\ WGoto("swap", "claim")
    /\ claimed' = undelivered
    /\ undelivered' = 0
    /\ UNCHANGED <<closed, active, queued, counters, channel, pc, terminalClaimed>>

Claim ==
    /\ WGoto("claim", "count")
    /\ terminalClaimed' = claimed
    /\ UNCHANGED <<closed, active, queued, undelivered, counters, channel, pc, claimed>>

CountClaimed ==
    /\ WGoto("count", "clear")
    /\ sinkClosed' = sinkClosed + claimed
    /\ UNCHANGED <<closed, active, queued, undelivered, entered, remaining,
                   delivered, queueFull, channel, pc, claimed, terminalClaimed>>

Clear ==
    /\ WGoto("clear", "drop")
    /\ terminalClaimed' = 0
    /\ UNCHANGED <<closed, active, queued, undelivered, counters, channel, pc, claimed>>

\* Dropping the receiver drops the queued records: each frees its slot, and
\* none touches undelivered, since closed is set.
DropReceiver ==
    /\ WGoto("drop", "exited")
    /\ queued' = queued - channel
    /\ channel' = 0
    /\ UNCHANGED <<closed, active, undelivered, counters, pc, claimed, terminalClaimed>>

Writer == \/ Receive \/ ReleaseSlot \/ Write \/ Deliver \/ CountDelivered
          \/ Close \/ Spin \/ Swap \/ Claim \/ CountClaimed \/ Clear
          \/ DropReceiver

----------------------------------------------------------------------------

Next == \/ \E p \in Producers : \/ entered < MaxOffers /\ Enter(p)
                                \/ Offer(p)
        \/ Writer

Spec == Init /\ [][Next]_vars

\* Threads run.  A write may block in the operating system for ever, so no
\* fairness is assumed of Write; nothing obliges a producer to offer.
Fairness == /\ \A p \in Producers : WF_vars(Offer(p))
            /\ WF_vars(Writer /\ wpc # "write")

FairSpec == Spec /\ Fairness

----------------------------------------------------------------------------
(* Properties. *)

ProducersAt(S) == Cardinality({p \in Producers : pc[p] \in S})

\* Offers that no counter, or two counters, hold between two atomic accesses.
Uncounted == ProducersAt({"entered", "sinkOutside", "sinkInside", "fullCount"})
             + (IF wpc = "deliverCount" THEN 1 ELSE 0)
             + (IF wpc = "claim" THEN claimed ELSE 0)
Twice     == ProducersAt({"transferred"}) + (IF wpc = "clear" THEN claimed ELSE 0)

\* OBS-001: every offer is in exactly one place.  Whatever the interleaving
\* of producers with a writer that fails, nothing is lost from the counts or
\* counted twice (telemetry.rs: offer_with against the terminal claim).
Conservation ==
    entered + Twice = remaining + undelivered + terminalClaimed + delivered
                      + queueFull + sinkClosed + Uncounted

\* The active window works: once the writer has claimed what is undelivered,
\* no producer is between its second read of closed and its send, so no
\* record follows the claim and the failed-send branch is unreachable.
NoSendAfterClaim ==
    wpc \in {"claim", "count", "clear", "drop", "exited"} =>
        ProducersAt({"reserve", "transfer", "transferred", "send"}) = 0

\* The queue is bounded by capacity, and the channel by the queue: a writer
\* stuck in a write bounds memory, it does not stop anyone.
QueueBounded == /\ queued <= Capacity
                /\ channel <= queued
                /\ undelivered <= Capacity + 1

\* The bounded queue accounts for every record, also when its writer fails.
EveryRecordIsCounted == Conservation /\ NoSendAfterClaim /\ QueueBounded

\* A writer that meets a failed write always gets out: every submission it
\* spins for leaves its active window, on each of the offer's return paths.
CloseCompletes == wpc = "close" ~> wpc = "exited"
=============================================================================
