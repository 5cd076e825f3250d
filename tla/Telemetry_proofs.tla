----------------------------- MODULE Telemetry_proofs -----------------------------
(***************************************************************************)
(* The accounting of telemetry, for any number of producers and any         *)
(* capacity: each atomic counter is the number of threads and records it    *)
(* stands for, so none underflows, nothing is counted twice or lost, and    *)
(* nothing is sent once the writer has claimed what is undelivered.         *)
(***************************************************************************)
EXTENDS Telemetry, FiniteSetTheorems, TLAPS

\* Where a producer is while a counter, or nothing yet, stands for its record.
Holding  == {"counted", "enter", "recheck", "reserve", "transfer", "transferred",
             "closedOutside", "closedInside", "full"}
InWindow == {"recheck", "reserve", "transfer", "transferred", "send", "leave",
             "closedInside", "sinkInside", "full", "fullCount"}
Passing  == {"reserve", "transfer", "transferred", "send"}
Slotted  == {"transfer", "transferred", "send"}
Sending  == {"transferred", "send"}
Doubled  == {"transferred"}
Loose    == {"entered", "sinkOutside", "sinkInside", "fullCount"}

\* Where the writer is.
InHand  == {"release", "write", "deliver", "close", "spin", "swap"}
Claimed == {"claim", "count", "clear", "drop", "exited"}

One(x, S) == IF x \in S THEN 1 ELSE 0

\* Each counter is a number of threads and records.
CountersInv ==
    /\ remaining = ProducersAt(Holding)
    /\ active = ProducersAt(InWindow)
    /\ queued = channel + ProducersAt(Slotted) + One(wpc, {"release"})
    /\ undelivered = IF wpc \in Claimed THEN 0
                     ELSE channel + ProducersAt(Sending) + One(wpc, InHand)
    /\ terminalClaimed = IF wpc \in {"count", "clear"} THEN claimed ELSE 0

\* The window that the writer waits for: no producer passes it afterwards.
WindowInv ==
    /\ closed <=> wpc \in {"spin", "swap"} \cup Claimed
    /\ wpc \in {"swap"} \cup Claimed => ProducersAt(Passing) = 0

IInv == /\ TypeOK
        /\ IsFiniteSet({p \in Producers : pc[p] # "idle"})
        /\ CountersInv /\ WindowInv /\ Conservation
        /\ queued <= Capacity

----------------------------------------------------------------------------
(* Counting producers. *)

LEMMA CapacityIsNat == Capacity \in Nat \ {0}
BY LimitAssumption DEF Capacity

\* Producers outside "idle" are counted by a natural number, and a smaller set
\* of places holds fewer of them.
LEMMA ProducersAreCounted ==
    ASSUME IsFiniteSet({p \in Producers : pc[p] # "idle"}),
           NEW S, "idle" \notin S
    PROVE  /\ ProducersAt(S) \in Nat
           /\ IsFiniteSet({p \in Producers : pc[p] \in S})
           /\ \A p \in Producers : pc[p] \in S => ProducersAt(S) >= 1
           /\ \A T \in SUBSET S : ProducersAt(T) <= ProducersAt(S)
<1> DEFINE At(X) == {p \in Producers : pc[p] \in X}
<1>1. IsFiniteSet(At(S))
  <2>1. At(S) \subseteq {p \in Producers : pc[p] # "idle"}
    OBVIOUS
  <2> QED BY <2>1, FS_Subset
<1>2. Cardinality(At(S)) \in Nat
  BY <1>1, FS_CardinalityType
<1>3. ASSUME NEW p \in Producers, pc[p] \in S
      PROVE  Cardinality(At(S)) >= 1
  <2>1. At(S) # {}
    BY <1>3
  <2>2. Cardinality(At(S)) # 0
    BY <1>1, <2>1, FS_EmptySet
  <2> QED BY <1>2, <2>2
<1>4. ASSUME NEW T \in SUBSET S
      PROVE  Cardinality(At(T)) <= Cardinality(At(S))
  <2>1. At(T) \subseteq At(S)
    OBVIOUS
  <2> QED BY <1>1, <2>1, FS_Subset
<1> QED BY <1>1, <1>2, <1>3, <1>4 DEF ProducersAt

\* A producer that moves leaves one place and enters another.
LEMMA OneMoves ==
    ASSUME TypeOK, IsFiniteSet({p \in Producers : pc[p] # "idle"}),
           NEW p \in Producers, NEW a, NEW b \in ProducerSteps, Goto(p, a, b),
           NEW S, "idle" \notin S
    PROVE  ProducersAt(S)' = ProducersAt(S) + One(b, S) - One(a, S)
<1> DEFINE before == {q \in Producers : pc[q] \in S}
           after  == {q \in Producers : pc'[q] \in S}
           rest   == before \ {p}
<1>1. /\ pc[p] = a /\ pc'[p] = b
      /\ \A q \in Producers \ {p} : pc'[q] = pc[q]
  BY DEF TypeOK, Goto
<1>2. before = IF a \in S THEN rest \cup {p} ELSE rest
  BY <1>1
<1>3. after = IF b \in S THEN rest \cup {p} ELSE rest
  BY <1>1
<1>4. IsFiniteSet(before)
  BY ProducersAreCounted
<1>5. IsFiniteSet(rest) /\ p \notin rest
  BY <1>4, FS_RemoveElement
<1> HIDE DEF before, after, rest
<1>6. Cardinality(rest) \in Nat /\ Cardinality(rest \cup {p}) = Cardinality(rest) + 1
  BY <1>5, FS_CardinalityType, FS_AddElement
<1>7. /\ Cardinality(before) = Cardinality(rest) + One(a, S)
      /\ Cardinality(after) = Cardinality(rest) + One(b, S)
  BY <1>2, <1>3, <1>6 DEF One
<1>8. Cardinality(after) = Cardinality(before) + One(b, S) - One(a, S)
  BY <1>6, <1>7 DEF One
<1> QED BY <1>8 DEF ProducersAt, before, after

\* The busy producers stay finitely many.
LEMMA BusyStaysFinite ==
    ASSUME TypeOK, IsFiniteSet({p \in Producers : pc[p] # "idle"}),
           NEW p \in Producers, NEW a, NEW b, Goto(p, a, b)
    PROVE  IsFiniteSet({q \in Producers : pc[q] # "idle"})'
<1>1. {q \in Producers : pc'[q] # "idle"}
        \subseteq {q \in Producers : pc[q] # "idle"} \cup {p}
  BY DEF TypeOK, Goto
<1> QED BY <1>1, FS_AddElement, FS_Subset

\* The places that the invariant counts, all at once.
LEMMA EachCountMoves ==
    ASSUME IInv, NEW p \in Producers, NEW a, NEW b \in ProducerSteps, Goto(p, a, b)
    PROVE  \A S \in {Holding, InWindow, Passing, Slotted, Sending, Doubled, Loose} :
               ProducersAt(S)' = ProducersAt(S) + One(b, S) - One(a, S)
BY OneMoves DEF IInv, Holding, InWindow, Passing, Slotted, Sending, Doubled, Loose

LEMMA CountsAreOrdered ==
    ASSUME IInv
    PROVE  /\ \A S \in {Holding, InWindow, Passing, Slotted, Sending, Doubled, Loose} :
                 /\ ProducersAt(S) \in Nat
                 /\ \A p \in Producers : pc[p] \in S => ProducersAt(S) >= 1
           /\ ProducersAt(Sending) <= ProducersAt(Slotted)
           /\ ProducersAt(Slotted) <= ProducersAt(Passing)
           /\ ProducersAt(Passing) <= ProducersAt(InWindow)
<1> USE DEF IInv
<1>1. \A S \in {Holding, InWindow, Passing, Slotted, Sending, Doubled, Loose} :
          "idle" \notin S
  BY DEF Holding, InWindow, Passing, Slotted, Sending, Doubled, Loose
<1>2. Sending \subseteq Slotted /\ Slotted \subseteq Passing /\ Passing \subseteq InWindow
  BY DEF Sending, Slotted, Passing, InWindow
<1> QED BY <1>1, <1>2, ProducersAreCounted

----------------------------------------------------------------------------
(* A producer's step: what it moves, and what that does to the counters. *)

\* The counters of a step that moves producer p from a to b.
LEMMA CountersAfter ==
    ASSUME IInv, NEW p \in Producers, NEW a \in ProducerSteps, NEW b \in ProducerSteps,
           Goto(p, a, b), UNCHANGED writer
    PROVE  /\ ProducersAt(Holding)' = ProducersAt(Holding) + One(b, Holding) - One(a, Holding)
           /\ ProducersAt(InWindow)' = ProducersAt(InWindow) + One(b, InWindow) - One(a, InWindow)
           /\ ProducersAt(Passing)' = ProducersAt(Passing) + One(b, Passing) - One(a, Passing)
           /\ ProducersAt(Slotted)' = ProducersAt(Slotted) + One(b, Slotted) - One(a, Slotted)
           /\ ProducersAt(Sending)' = ProducersAt(Sending) + One(b, Sending) - One(a, Sending)
           /\ Twice' - Twice = One(b, Doubled) - One(a, Doubled)
           /\ Uncounted' - Uncounted = One(b, Loose) - One(a, Loose)
           /\ Twice \in Nat /\ Uncounted \in Nat /\ Twice' \in Int /\ Uncounted' \in Int
           /\ IsFiniteSet({q \in Producers : pc[q] # "idle"})'
           /\ pc[p] = a /\ pc' \in [Producers -> ProducerSteps]
<1>1. /\ ProducersAt(Loose)' = ProducersAt(Loose) + One(b, Loose) - One(a, Loose)
      /\ ProducersAt(Doubled)' = ProducersAt(Doubled) + One(b, Doubled) - One(a, Doubled)
  BY EachCountMoves
<1>2. ProducersAt(Loose) \in Nat /\ ProducersAt(Doubled) \in Nat
  BY CountsAreOrdered
<1>3. /\ Uncounted = ProducersAt(Loose) + (IF wpc = "deliverCount" THEN 1 ELSE 0)
                       + (IF wpc = "claim" THEN claimed ELSE 0)
      /\ Uncounted' = ProducersAt(Loose)' + (IF wpc' = "deliverCount" THEN 1 ELSE 0)
                       + (IF wpc' = "claim" THEN claimed' ELSE 0)
      /\ Twice = ProducersAt(Doubled) + (IF wpc = "clear" THEN claimed ELSE 0)
      /\ Twice' = ProducersAt(Doubled)' + (IF wpc' = "clear" THEN claimed' ELSE 0)
  BY DEF Uncounted, Twice, Loose, Doubled
<1>4. wpc' = wpc /\ claimed' = claimed /\ claimed \in Nat
  BY DEF IInv, TypeOK, writer
<1>5. /\ Twice' - Twice = One(b, Doubled) - One(a, Doubled)
      /\ Uncounted' - Uncounted = One(b, Loose) - One(a, Loose)
      /\ Twice \in Nat /\ Uncounted \in Nat /\ Twice' \in Int /\ Uncounted' \in Int
  BY <1>1, <1>2, <1>3, <1>4 DEF One
<1>6. /\ ProducersAt(Holding)' = ProducersAt(Holding) + One(b, Holding) - One(a, Holding)
      /\ ProducersAt(InWindow)' = ProducersAt(InWindow) + One(b, InWindow) - One(a, InWindow)
      /\ ProducersAt(Passing)' = ProducersAt(Passing) + One(b, Passing) - One(a, Passing)
      /\ ProducersAt(Slotted)' = ProducersAt(Slotted) + One(b, Slotted) - One(a, Slotted)
      /\ ProducersAt(Sending)' = ProducersAt(Sending) + One(b, Sending) - One(a, Sending)
  BY EachCountMoves
<1> QED BY <1>5, <1>6, BusyStaysFinite DEF IInv, TypeOK, Goto

\* What a producer's step from a to b does to the counters: each changes by what
\* it stands for, and only an open pipeline lets a producer pass the window.
Accounted(a, b) ==
    /\ remaining' = remaining + One(b, Holding) - One(a, Holding)
    /\ active' = active + One(b, InWindow) - One(a, InWindow)
    /\ queued' = queued + (channel' - channel) + One(b, Slotted) - One(a, Slotted)
    /\ undelivered' = undelivered + (channel' - channel) + One(b, Sending) - One(a, Sending)
    /\ entered' + One(b, Doubled) - One(a, Doubled)
         = entered + (remaining' - remaining) + (undelivered' - undelivered)
             + (delivered' - delivered) + (queueFull' - queueFull)
             + (sinkClosed' - sinkClosed) + One(b, Loose) - One(a, Loose)
    /\ channel' \in Nat /\ entered' \in Nat /\ delivered' \in Nat
    /\ queueFull' \in Nat /\ sinkClosed' \in Nat
    /\ queued' <= Capacity
    /\ b \in Passing => a \in Passing \/ ~closed
    /\ channel' # channel => a \in Passing
    /\ UNCHANGED <<closed, writer>>

LEMMA AccountedStepPreserves ==
    ASSUME IInv, NEW p \in Producers, NEW a \in ProducerSteps, NEW b \in ProducerSteps,
           Goto(p, a, b), Accounted(a, b)
    PROVE  IInv'
<1> DEFINE Places == {Holding, InWindow, Passing, Slotted, Sending}
<1>1. UNCHANGED writer
  BY DEF Accounted
<1>2. /\ \A S \in Places : ProducersAt(S)' = ProducersAt(S) + One(b, S) - One(a, S)
      /\ Twice' - Twice = One(b, Doubled) - One(a, Doubled)
      /\ Uncounted' - Uncounted = One(b, Loose) - One(a, Loose)
      /\ Twice \in Nat /\ Uncounted \in Nat /\ Twice' \in Int /\ Uncounted' \in Int
      /\ IsFiniteSet({q \in Producers : pc[q] # "idle"})'
      /\ pc[p] = a /\ pc' \in [Producers -> ProducerSteps]
  BY <1>1, CountersAfter
<1>3. \A S \in Places : ProducersAt(S) \in Nat /\ (a \in S => ProducersAt(S) >= 1)
  BY <1>2, CountsAreOrdered
<1>4. \A S \in Places : ProducersAt(S)' \in Nat
  BY <1>2, <1>3 DEF One
<1>5. wpc' = wpc /\ claimed' = claimed /\ terminalClaimed' = terminalClaimed
      /\ closed' = closed
  BY DEF Accounted, writer
<1>6. wpc \in {"swap"} \cup Claimed =>
          a \notin Passing /\ b \notin Passing /\ channel' = channel
  BY <1>3, <1>5 DEF IInv, WindowInv, Accounted
<1>7. Sending \subseteq Slotted /\ Slotted \subseteq Passing
  BY DEF Sending, Slotted, Passing
<1>8. WindowInv'
  BY <1>2, <1>5, <1>6 DEF IInv, WindowInv, One
<1>9. \A x, S : One(x, S) \in {0, 1}
  BY DEF One
<1>10. CountersInv'
  <2>1. /\ remaining' = ProducersAt(Holding)'
        /\ active' = ProducersAt(InWindow)'
    BY <1>2, <1>3 DEF IInv, CountersInv, Accounted, One
  <2>2. queued' = channel' + ProducersAt(Slotted)' + One(wpc', {"release"})
    <3>1. /\ ProducersAt(Slotted)' = ProducersAt(Slotted) + One(b, Slotted) - One(a, Slotted)
          /\ ProducersAt(Slotted) \in Nat
      BY <1>2, <1>3
    <3>2. /\ queued = channel + ProducersAt(Slotted) + One(wpc, {"release"})
          /\ queued' = queued + (channel' - channel) + One(b, Slotted) - One(a, Slotted)
          /\ channel \in Nat /\ channel' \in Nat
      BY DEF IInv, TypeOK, CountersInv, Accounted
    <3> QED BY <1>5, <1>9, <3>1, <3>2
  <2>3. undelivered' = IF wpc' \in Claimed THEN 0
                       ELSE channel' + ProducersAt(Sending)' + One(wpc', InHand)
    <3>1. CASE wpc \in Claimed
      BY <1>5, <1>6, <1>7, <3>1 DEF IInv, TypeOK, CountersInv, Accounted, One
    <3>2. CASE wpc \notin Claimed
      <4>1. /\ ProducersAt(Sending)' = ProducersAt(Sending) + One(b, Sending) - One(a, Sending)
            /\ ProducersAt(Sending) \in Nat
        BY <1>2, <1>3
      <4>2. /\ undelivered = channel + ProducersAt(Sending) + One(wpc, InHand)
            /\ undelivered' = undelivered + (channel' - channel) + One(b, Sending) - One(a, Sending)
            /\ channel \in Nat /\ channel' \in Nat
        BY <3>2 DEF IInv, TypeOK, CountersInv, Accounted
      <4> QED BY <1>5, <1>9, <3>2, <4>1, <4>2
    <3> QED BY <3>1, <3>2
  <2> QED BY <1>5, <2>1, <2>2, <2>3 DEF IInv, CountersInv
<1>11. TypeOK'
  <2>1. queued' \in Nat /\ undelivered' \in Nat /\ remaining' \in Nat /\ active' \in Nat
    BY <1>4, <1>10 DEF CountersInv, One, Accounted
  <2> QED BY <1>2, <1>5, <2>1 DEF IInv, TypeOK, Accounted
<1>12. Conservation'
  <2>1. entered' + One(b, Doubled) - One(a, Doubled)
          = entered + (remaining' - remaining) + (undelivered' - undelivered)
              + (delivered' - delivered) + (queueFull' - queueFull)
              + (sinkClosed' - sinkClosed) + One(b, Loose) - One(a, Loose)
    BY DEF Accounted
  <2>2. entered + Twice = remaining + undelivered + terminalClaimed + delivered
                            + queueFull + sinkClosed + Uncounted
    BY DEF IInv, Conservation
  <2>3. /\ entered \in Nat /\ remaining \in Nat /\ undelivered \in Nat
        /\ terminalClaimed \in Nat /\ delivered \in Nat /\ queueFull \in Nat
        /\ sinkClosed \in Nat
        /\ entered' \in Nat /\ remaining' \in Nat /\ undelivered' \in Nat
        /\ delivered' \in Nat /\ queueFull' \in Nat /\ sinkClosed' \in Nat
    BY <1>11 DEF IInv, TypeOK
  <2> QED BY <1>2, <1>5, <1>9, <2>1, <2>2, <2>3 DEF Conservation
<1> QED BY <1>2, <1>8, <1>10, <1>11, <1>12 DEF IInv, Accounted, Capacity

\* Before the window: the offer is counted, and then closed is read.
LEMMA OutsidePreserves ==
    ASSUME IInv, NEW p \in Producers,
           Enter(p) \/ Count(p) \/ ReadClosed(p)
    PROVE  IInv'
<1>1. CASE Enter(p) /\ Goto(p, "idle", "entered")
  <2>1. Accounted("idle", "entered")
    BY <1>1, CapacityIsNat
       DEF Enter, Accounted, One, IInv, TypeOK, counters, writer, Holding, InWindow,
           Passing, Slotted, Sending, Doubled, Loose
  <2> QED BY <1>1, <2>1, AccountedStepPreserves DEF ProducerSteps
<1>2. CASE Count(p) /\ Goto(p, "entered", "counted")
  <2>1. Accounted("entered", "counted")
    BY <1>2, CapacityIsNat
       DEF Count, Accounted, One, IInv, TypeOK, counters, writer, Holding, InWindow,
           Passing, Slotted, Sending, Doubled, Loose
  <2> QED BY <1>2, <2>1, AccountedStepPreserves DEF ProducerSteps
<1>3. CASE ReadClosed(p) /\ Goto(p, "counted", "closedOutside") /\ closed
  <2>1. Accounted("counted", "closedOutside")
    BY <1>3, CapacityIsNat
       DEF ReadClosed, Accounted, One, IInv, TypeOK, counters, writer, Holding, InWindow,
           Passing, Slotted, Sending, Doubled, Loose
  <2> QED BY <1>3, <2>1, AccountedStepPreserves DEF ProducerSteps
<1>4. CASE ReadClosed(p) /\ Goto(p, "counted", "enter") /\ ~closed
  <2>1. Accounted("counted", "enter")
    BY <1>4, CapacityIsNat
       DEF ReadClosed, Accounted, One, IInv, TypeOK, counters, writer, Holding, InWindow,
           Passing, Slotted, Sending, Doubled, Loose
  <2> QED BY <1>4, <2>1, AccountedStepPreserves DEF ProducerSteps
<1> QED BY <1>1, <1>2, <1>3, <1>4 DEF Enter, Count, ReadClosed, Goto

\* The active window: entered, closed read again, and left.
LEMMA WindowPreserves ==
    ASSUME IInv, NEW p \in Producers,
           EnterActive(p) \/ RecheckClosed(p) \/ Leave(p)
    PROVE  IInv'
<1>1. CASE EnterActive(p) /\ Goto(p, "enter", "recheck")
  <2>1. Accounted("enter", "recheck")
    BY <1>1, CapacityIsNat
       DEF EnterActive, Accounted, One, IInv, TypeOK, counters, writer, Holding, InWindow,
           Passing, Slotted, Sending, Doubled, Loose
  <2> QED BY <1>1, <2>1, AccountedStepPreserves DEF ProducerSteps
<1>2. CASE RecheckClosed(p) /\ Goto(p, "recheck", "closedInside") /\ closed
  <2>1. Accounted("recheck", "closedInside")
    BY <1>2, CapacityIsNat
       DEF RecheckClosed, Accounted, One, IInv, TypeOK, counters, writer, Holding, InWindow,
           Passing, Slotted, Sending, Doubled, Loose
  <2> QED BY <1>2, <2>1, AccountedStepPreserves DEF ProducerSteps
<1>3. CASE RecheckClosed(p) /\ Goto(p, "recheck", "reserve") /\ ~closed
  <2>1. Accounted("recheck", "reserve")
    BY <1>3, CapacityIsNat
       DEF RecheckClosed, Accounted, One, IInv, TypeOK, counters, writer, Holding, InWindow,
           Passing, Slotted, Sending, Doubled, Loose
  <2> QED BY <1>3, <2>1, AccountedStepPreserves DEF ProducerSteps
<1>4. CASE Leave(p) /\ Goto(p, "leave", "idle")
  <2>1. Accounted("leave", "idle")
    BY <1>4, CapacityIsNat
       DEF Leave, Accounted, One, IInv, TypeOK, counters, writer, Holding, InWindow,
           Passing, Slotted, Sending, Doubled, Loose
  <2> QED BY <1>4, <2>1, AccountedStepPreserves DEF ProducerSteps
<1> QED BY <1>1, <1>2, <1>3, <1>4 DEF EnterActive, RecheckClosed, Leave, Goto

\* A slot is reserved, the record changes its counter and is sent.
LEMMA HandOverPreserves ==
    ASSUME IInv, NEW p \in Producers,
           Reserve(p) \/ Transfer(p) \/ Transferred(p) \/ Send(p)
    PROVE  IInv'
<1>1. CASE Reserve(p) /\ Goto(p, "reserve", "transfer") /\ queued < Capacity
  <2>1. Accounted("reserve", "transfer")
    BY <1>1, CapacityIsNat
       DEF Reserve, Accounted, One, IInv, TypeOK, counters, writer, Holding, InWindow,
           Passing, Slotted, Sending, Doubled, Loose
  <2> QED BY <1>1, <2>1, AccountedStepPreserves DEF ProducerSteps
<1>2. CASE Reserve(p) /\ Goto(p, "reserve", "full") /\ ~(queued < Capacity)
  <2>1. Accounted("reserve", "full")
    BY <1>2, CapacityIsNat
       DEF Reserve, Accounted, One, IInv, TypeOK, counters, writer, Holding, InWindow,
           Passing, Slotted, Sending, Doubled, Loose
  <2> QED BY <1>2, <2>1, AccountedStepPreserves DEF ProducerSteps
<1>3. CASE Transfer(p) /\ Goto(p, "transfer", "transferred")
  <2>1. Accounted("transfer", "transferred")
    BY <1>3, CapacityIsNat
       DEF Transfer, Accounted, One, IInv, TypeOK, counters, writer, Holding, InWindow,
           Passing, Slotted, Sending, Doubled, Loose
  <2> QED BY <1>3, <2>1, AccountedStepPreserves DEF ProducerSteps
<1>4. CASE Transferred(p) /\ Goto(p, "transferred", "send")
  <2>1. Accounted("transferred", "send")
    BY <1>4, CapacityIsNat
       DEF Transferred, Accounted, One, IInv, TypeOK, counters, writer, Holding, InWindow,
           Passing, Slotted, Sending, Doubled, Loose
  <2> QED BY <1>4, <2>1, AccountedStepPreserves DEF ProducerSteps
<1>5. CASE Send(p) /\ Goto(p, "send", "leave")
  <2>1. Accounted("send", "leave")
    BY <1>5, CapacityIsNat
       DEF Send, Accounted, One, IInv, TypeOK, counters, writer, Holding, InWindow,
           Passing, Slotted, Sending, Doubled, Loose
  <2> QED BY <1>5, <2>1, AccountedStepPreserves DEF ProducerSteps
<1> QED BY <1>1, <1>2, <1>3, <1>4, <1>5 DEF Reserve, Transfer, Transferred, Send, Goto

\* The record is dropped and counted as lost, on each of the three paths.
LEMMA DropPreserves ==
    ASSUME IInv, NEW p \in Producers,
           GiveUpRemaining(p) \/ CountSinkClosed(p) \/ CountQueueFull(p)
    PROVE  IInv'
<1>1. CASE GiveUpRemaining(p) /\ Goto(p, "closedOutside", "sinkOutside")
  <2>1. Accounted("closedOutside", "sinkOutside")
    BY <1>1, CapacityIsNat
       DEF GiveUpRemaining, Accounted, One, IInv, TypeOK, counters, writer, Holding, InWindow,
           Passing, Slotted, Sending, Doubled, Loose
  <2> QED BY <1>1, <2>1, AccountedStepPreserves DEF ProducerSteps
<1>2. CASE GiveUpRemaining(p) /\ Goto(p, "closedInside", "sinkInside")
  <2>1. Accounted("closedInside", "sinkInside")
    BY <1>2, CapacityIsNat
       DEF GiveUpRemaining, Accounted, One, IInv, TypeOK, counters, writer, Holding, InWindow,
           Passing, Slotted, Sending, Doubled, Loose
  <2> QED BY <1>2, <2>1, AccountedStepPreserves DEF ProducerSteps
<1>3. CASE GiveUpRemaining(p) /\ Goto(p, "full", "fullCount")
  <2>1. Accounted("full", "fullCount")
    BY <1>3, CapacityIsNat
       DEF GiveUpRemaining, Accounted, One, IInv, TypeOK, counters, writer, Holding, InWindow,
           Passing, Slotted, Sending, Doubled, Loose
  <2> QED BY <1>3, <2>1, AccountedStepPreserves DEF ProducerSteps
<1>4. CASE CountSinkClosed(p) /\ Goto(p, "sinkOutside", "idle")
  <2>1. Accounted("sinkOutside", "idle")
    BY <1>4, CapacityIsNat
       DEF CountSinkClosed, Accounted, One, IInv, TypeOK, counters, writer, Holding, InWindow,
           Passing, Slotted, Sending, Doubled, Loose
  <2> QED BY <1>4, <2>1, AccountedStepPreserves DEF ProducerSteps
<1>5. CASE CountSinkClosed(p) /\ Goto(p, "sinkInside", "leave")
  <2>1. Accounted("sinkInside", "leave")
    BY <1>5, CapacityIsNat
       DEF CountSinkClosed, Accounted, One, IInv, TypeOK, counters, writer, Holding, InWindow,
           Passing, Slotted, Sending, Doubled, Loose
  <2> QED BY <1>5, <2>1, AccountedStepPreserves DEF ProducerSteps
<1>6. CASE CountQueueFull(p) /\ Goto(p, "fullCount", "leave")
  <2>1. Accounted("fullCount", "leave")
    BY <1>6, CapacityIsNat
       DEF CountQueueFull, Accounted, One, IInv, TypeOK, counters, writer, Holding, InWindow,
           Passing, Slotted, Sending, Doubled, Loose
  <2> QED BY <1>6, <2>1, AccountedStepPreserves DEF ProducerSteps
<1> QED BY <1>1, <1>2, <1>3, <1>4, <1>5, <1>6 DEF GiveUpRemaining, CountSinkClosed, CountQueueFull, Goto

----------------------------------------------------------------------------
(* The writer's steps: no producer moves. *)

LEMMA ProducersStay ==
    ASSUME UNCHANGED pc
    PROVE  /\ \A S : ProducersAt(S)' = ProducersAt(S)
           /\ {p \in Producers : pc[p] # "idle"}' = {p \in Producers : pc[p] # "idle"}
BY DEF ProducersAt

\* Conservation, with what producers hold between two counters, or in two, as
\* numbers.
Balance(l, d) ==
    entered + d + (IF wpc = "clear" THEN claimed ELSE 0)
      = remaining + undelivered + terminalClaimed + delivered + queueFull
        + sinkClosed + l + (IF wpc = "deliverCount" THEN 1 ELSE 0)
        + (IF wpc = "claim" THEN claimed ELSE 0)

LEMMA BalanceWhileProducersStay ==
    ASSUME IInv, UNCHANGED pc
    PROVE  \E l, d \in Nat : Balance(l, d) /\ (TypeOK' /\ Balance(l, d)' => Conservation')
<1> DEFINE l == ProducersAt(Loose)
           d == ProducersAt(Doubled)
<1>1. l' = l /\ l \in Nat /\ d' = d /\ d \in Nat
  BY ProducersStay, CountsAreOrdered
<1>2. /\ Uncounted = l + (IF wpc = "deliverCount" THEN 1 ELSE 0)
                       + (IF wpc = "claim" THEN claimed ELSE 0)
      /\ Uncounted' = l' + (IF wpc' = "deliverCount" THEN 1 ELSE 0)
                       + (IF wpc' = "claim" THEN claimed' ELSE 0)
      /\ Twice = d + (IF wpc = "clear" THEN claimed ELSE 0)
      /\ Twice' = d' + (IF wpc' = "clear" THEN claimed' ELSE 0)
  BY DEF Uncounted, Twice, Loose, Doubled
<1> HIDE DEF l, d
<1>3. Balance(l, d)
  BY <1>1, <1>2 DEF IInv, TypeOK, Conservation, Balance
<1>4. TypeOK' /\ Balance(l, d)' => Conservation'
  BY <1>1, <1>2 DEF TypeOK, Conservation, Balance
<1> QED BY <1>1, <1>3, <1>4

\* A record is received, its slot is freed, it is written and delivered.
LEMMA DeliveryPreserves ==
    ASSUME IInv, Receive \/ ReleaseSlot \/ Write \/ Deliver \/ CountDelivered
    PROVE  IInv'
<1>1. /\ \A S : ProducersAt(S)' = ProducersAt(S)
      /\ IsFiniteSet({p \in Producers : pc[p] # "idle"})'
  BY ProducersStay DEF IInv, Receive, ReleaseSlot, Write, Deliver, CountDelivered
<1>2. ProducersAt(Slotted) \in Nat /\ ProducersAt(Sending) \in Nat
  BY CountsAreOrdered
<1>3. WindowInv'
  BY <1>1 DEF IInv, WindowInv, Claimed, WGoto, Receive, ReleaseSlot, Write, Deliver,
              CountDelivered
<1>4. CountersInv'
  BY <1>1, <1>2 DEF IInv, TypeOK, CountersInv, One, InHand, Claimed, WGoto, Receive,
                    ReleaseSlot, Write, Deliver, CountDelivered, counters
<1>5. TypeOK'
  BY <1>1, <1>2 DEF IInv, TypeOK, CountersInv, One, InHand, Claimed, WGoto, WriterSteps,
                    Receive, ReleaseSlot, Write, Deliver, CountDelivered, counters
<1>6. Conservation'
  <2>0. PICK l \in Nat, d \in Nat :
          Balance(l, d) /\ (TypeOK' /\ Balance(l, d)' => Conservation')
    BY BalanceWhileProducersStay DEF Receive, ReleaseSlot, Write, Deliver, CountDelivered
  <2>1. CASE Receive
    BY <1>5, <2>0, <2>1 DEF Balance, IInv, TypeOK, CountersInv, WGoto, Receive, counters
  <2>2. CASE ReleaseSlot
    BY <1>5, <2>0, <2>2 DEF Balance, IInv, TypeOK, CountersInv, WGoto, ReleaseSlot, counters
  <2>3. CASE Write
    BY <1>5, <2>0, <2>3 DEF Balance, IInv, TypeOK, CountersInv, WGoto, Write, counters
  <2>4. CASE Deliver
    BY <1>5, <2>0, <2>4 DEF Balance, IInv, TypeOK, CountersInv, WGoto, Deliver, counters
  <2>5. CASE CountDelivered
    BY <1>5, <2>0, <2>5 DEF Balance, IInv, TypeOK, CountersInv, WGoto, CountDelivered, counters
  <2> QED BY <2>1, <2>2, <2>3, <2>4, <2>5
<1>7. queued' <= Capacity
  BY CapacityIsNat DEF IInv, TypeOK, Receive, ReleaseSlot, Write, Deliver, CountDelivered
<1> QED BY <1>1, <1>3, <1>4, <1>5, <1>6, <1>7 DEF IInv, Capacity

\* The pipeline closes: the writer waits for the window to empty, and claims.
LEMMA CloseWindowPreserves ==
    ASSUME IInv, Close \/ Spin \/ Swap
    PROVE  IInv'
<1>1. /\ \A S : ProducersAt(S)' = ProducersAt(S)
      /\ IsFiniteSet({p \in Producers : pc[p] # "idle"})'
  BY ProducersStay DEF IInv, Close, Spin, Swap
<1>2. /\ ProducersAt(Slotted) \in Nat /\ ProducersAt(Sending) \in Nat
      /\ ProducersAt(Passing) \in Nat /\ ProducersAt(Passing) <= ProducersAt(InWindow)
  BY CountsAreOrdered
<1>3. WindowInv'
  BY <1>1, <1>2 DEF IInv, TypeOK, CountersInv, WindowInv, Claimed, WGoto, Close, Spin, Swap
<1>4. CountersInv'
  BY <1>1, <1>2 DEF IInv, TypeOK, CountersInv, One, InHand, Claimed, WGoto, Close, Spin,
                    Swap, counters
<1>5. TypeOK'
  <2>1. CASE Close
    BY <2>1 DEF IInv, TypeOK, WGoto, WriterSteps, Close, counters
  <2>2. CASE Spin
    BY <2>2 DEF IInv, TypeOK, WGoto, WriterSteps, Spin, counters
  <2>3. CASE Swap
    BY <2>3 DEF IInv, TypeOK, WGoto, WriterSteps, Swap, counters
  <2> QED BY <2>1, <2>2, <2>3
<1>6. Conservation'
  <2>0. PICK l \in Nat, d \in Nat :
          Balance(l, d) /\ (TypeOK' /\ Balance(l, d)' => Conservation')
    BY BalanceWhileProducersStay DEF Close, Spin, Swap
  <2>1. CASE Close
    BY <1>5, <2>0, <2>1 DEF Balance, IInv, TypeOK, CountersInv, WGoto, Close, counters
  <2>2. CASE Spin
    BY <1>5, <2>0, <2>2 DEF Balance, IInv, TypeOK, CountersInv, WGoto, Spin, counters
  <2>3. CASE Swap
    BY <1>5, <2>0, <2>3 DEF Balance, IInv, TypeOK, CountersInv, WGoto, Swap, counters
  <2> QED BY <2>1, <2>2, <2>3
<1>7. queued' <= Capacity
  BY DEF IInv, Close, Spin, Swap
<1> QED BY <1>1, <1>3, <1>4, <1>5, <1>6, <1>7 DEF IInv, Capacity

\* The loss is published and the receiver dropped.
LEMMA ClaimPreserves ==
    ASSUME IInv, Claim \/ CountClaimed \/ Clear \/ DropReceiver
    PROVE  IInv'
<1>1. /\ \A S : ProducersAt(S)' = ProducersAt(S)
      /\ IsFiniteSet({p \in Producers : pc[p] # "idle"})'
  BY ProducersStay DEF IInv, Claim, CountClaimed, Clear, DropReceiver
<1>2. ProducersAt(Slotted) \in Nat /\ ProducersAt(Sending) \in Nat
  BY CountsAreOrdered
<1>3. WindowInv'
  BY <1>1 DEF IInv, WindowInv, Claimed, WGoto, Claim, CountClaimed, Clear, DropReceiver
<1>4. CountersInv'
  BY <1>1, <1>2 DEF IInv, TypeOK, CountersInv, One, InHand, Claimed, WGoto, Claim,
                    CountClaimed, Clear, DropReceiver, counters
<1>5. TypeOK'
  BY <1>2 DEF IInv, TypeOK, CountersInv, One, WGoto, WriterSteps, Claim, CountClaimed,
              Clear, DropReceiver, counters
<1>6. Conservation'
  <2>0. PICK l \in Nat, d \in Nat :
          Balance(l, d) /\ (TypeOK' /\ Balance(l, d)' => Conservation')
    BY BalanceWhileProducersStay DEF Claim, CountClaimed, Clear, DropReceiver
  <2>1. CASE Claim
    BY <1>5, <2>0, <2>1 DEF Balance, IInv, TypeOK, CountersInv, WGoto, Claim, counters
  <2>2. CASE CountClaimed
    BY <1>5, <2>0, <2>2 DEF Balance, IInv, TypeOK, CountersInv, WGoto, CountClaimed, counters
  <2>3. CASE Clear
    BY <1>5, <2>0, <2>3 DEF Balance, IInv, TypeOK, CountersInv, WGoto, Clear, counters
  <2>4. CASE DropReceiver
    BY <1>5, <2>0, <2>4 DEF Balance, IInv, TypeOK, CountersInv, WGoto, DropReceiver, counters
  <2> QED BY <2>1, <2>2, <2>3, <2>4
<1>7. queued' <= Capacity
  BY CapacityIsNat DEF IInv, TypeOK, Claim, CountClaimed, Clear, DropReceiver
<1> QED BY <1>1, <1>3, <1>4, <1>5, <1>6, <1>7 DEF IInv, Capacity

----------------------------------------------------------------------------
(* Theorems. *)

LEMMA InitEstablishes == Init => IInv
<1> SUFFICES ASSUME Init PROVE IInv
  OBVIOUS
<1>1. \A S : "idle" \notin S => {p \in Producers : pc[p] \in S} = {}
  BY DEF Init
<1>2. \A S : "idle" \notin S => ProducersAt(S) = 0
  BY <1>1, FS_EmptySet DEF ProducersAt
<1>3. {p \in Producers : pc[p] # "idle"} = {}
  BY DEF Init
<1>4. TypeOK
  BY DEF Init, TypeOK, ProducerSteps, WriterSteps
<1>5. CountersInv /\ WindowInv
  BY <1>2 DEF Init, CountersInv, WindowInv, One, Holding, InWindow, Passing, Slotted,
              Sending, InHand, Claimed
<1>6. Conservation
  BY <1>2 DEF Init, Conservation, Uncounted, Twice
<1>7. queued <= Capacity
  BY CapacityIsNat DEF Init
<1> QED BY <1>3, <1>4, <1>5, <1>6, <1>7, FS_EmptySet DEF IInv

\* Every counter is what it stands for, in every reachable state; in particular
\* no checked decrement of telemetry.rs meets a zero.
THEOREM TelemetryInvariant == Spec => []IInv
<1>1. Init => IInv
  BY InitEstablishes
<1>2. IInv /\ [Next]_vars => IInv'
  <2> SUFFICES ASSUME IInv, [Next]_vars PROVE IInv'
    OBVIOUS
  <2>1. CASE UNCHANGED vars
    <3>1. /\ \A S : ProducersAt(S)' = ProducersAt(S)
          /\ {p \in Producers : pc[p] # "idle"}' = {p \in Producers : pc[p] # "idle"}
      BY <2>1, ProducersStay DEF vars
    <3> QED BY <2>1, <3>1 DEF IInv, vars, counters, writer, TypeOK, CountersInv, WindowInv,
               Conservation, Uncounted, Twice, One, Capacity
  <2>2. ASSUME NEW p \in Producers, Enter(p) \/ Offer(p) PROVE IInv'
    BY <2>2, OutsidePreserves, WindowPreserves, HandOverPreserves, DropPreserves DEF Offer
  <2>3. CASE Writer
    BY <2>3, DeliveryPreserves, CloseWindowPreserves, ClaimPreserves DEF Writer
  <2> QED BY <2>1, <2>2, <2>3 DEF Next
<1> QED BY <1>1, <1>2, PTL DEF Spec

\* Every record is in exactly one place, none is sent after the claim, and the
\* queue is bounded, for any number of producers and whatever the sink does
\* (telemetry.rs offer_with, TelemetryWriter::run).
THEOREM EveryRecordIsCountedHolds == Spec => []EveryRecordIsCounted
<1>1. IInv => EveryRecordIsCounted
  <2> SUFFICES ASSUME IInv PROVE EveryRecordIsCounted
    OBVIOUS
  <2>1. /\ ProducersAt(Sending) \in Nat /\ ProducersAt(Slotted) \in Nat
        /\ ProducersAt(Sending) <= ProducersAt(Slotted)
    BY CountsAreOrdered
  <2>2. NoSendAfterClaim
    BY DEF IInv, WindowInv, NoSendAfterClaim, Claimed, Passing
  <2>3. QueueBounded
    BY <2>1, CapacityIsNat DEF IInv, TypeOK, CountersInv, QueueBounded, One
  <2> QED BY <2>2, <2>3 DEF IInv, EveryRecordIsCounted
<1> QED BY <1>1, TelemetryInvariant, PTL
=============================================================================
