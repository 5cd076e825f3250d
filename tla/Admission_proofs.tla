----------------------------- MODULE Admission_proofs -----------------------------
(***************************************************************************)
(* Admission for any set of attempts, weights and capacities: permits are   *)
(* conserved, and a drain that was reported is final.  The lemmas are       *)
(* stated one action at a time, so that the modules that compose Admission  *)
(* with their own components can cite them through an instance.             *)
(***************************************************************************)
EXTENDS Admission, FiniteSetTheorems, TLAPS

\* Every permit that is out is one of a finite set, and with those that are
\* available they make the capacity.
PermitsInv ==
    \A p \in Pools :
        /\ IsFiniteSet(OwnedPermits(p))
        /\ available[p] + Cardinality(OwnedPermits(p)) = Capacity[p]

\* The drain goes through the pools in order and waits after the last one.
Passed(p) == CASE p = "http"    -> {"uploads", "ws", "done"}
               [] p = "uploads" -> {"ws", "done"}
               [] p = "ws"      -> {"done"}

DrainInv ==
    /\ drainer = "idle" <=> phase = "Running"
    /\ \A p \in Pools : closed[p] <=> drainer \in Passed(p)
    /\ waiter # "idle" => drainer = "done"
    /\ \A t \in Tokens : stage[t] = "shut" => phase = "Draining"

IInv == TypeOK /\ PermitsInv /\ DrainInv /\ DrainedIsFinal

----------------------------------------------------------------------------
(* Owned permits. *)

\* The permits of one attempt are as many as its weight.
LEMMA WeightOfOne ==
    ASSUME NEW t \in Tokens
    PROVE  /\ IsFiniteSet({t} \X (1..Weight[t]))
           /\ Cardinality({t} \X (1..Weight[t])) = Weight[t]
<1>1. Weight[t] \in Nat \ {0}
  BY TokenAssumption
<1>2. IsFiniteSet(1..Weight[t]) /\ Cardinality(1..Weight[t]) = Weight[t]
  BY <1>1, FS_Interval, SMTT(30)
<1>3. IsFiniteSet({t}) /\ Cardinality({t}) = 1
  BY FS_Singleton
<1>4. /\ IsFiniteSet({t} \X (1..Weight[t]))
      /\ Cardinality({t} \X (1..Weight[t])) = 1 * Weight[t]
  BY <1>2, <1>3, FS_Product, ZenonT(60)
<1> QED BY <1>1, <1>4

\* The owners of a pool are unchanged when no attempt of it starts or ends
\* owning.
LEMMA SameOwners ==
    ASSUME NEW p, \A t \in Tokens : PoolOf[t] = p => (Owns(t)' <=> Owns(t))
    PROVE  OwnedPermits(p)' = OwnedPermits(p)
<1>1. Owners(p)' = Owners(p)
  BY DEF Owners
<1> QED BY <1>1 DEF OwnedPermits

\* An attempt that takes permits adds as many as its weight, and they are new.
LEMMA OwnerAdds ==
    ASSUME NEW t \in Tokens, NEW S \in SUBSET Tokens, t \notin S,
           IsFiniteSet(UNION {{u} \X (1..Weight[u]) : u \in S})
    PROVE  LET before == UNION {{u} \X (1..Weight[u]) : u \in S}
               after  == UNION {{u} \X (1..Weight[u]) : u \in S \cup {t}}
           IN  /\ IsFiniteSet(after)
               /\ Cardinality(after) = Cardinality(before) + Weight[t]
<1> DEFINE Of(u)  == {u} \X (1..Weight[u])
           before == UNION {Of(u) : u \in S}
           after  == UNION {Of(u) : u \in S \cup {t}}
<1>1. after = before \cup Of(t)
  OBVIOUS
<1>2. before \cap Of(t) = {}
  OBVIOUS
<1>3. IsFiniteSet(Of(t)) /\ Cardinality(Of(t)) = Weight[t]
  BY WeightOfOne
<1>4. Weight[t] \in Nat
  BY TokenAssumption
<1> HIDE DEF Of
<1>5. Cardinality(before) \in Nat
  BY FS_CardinalityType DEF Of
<1>6. IsFiniteSet(before)
  BY DEF Of
<1>7. Cardinality({}) = 0
  BY FS_EmptySet
<1> HIDE DEF before, after
<1>8. IsFiniteSet(after)
      /\ Cardinality(after) = Cardinality(before) + Cardinality(Of(t))
                              - Cardinality(before \cap Of(t))
  BY <1>1, <1>3, <1>6, FS_Union
<1>9. Cardinality(before \cap Of(t)) = 0
  BY <1>2, <1>7
<1>10. Cardinality(after) = Cardinality(before) + Weight[t]
  BY <1>3, <1>4, <1>5, <1>8, <1>9
<1> QED BY <1>8, <1>10 DEF before, after, Of

LEMMA TakesPermits ==
    ASSUME NEW t \in Tokens, ~Owns(t), Owns(t)',
           \A u \in Tokens \ {t} : Owns(u)' <=> Owns(u),
           IsFiniteSet(OwnedPermits(PoolOf[t]))
    PROVE  LET p == PoolOf[t] IN
           /\ IsFiniteSet(OwnedPermits(p)')
           /\ Cardinality(OwnedPermits(p)') = Cardinality(OwnedPermits(p)) + Weight[t]
<1>1. Owners(PoolOf[t])' = Owners(PoolOf[t]) \cup {t} /\ t \notin Owners(PoolOf[t])
  BY DEF Owners
<1>2. Owners(PoolOf[t]) \in SUBSET Tokens
  BY DEF Owners
<1> QED BY <1>1, <1>2, OwnerAdds DEF OwnedPermits

LEMMA GivesPermits ==
    ASSUME NEW t \in Tokens, Owns(t), ~Owns(t)',
           \A u \in Tokens \ {t} : Owns(u)' <=> Owns(u),
           IsFiniteSet(OwnedPermits(PoolOf[t]))
    PROVE  LET p == PoolOf[t] IN
           /\ IsFiniteSet(OwnedPermits(p)')
           /\ Cardinality(OwnedPermits(p)) = Cardinality(OwnedPermits(p)') + Weight[t]
<1>1. Owners(PoolOf[t]) = Owners(PoolOf[t])' \cup {t} /\ t \notin Owners(PoolOf[t])'
  BY DEF Owners
<1>2. Owners(PoolOf[t])' \in SUBSET Tokens
  BY DEF Owners
<1>3. OwnedPermits(PoolOf[t])' \subseteq OwnedPermits(PoolOf[t])
  BY <1>1 DEF OwnedPermits
<1>4. IsFiniteSet(OwnedPermits(PoolOf[t])')
  BY <1>3, FS_Subset
<1> QED BY <1>1, <1>2, <1>4, OwnerAdds DEF OwnedPermits

----------------------------------------------------------------------------
(* Permits are conserved. *)

LEMMA NoPermitMoves ==
    ASSUME PermitsInv, UNCHANGED available,
           \A t \in Tokens : Owns(t)' <=> Owns(t)
    PROVE  PermitsInv'
BY SameOwners DEF PermitsInv

LEMMA PermitsMoveOne ==
    ASSUME TypeOK, PermitsInv, NEW t \in Tokens,
           \A u \in Tokens \ {t} : Owns(u)' <=> Owns(u),
           \/ ~Owns(t) /\ Owns(t)'
              /\ available' = [available EXCEPT ![PoolOf[t]] = @ - Weight[t]]
           \/ Owns(t) /\ ~Owns(t)' /\ GiveBack(t)
    PROVE  PermitsInv'
<1>1. PoolOf[t] \in Pools /\ Weight[t] \in Nat
  BY TokenAssumption
<1>2. available[PoolOf[t]] \in Nat
  BY <1>1 DEF TypeOK
<1>3. IsFiniteSet(OwnedPermits(PoolOf[t]))
      /\ available[PoolOf[t]] + Cardinality(OwnedPermits(PoolOf[t])) = Capacity[PoolOf[t]]
  BY <1>1 DEF PermitsInv
<1>4. Cardinality(OwnedPermits(PoolOf[t])) \in Nat
  BY <1>3, FS_CardinalityType
<1>5. /\ IsFiniteSet(OwnedPermits(PoolOf[t])')
      /\ available'[PoolOf[t]] + Cardinality(OwnedPermits(PoolOf[t])') = Capacity[PoolOf[t]]
  <2>1. CASE ~Owns(t) /\ Owns(t)'
             /\ available' = [available EXCEPT ![PoolOf[t]] = @ - Weight[t]]
    <3>1. available'[PoolOf[t]] = available[PoolOf[t]] - Weight[t]
      BY <1>1, <2>1 DEF TypeOK
    <3>2. /\ IsFiniteSet(OwnedPermits(PoolOf[t])')
          /\ Cardinality(OwnedPermits(PoolOf[t])')
               = Cardinality(OwnedPermits(PoolOf[t])) + Weight[t]
      BY <1>3, <2>1, TakesPermits
    <3> QED BY <1>1, <1>2, <1>3, <1>4, <3>1, <3>2
  <2>2. CASE Owns(t) /\ ~Owns(t)' /\ GiveBack(t)
    <3>1. available'[PoolOf[t]] = available[PoolOf[t]] + Weight[t]
      BY <1>1, <2>2 DEF TypeOK, GiveBack
    <3>2. /\ IsFiniteSet(OwnedPermits(PoolOf[t])')
          /\ Cardinality(OwnedPermits(PoolOf[t]))
               = Cardinality(OwnedPermits(PoolOf[t])') + Weight[t]
      BY <1>3, <2>2, GivesPermits
    <3>3. Cardinality(OwnedPermits(PoolOf[t])') \in Nat
      BY <3>2, FS_CardinalityType
    <3> QED BY <1>1, <1>2, <1>3, <1>4, <3>1, <3>2, <3>3
  <2> QED BY <2>1, <2>2
<1>6. ASSUME NEW p \in Pools, p # PoolOf[t]
      PROVE  available'[p] = available[p] /\ OwnedPermits(p)' = OwnedPermits(p)
  <2>1. available'[p] = available[p]
    BY <1>6 DEF TypeOK, GiveBack
  <2> QED BY <1>6, <2>1, SameOwners
<1> QED BY <1>5, <1>6 DEF PermitsInv

\* An attempt moves alone.
LEMMA GotoMovesOne ==
    ASSUME TypeOK, NEW t \in Tokens, NEW s \in Stages, Goto(t, s)
    PROVE  /\ stage' \in [Tokens -> Stages]
           /\ stage'[t] = s
           /\ \A u \in Tokens \ {t} : stage'[u] = stage[u]
           /\ \A u \in Tokens \ {t} : Owns(u)' <=> Owns(u)
BY DEF TypeOK, Goto, Owns

----------------------------------------------------------------------------
(* One lemma per operation. *)

LEMMA InitEstablishes == Init => IInv
<1> SUFFICES ASSUME Init PROVE IInv
  OBVIOUS
<1>1. TypeOK
  BY TokenAssumption DEF Init, TypeOK, Stages
<1>2. PermitsInv
  <2>1. \A p : OwnedPermits(p) = {}
    BY DEF Init, OwnedPermits, Owners, Owns
  <2>2. \A p \in Pools : Capacity[p] \in Nat
    BY TokenAssumption
  <2> QED BY <2>1, <2>2, FS_EmptySet DEF Init, PermitsInv
<1>3. DrainInv /\ DrainedIsFinal
  BY DEF Init, DrainInv, DrainedIsFinal, Passed, Pools
<1> QED BY <1>1, <1>2, <1>3 DEF IInv

\* A step of one attempt that takes no permit.
LEMMA QuietStepPreserves ==
    ASSUME IInv, NEW t \in Tokens, NEW s \in Stages, Goto(t, s),
           UNCHANGED <<life, available>>, Owns(t) <=> Owns(t)',
           s = "shut" => phase = "Draining"
    PROVE  IInv'
<1>1. TypeOK'
  BY GotoMovesOne DEF IInv, TypeOK, life
<1>2. \A u \in Tokens : Owns(u)' <=> Owns(u)
  BY GotoMovesOne DEF IInv
<1>3. PermitsInv'
  BY <1>2, NoPermitMoves DEF IInv
<1>4. DrainInv'
  BY GotoMovesOne, ZenonT(60) DEF IInv, DrainInv, life, Passed
<1>5. DrainedIsFinal'
  BY <1>2 DEF IInv, DrainedIsFinal, life
<1> QED BY <1>1, <1>3, <1>4, <1>5 DEF IInv

LEMMA TryAcquirePreserves ==
    ASSUME IInv, NEW t \in Tokens, TryAcquire(t)
    PROVE  IInv'
<1> DEFINE p == PoolOf[t]
<1>1. p \in Pools /\ Weight[t] \in Nat \ {0}
  BY TokenAssumption
<1>2. CASE ~closed[p] /\ available[p] >= Weight[t]
  <2>1. /\ Goto(t, "commit") /\ UNCHANGED life /\ stage[t] = "acquire"
        /\ available' = [available EXCEPT ![p] = @ - Weight[t]]
    BY <1>2 DEF TryAcquire
  <2>2. /\ stage' \in [Tokens -> Stages] /\ stage'[t] = "commit"
        /\ \A u \in Tokens \ {t} : stage'[u] = stage[u]
        /\ \A u \in Tokens \ {t} : Owns(u)' <=> Owns(u)
    BY <2>1, GotoMovesOne DEF IInv, Stages
  <2>3. TypeOK'
    BY <1>1, <1>2, <2>1, <2>2 DEF IInv, TypeOK, life
  <2>4. PermitsInv'
    BY <2>1, <2>2, PermitsMoveOne DEF IInv, Owns
  <2>5. DrainInv'
    BY <2>1, <2>2 DEF IInv, DrainInv, life, Passed
  <2>6. DrainedIsFinal'
    <3>1. waiter = "drained" => p # "ws"
      BY <1>1, <1>2 DEF IInv, DrainInv, Passed, Pools
    <3> QED BY <2>1, <2>2, <3>1 DEF IInv, DrainedIsFinal, life
  <2> QED BY <2>3, <2>4, <2>5, <2>6 DEF IInv
<1>3. CASE ~(~closed[p] /\ available[p] >= Weight[t])
  <2>1. PICK s \in {"shut", "full"} :
          /\ Goto(t, s) /\ UNCHANGED <<life, available>> /\ stage[t] = "acquire"
          /\ s = "shut" => closed[p]
    BY <1>3 DEF TryAcquire
  <2>2. s = "shut" => phase = "Draining"
    BY <1>1, <2>1 DEF IInv, TypeOK, DrainInv, Passed, Pools
  <2>3. Owns(t) <=> Owns(t)'
    BY <2>1 DEF IInv, TypeOK, Goto, Owns
  <2> QED BY <2>1, <2>2, <2>3, QuietStepPreserves DEF Stages
<1> QED BY <1>2, <1>3

LEMMA GivingBackPreserves ==
    ASSUME IInv, NEW t \in Tokens, Surrender(t) \/ Release(t)
    PROVE  IInv'
<1>1. PICK s \in {"draining", "idle"} : Goto(t, s)
  BY DEF Surrender, Release
<1>2. GiveBack(t) /\ UNCHANGED life /\ Owns(t)
  BY DEF Surrender, Release, Owns
<1>3. /\ stage' \in [Tokens -> Stages] /\ stage'[t] = s
      /\ \A u \in Tokens \ {t} : stage'[u] = stage[u]
      /\ \A u \in Tokens \ {t} : Owns(u)' <=> Owns(u)
  BY <1>1, GotoMovesOne DEF IInv, Stages
<1>4. ~Owns(t)'
  BY <1>3 DEF Owns
<1>5. TypeOK'
  BY <1>2, <1>3, TokenAssumption DEF IInv, TypeOK, GiveBack, life
<1>6. PermitsInv'
  BY <1>2, <1>3, <1>4, PermitsMoveOne DEF IInv
<1>7. DrainInv'
  BY <1>2, <1>3 DEF IInv, DrainInv, life, Passed
<1>8. DrainedIsFinal'
  BY <1>2, <1>3, <1>4 DEF IInv, DrainedIsFinal, life
<1> QED BY <1>5, <1>6, <1>7, <1>8 DEF IInv

LEMMA AdmitPreserves ==
    ASSUME IInv, NEW t \in Tokens, Admit(t) \/ Retry(t)
    PROVE  IInv'
<1>1. CASE ReadPhase(t) \/ ClassifyRefusal(t) \/ Commit(t) \/ Retry(t)
  <2>1. PICK s \in Stages : /\ Goto(t, s) /\ UNCHANGED <<life, available>>
                            /\ s # "shut"
                            /\ Owns(t) <=> s \in {"commit", "surrender", "held"}
    BY <1>1 DEF ReadPhase, ClassifyRefusal, Commit, Retry, Owns, Stages
  <2>2. Owns(t) <=> Owns(t)'
    BY <2>1, GotoMovesOne DEF IInv, Owns
  <2> QED BY <2>1, <2>2, QuietStepPreserves
<1>2. CASE TryAcquire(t)
  BY <1>2, TryAcquirePreserves
<1>3. CASE Surrender(t)
  BY <1>3, GivingBackPreserves
<1> QED BY <1>1, <1>2, <1>3 DEF Admit

\* With nothing out, the poll that reports Drained sees the whole capacity.
LEMMA AllBackMeansNoOwner ==
    ASSUME IInv, NEW p \in Pools, available[p] = Capacity[p]
    PROVE  Owners(p) = {}
<1>1. IsFiniteSet(OwnedPermits(p)) /\ Cardinality(OwnedPermits(p)) = 0
  <2>1. Capacity[p] \in Nat
    BY TokenAssumption
  <2>2. IsFiniteSet(OwnedPermits(p))
        /\ available[p] + Cardinality(OwnedPermits(p)) = Capacity[p]
    BY DEF IInv, PermitsInv
  <2>3. Cardinality(OwnedPermits(p)) \in Nat
    BY <2>2, FS_CardinalityType
  <2> QED BY <2>1, <2>2, <2>3
<1>2. OwnedPermits(p) = {}
  BY <1>1, FS_EmptySet
<1>3. \A t \in Owners(p) : <<t, 1>> \in OwnedPermits(p)
  <2> TAKE t \in Owners(p)
  <2>1. t \in Tokens /\ 1 \in 1..Weight[t]
    BY TokenAssumption DEF Owners
  <2>2. <<t, 1>> \in {t} \X (1..Weight[t])
    BY <2>1
  <2> QED BY <2>2 DEF OwnedPermits
<1> QED BY <1>2, <1>3

LEMMA ShutdownPreserves ==
    ASSUME IInv, BeginDraining \/ Shutdown
    PROVE  IInv'
<1>1. UNCHANGED <<available, stage>>
  BY DEF BeginDraining, Shutdown, Close, StartWaiting, Poll, AfterSleep
<1>2. \A t \in Tokens : Owns(t)' <=> Owns(t)
  BY <1>1 DEF Owns
<1>3. PermitsInv'
  BY <1>1, <1>2, NoPermitMoves DEF IInv
<1>4. TypeOK'
  BY <1>1 DEF IInv, TypeOK, BeginDraining, Shutdown, Close, AfterClosing,
              StartWaiting, Poll, AfterSleep, Pools
<1>5. DrainInv'
  BY <1>1 DEF IInv, TypeOK, DrainInv, Passed, BeginDraining, Shutdown, Close,
              AfterClosing, StartWaiting, Poll, AfterSleep, Pools
<1>6. DrainedIsFinal'
  <2>1. CASE Poll
    <3>1. waiter' = "drained" => Owners("ws") = {}
      BY <2>1, AllBackMeansNoOwner DEF Poll, Pools
    <3> QED BY <1>2, <3>1 DEF DrainedIsFinal, Owners
  <2>2. CASE BeginDraining \/ Close \/ StartWaiting \/ AfterSleep
    BY <1>2, <2>2 DEF IInv, DrainedIsFinal, BeginDraining, Close, StartWaiting, AfterSleep
  <2> QED BY <2>1, <2>2 DEF Shutdown
<1> QED BY <1>3, <1>4, <1>5, <1>6 DEF IInv

\* Every step of admission, and of a module that leaves admission alone.
LEMMA StepPreserves == ASSUME IInv, [Next]_vars PROVE IInv'
<1>1. CASE UNCHANGED vars
  <2>1. \A t \in Tokens : Owns(t)' <=> Owns(t)
    BY <1>1 DEF vars, Owns
  <2>2. PermitsInv'
    BY <1>1, <2>1, NoPermitMoves DEF IInv, vars
  <2> QED BY <1>1, <2>1, <2>2 DEF IInv, vars, TypeOK, DrainInv, DrainedIsFinal, Passed
<1>2. CASE Next
  BY <1>2, AdmitPreserves, GivingBackPreserves, ShutdownPreserves DEF Next
<1> QED BY <1>1, <1>2

----------------------------------------------------------------------------
(* Theorems. *)

THEOREM AdmissionInvariant == Spec => []IInv
<1>1. Init => IInv
  BY InitEstablishes
<1>2. IInv /\ [Next]_vars => IInv'
  BY StepPreserves
<1> QED BY <1>1, <1>2, PTL DEF Spec

\* No interleaving of attempts, drops and a drain loses or invents a permit,
\* for any weights and capacities (admission.rs: Pending*Admission::commit).
THEOREM PermitsConservedHolds == Spec => []PermitsConserved
<1>1. IInv => PermitsConserved
  BY DEF IInv, PermitsInv, PermitsConserved
<1> QED BY <1>1, AdmissionInvariant, PTL

\* Once wait_for_ws_drain has reported Drained, no session owns a permit, and
\* none ever will (admission.rs wait_for_ws_drain).
THEOREM DrainedIsFinalHolds == Spec => []DrainedIsFinal
<1>1. IInv => DrainedIsFinal
  BY DEF IInv
<1> QED BY <1>1, AdmissionInvariant, PTL

\* What one step can never do to an attempt: admit it while the service drains,
\* call it overloaded when the drain has shut its semaphore, or shut it without
\* the drain.
LEMMA StepRespectsDrain ==
    ASSUME IInv, [Next]_vars, NEW t \in Tokens
    PROVE  /\ phase = "Draining" /\ stage'[t] = "held" => stage[t] = "held"
           /\ stage'[t] = "overloaded" => stage[t] \in {"full", "overloaded"}
<1>1. CASE UNCHANGED stage
  BY <1>1
<1>2. ASSUME NEW u \in Tokens, Admit(u) \/ Release(u) \/ Retry(u)
      PROVE  /\ phase = "Draining" /\ stage'[t] = "held" => stage[t] = "held"
             /\ stage'[t] = "overloaded" => stage[t] \in {"full", "overloaded"}
  <2>1. CASE u # t
    <3>1. PICK s : Goto(u, s)
      BY <1>2 DEF Admit, ReadPhase, TryAcquire, ClassifyRefusal, Commit, Surrender,
                  Release, Retry
    <3>2. stage'[t] = stage[t]
      BY <2>1, <3>1 DEF IInv, TypeOK, Goto
    <3> QED BY <3>2
  <2>2. CASE u = t
    BY <1>2, <2>2 DEF IInv, TypeOK, DrainInv, Goto, Admit, ReadPhase, TryAcquire,
                      ClassifyRefusal, Commit, Surrender, Release, Retry
  <2> QED BY <2>1, <2>2
<1> QED BY <1>1, <1>2 DEF Next, vars, BeginDraining, Shutdown, Close, StartWaiting,
                          Poll, AfterSleep
=============================================================================
