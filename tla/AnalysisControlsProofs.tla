----------------------- MODULE AnalysisControlsProofs -----------------------
(***************************************************************************)
(* Proofs that the request limit and the overshoot of the budget hold for  *)
(* any number of workers and tenants and any limits.                       *)
(*                                                                         *)
(* The limit needs that no more requests are admitted than were counted.   *)
(* The budget needs a potential: what is used, and what the jobs past the  *)
(* check may still add.                                                    *)
(***************************************************************************)
EXTENDS AnalysisControls, TLAPS, FiniteSetTheorems

\* Every admitted request was counted by an INCR of its own.
AdmittedIsCounted == \A t \in Tenants, m \in Minutes : admitted[t][m] <= rate[t][m]

\* The values workers carry from one step to the next.
ValuesInRange ==
    \A w \in Workers :
        /\ pc[w] # "idle" => tenant[w] \in Tenants
        /\ pc[w] = "rate" => value[w] \in Minutes
        /\ pc[w] = "store" => value[w] <= MaxTokens

\* What the jobs in flight may still add is part of the bound already.
Potential ==
    \A t \in Tenants :
        used[t] + MaxTokens * Cardinality(InFlight(t))
            <= Budget - 1 + MaxTokens * Cardinality(Workers)

Inv == TypeOK /\ ValuesInRange /\ AdmittedIsCounted /\ RateKept /\ Potential

---------------------------------------------------------------------------
(* Arithmetic and cardinalities.                                           *)

LEMMA Limits ==
  /\ requestsPerMinute \in Nat \ {0} /\ failureThreshold \in Nat \ {0}
  /\ Budget \in Nat \ {0} /\ MaxTokens \in Nat \ {0} /\ LastMinute \in Nat \ {0}
  BY CountsAssumption

LEMMA MoreTokens ==
  ASSUME NEW a \in Nat, NEW b \in Nat, a <= b
  PROVE  /\ MaxTokens * a \in Nat
         /\ MaxTokens * a <= MaxTokens * b
         /\ MaxTokens * (a + 1) = MaxTokens * a + MaxTokens
  <1>1. PICK d \in Nat : b = a + d
    <2>1. b - a \in Nat /\ b = a + (b - a)
      OBVIOUS
    <2>2. QED
      BY <2>1
  <1>2. MaxTokens * a \in Nat /\ MaxTokens * d \in Nat
    BY Limits
  <1>3. MaxTokens * b = MaxTokens * a + MaxTokens * d
    BY <1>1, Limits
  <1>4. QED
    BY <1>2, <1>3, Limits

LEMMA InFlightIsFinite ==
  ASSUME NEW t \in Tenants
  PROVE  /\ IsFiniteSet(InFlight(t))
         /\ Cardinality(InFlight(t)) \in Nat
         /\ Cardinality(Workers) \in Nat
         /\ Cardinality(InFlight(t)) <= Cardinality(Workers)
  <1>1. InFlight(t) \subseteq Workers
    BY DEF InFlight
  <1>2. QED
    BY <1>1, FiniteAssumption, FS_Subset, FS_CardinalityType

---------------------------------------------------------------------------
(* Initial states and types.                                               *)

LEMMA InitInv == Init => Inv
  <1> SUFFICES ASSUME Init PROVE Inv
    OBVIOUS
  <1> USE Limits
  <1>1. TypeOK /\ ValuesInRange
    <2>1. 0 \in Minutes
      BY DEF Minutes
    <2>2. TypeOK
      BY <2>1 DEF Init, TypeOK
    <2>3. ValuesInRange
      BY DEF Init, ValuesInRange
    <2>4. QED
      BY <2>2, <2>3
  <1>2. AdmittedIsCounted /\ RateKept
    BY DEF Init, AdmittedIsCounted, RateKept
  <1>3. ASSUME NEW t \in Tenants
        PROVE  used[t] + MaxTokens * Cardinality(InFlight(t))
                 <= Budget - 1 + MaxTokens * Cardinality(Workers)
    <2>1. InFlight(t) = {}
      BY DEF Init, InFlight
    <2>2. Cardinality(InFlight(t)) = 0
      BY <2>1, FS_EmptySet
    <2>3. MaxTokens * 0 = 0 /\ MaxTokens * Cardinality(Workers) \in Nat
      BY InFlightIsFinite, MoreTokens
    <2>4. QED
      BY <2>2, <2>3 DEF Init
  <1>4. QED
    BY <1>1, <1>2, <1>3 DEF Inv, Potential

Steps == {"idle", "rate", "budget", "call", "store", "fail", "expire", "trip"}

\* The part of the type invariant that concerns a worker.
WorkerTypes ==
    /\ pc \in [Workers -> Steps]
    /\ tenant \in [Workers -> Tenants \cup {None}]
    /\ value \in [Workers -> Nat]

\* The part that concerns the keys, the records and the history.
KeyTypes ==
    /\ clock \in Minutes
    /\ rate \in [Tenants -> [Minutes -> Nat]]
    /\ failures \in Nat /\ volatile \in BOOLEAN /\ circuit \in BOOLEAN
    /\ used \in [Tenants -> Nat]
    /\ admitted \in [Tenants -> [Minutes -> Nat]]
    /\ orphaned \in BOOLEAN

LEMMA GoToTypes ==
  ASSUME TypeOK, NEW w \in Workers, NEW step \in Steps, NEW v \in Nat, GoTo(w, step, v)
  PROVE  WorkerTypes'
  BY DEF TypeOK, GoTo, WorkerTypes, Steps

LEMMA FinishTypes ==
  ASSUME TypeOK, NEW w \in Workers, Finish(w)
  PROVE  WorkerTypes'
  BY DEF TypeOK, Finish, WorkerTypes, Steps

\* A job keeps a value its next step can use.
LEMMA NextTypes ==
  ASSUME TypeOK, ValuesInRange, [Next]_vars
  PROVE  TypeOK' /\ ValuesInRange'
  <1> USE DEF TypeOK, KeyTypes, ValuesInRange, history
  <1>0. Minutes \subseteq Nat
    BY DEF Minutes
  <1>1. ASSUME NEW w \in Workers, NEW t \in Tenants, ReadCircuit(w, t)
        PROVE  TypeOK' /\ ValuesInRange'
    <2>1. TypeOK'
      BY <1>0, <1>1 DEF ReadCircuit
    <2>2. ValuesInRange'
      BY <1>1 DEF ReadCircuit
    <2>3. QED
      BY <2>1, <2>2
  <1>2. ASSUME NEW w \in Workers, Step(w)
        PROVE  TypeOK' /\ ValuesInRange'
    <2>1. CASE CountRequest(w)
      <3>1. WorkerTypes'
        BY <2>1, GoToTypes, FinishTypes DEF CountRequest, Steps
      <3>2. KeyTypes'
        <4>1. tenant[w] \in Tenants /\ value[w] \in Minutes
          BY <2>1 DEF CountRequest
        <4>2. rate' \in [Tenants -> [Minutes -> Nat]]
          <5>1. rate[tenant[w]][value[w]] + 1 \in Nat
            BY <4>1
          <5>2. rate' = [rate EXCEPT ![tenant[w]][value[w]] = rate[tenant[w]][value[w]] + 1]
            BY <2>1 DEF CountRequest
          <5>3. QED
            BY <4>1, <5>1, <5>2
        <4>3. admitted' \in [Tenants -> [Minutes -> Nat]]
          <5>1. admitted[tenant[w]][value[w]] + 1 \in Nat
            BY <4>1
          <5>2. \/ UNCHANGED admitted
                \/ admitted' = [admitted EXCEPT ![tenant[w]][value[w]] = admitted[tenant[w]][value[w]] + 1]
            BY <2>1 DEF CountRequest
          <5>3. CASE UNCHANGED admitted
            BY <5>3
          <5>4. CASE admitted' = [admitted EXCEPT ![tenant[w]][value[w]] = admitted[tenant[w]][value[w]] + 1]
            BY <4>1, <5>1, <5>4
          <5>5. QED
            BY <5>2, <5>3, <5>4
        <4>4. QED
          BY <2>1, <4>2, <4>3 DEF CountRequest
      <3>3. ValuesInRange'
        BY <2>1 DEF CountRequest, GoTo, Finish
      <3>4. QED
        BY <3>1, <3>2, <3>3 DEF WorkerTypes, Steps
    <2>2. CASE CheckBudget(w)
      <3>1. WorkerTypes'
        BY <2>2, GoToTypes, FinishTypes DEF CheckBudget, Steps
      <3>2. KeyTypes'
        BY <2>2 DEF CheckBudget
      <3>3. ValuesInRange'
        BY <2>2 DEF CheckBudget, GoTo, Finish
      <3>4. QED
        BY <3>1, <3>2, <3>3 DEF WorkerTypes, Steps
    <2>3. CASE CallProvider(w)
      <3>0. \A n \in 1 .. MaxTokens : n \in Nat /\ n <= MaxTokens
        BY Limits
      <3>1. WorkerTypes'
        BY <2>3, <3>0, GoToTypes, FinishTypes DEF CallProvider, Steps
      <3>2. KeyTypes'
        BY <2>3 DEF CallProvider
      <3>3. ValuesInRange'
        BY <2>3, <3>0 DEF CallProvider, GoTo, Finish
      <3>4. QED
        BY <3>1, <3>2, <3>3 DEF WorkerTypes, Steps
    <2>4. CASE StoreResult(w)
      <3>1. WorkerTypes'
        BY <2>4, GoToTypes, FinishTypes DEF StoreResult, Steps
      <3>2. KeyTypes'
        BY <2>4 DEF StoreResult
      <3>3. ValuesInRange'
        BY <2>4 DEF StoreResult, GoTo, Finish
      <3>4. QED
        BY <3>1, <3>2, <3>3 DEF WorkerTypes, Steps
    <2>5. CASE CountFailure(w)
      BY <2>5 DEF CountFailure, GoTo
    <2>6. CASE ExpireFailures(w)
      <3>1. WorkerTypes'
        BY <2>6, GoToTypes, FinishTypes DEF ExpireFailures, Steps
      <3>2. KeyTypes'
        BY <2>6 DEF ExpireFailures
      <3>3. ValuesInRange'
        BY <2>6 DEF ExpireFailures, GoTo, Finish
      <3>4. QED
        BY <3>1, <3>2, <3>3 DEF WorkerTypes, Steps
    <2>7. CASE Trip(w)
      BY <2>7 DEF Trip, Finish
    <2>8. CASE EnforceFails(w)
      BY <2>8 DEF EnforceFails, GoTo
    <2>9. QED
      BY <1>2, <2>1, <2>2, <2>3, <2>4, <2>5, <2>6, <2>7, <2>8 DEF Step
  <1>3. ASSUME NEW w \in Workers, Crash(w)
        PROVE  TypeOK' /\ ValuesInRange'
    BY <1>3 DEF Crash, Finish
  <1>4. CASE NextMinute
    <2>1. clock' \in Minutes
      BY <1>4, Limits DEF NextMinute, Minutes
    <2>2. QED
      BY <1>4, <2>1 DEF NextMinute, workerVars
  <1>5. CASE FailuresExpire
    BY <1>5 DEF FailuresExpire, workerVars
  <1>6. CASE CircuitExpires
    BY <1>6 DEF CircuitExpires, workerVars
  <1>7. CASE UNCHANGED vars
    BY <1>7 DEF vars, workerVars
  <1>8. QED
    BY <1>1, <1>2, <1>3, <1>4, <1>5, <1>6, <1>7 DEF Next

---------------------------------------------------------------------------
(* The rate.                                                               *)

\* Only CountRequest touches the rate and what it admits.
LEMMA RateSteps ==
  ASSUME [Next]_vars
  PROVE  (\E w \in Workers : CountRequest(w)) \/ UNCHANGED <<rate, admitted>>
  BY DEF Next, Step, ReadCircuit, CheckBudget, EnforceFails, CallProvider, StoreResult, CountFailure,
         ExpireFailures, Trip, Crash, NextMinute, FailuresExpire, CircuitExpires, vars, history

LEMMA NextRate ==
  ASSUME Inv, [Next]_vars
  PROVE  AdmittedIsCounted' /\ RateKept'
  <1>1. CASE UNCHANGED <<rate, admitted>>
    BY <1>1 DEF Inv, AdmittedIsCounted, RateKept
  <1>2. ASSUME NEW w \in Workers, CountRequest(w)
        PROVE  AdmittedIsCounted' /\ RateKept'
    <2> DEFINE u == tenant[w]
               n == value[w]
    <2>1. u \in Tenants /\ n \in Minutes
      BY <1>2 DEF CountRequest, Inv, ValuesInRange
    <2>2. \A t \in Tenants, m \in Minutes : rate[t][m] \in Nat /\ admitted[t][m] \in Nat
      BY DEF Inv, TypeOK
    <2>3. rate' = [rate EXCEPT ![u][n] = rate[u][n] + 1]
      BY <1>2 DEF CountRequest
    <2>4. \/ UNCHANGED admitted
          \/ /\ rate[u][n] + 1 <= requestsPerMinute
             /\ admitted' = [admitted EXCEPT ![u][n] = admitted[u][n] + 1]
      BY <1>2 DEF CountRequest, WithinRate
    <2>5. ASSUME NEW t \in Tenants, NEW m \in Minutes
          PROVE  admitted'[t][m] <= rate'[t][m] /\ admitted'[t][m] <= requestsPerMinute
      <3>1. admitted[t][m] <= rate[t][m] /\ admitted[t][m] <= requestsPerMinute
        BY DEF Inv, AdmittedIsCounted, RateKept
      <3>2. CASE t = u /\ m = n
        <4>1. rate'[t][m] = rate[t][m] + 1
          BY <2>1, <2>3, <3>2 DEF Inv, TypeOK
        <4>2. \/ admitted'[t][m] = admitted[t][m]
              \/ /\ rate[t][m] + 1 <= requestsPerMinute
                 /\ admitted'[t][m] = admitted[t][m] + 1
          BY <2>1, <2>4, <3>2 DEF Inv, TypeOK
        <4>3. QED
          BY <2>2, <3>1, <4>1, <4>2, Limits
      <3>3. CASE ~(t = u /\ m = n)
        <4>1. rate'[t][m] = rate[t][m] /\ admitted'[t][m] = admitted[t][m]
          BY <2>1, <2>3, <2>4, <3>3 DEF Inv, TypeOK
        <4>2. QED
          BY <3>1, <4>1
      <3>4. QED
        BY <3>2, <3>3
    <2>6. QED
      BY <2>5 DEF AdmittedIsCounted, RateKept
  <1>3. QED
    BY <1>1, <1>2, RateSteps

---------------------------------------------------------------------------
(* The budget.                                                             *)

\* Jobs that leave, or stay where they are, add nothing.
LEMMA PotentialKept ==
  ASSUME Inv, TypeOK', NEW t \in Tenants, used'[t] = used[t], InFlight(t)' \subseteq InFlight(t)
  PROVE  used'[t] + MaxTokens * Cardinality(InFlight(t)')
           <= Budget - 1 + MaxTokens * Cardinality(Workers)
  <1>1. Cardinality(InFlight(t)') <= Cardinality(InFlight(t)) /\ Cardinality(InFlight(t)') \in Nat
    BY InFlightIsFinite, FS_Subset, FS_CardinalityType
  <1>2. /\ MaxTokens * Cardinality(InFlight(t)') <= MaxTokens * Cardinality(InFlight(t))
        /\ MaxTokens * Cardinality(InFlight(t)') \in Nat
        /\ MaxTokens * Cardinality(InFlight(t)) \in Nat
        /\ MaxTokens * Cardinality(Workers) \in Nat
    BY <1>1, InFlightIsFinite, MoreTokens
  <1>3. used[t] \in Nat
    BY DEF Inv, TypeOK
  <1>4. used[t] + MaxTokens * Cardinality(InFlight(t))
          <= Budget - 1 + MaxTokens * Cardinality(Workers)
    BY DEF Inv, Potential
  <1>5. QED
    BY <1>2, <1>3, <1>4, Limits

\* A job that is admitted finds the tenant below its budget.
LEMMA CheckBudgetPotential ==
  ASSUME Inv, TypeOK', NEW w \in Workers, CheckBudget(w), NEW t \in Tenants
  PROVE  used'[t] + MaxTokens * Cardinality(InFlight(t)')
           <= Budget - 1 + MaxTokens * Cardinality(Workers)
  <1> USE DEF Inv, TypeOK
  <1>1. CASE tenant[w] = t /\ WithinBudget(t)
    <2>1. used'[t] = used[t] /\ used[t] \in Nat /\ used[t] <= Budget - 1
      BY <1>1, Limits DEF CheckBudget, WithinBudget
    <2>2. InFlight(t)' \subseteq Workers
      BY DEF InFlight
    <2>3. Cardinality(InFlight(t)') \in Nat /\ Cardinality(InFlight(t)') <= Cardinality(Workers)
      BY <2>2, FiniteAssumption, FS_Subset, FS_CardinalityType
    <2>4. /\ MaxTokens * Cardinality(InFlight(t)') <= MaxTokens * Cardinality(Workers)
          /\ MaxTokens * Cardinality(InFlight(t)') \in Nat
          /\ MaxTokens * Cardinality(Workers) \in Nat
      BY <2>3, InFlightIsFinite, MoreTokens
    <2>5. QED
      BY <2>1, <2>4, Limits
  <1>2. CASE ~(tenant[w] = t /\ WithinBudget(t))
    <2>1. used'[t] = used[t] /\ InFlight(t)' \subseteq InFlight(t)
      BY <1>2 DEF CheckBudget, GoTo, Finish, InFlight
    <2>2. QED
      BY <2>1, PotentialKept
  <1>3. QED
    BY <1>1, <1>2

\* A stored result takes no more than was set aside for it.
LEMMA StoreResultPotential ==
  ASSUME Inv, TypeOK', NEW w \in Workers, StoreResult(w), NEW t \in Tenants
  PROVE  used'[t] + MaxTokens * Cardinality(InFlight(t)')
           <= Budget - 1 + MaxTokens * Cardinality(Workers)
  <1> USE DEF Inv, TypeOK
  <1>1. InFlight(t)' = InFlight(t) \ {w}
    BY DEF StoreResult, Finish, GoTo, InFlight
  <1>2. CASE used'[t] = used[t]
    BY <1>1, <1>2, PotentialKept
  <1>3. CASE used'[t] # used[t]
    <2>1. tenant[w] = t /\ used'[t] = used[t] + value[w] /\ w \in InFlight(t)
      BY <1>3 DEF StoreResult, InFlight
    <2>2. used[t] \in Nat /\ value[w] \in Nat /\ value[w] <= MaxTokens
      BY DEF StoreResult, ValuesInRange
    <2>3. Cardinality(InFlight(t)') \in Nat /\ Cardinality(InFlight(t)) = Cardinality(InFlight(t)') + 1
      <3>1. Cardinality(InFlight(t)') = Cardinality(InFlight(t)) - 1
        <4>1. Cardinality(InFlight(t) \ {w}) = Cardinality(InFlight(t)) - 1
          BY <2>1, InFlightIsFinite, FS_RemoveElement, Zenon
        <4>2. QED
          BY <1>1, <4>1
      <3>2. Cardinality(InFlight(t)') \in Nat
        BY <1>1, InFlightIsFinite, FS_Subset, FS_CardinalityType
      <3>3. QED
        BY <3>1, <3>2, InFlightIsFinite
    <2>4. /\ MaxTokens * Cardinality(InFlight(t)) = MaxTokens * Cardinality(InFlight(t)') + MaxTokens
          /\ MaxTokens * Cardinality(InFlight(t)') \in Nat
          /\ MaxTokens * Cardinality(Workers) \in Nat
      BY <2>3, InFlightIsFinite, MoreTokens
    <2>5. used[t] + MaxTokens * Cardinality(InFlight(t))
            <= Budget - 1 + MaxTokens * Cardinality(Workers)
      BY DEF Potential
    <2>6. QED
      BY <2>1, <2>2, <2>4, <2>5, Limits
  <1>4. QED
    BY <1>2, <1>3

LEMMA NextPotential ==
  ASSUME Inv, [Next]_vars
  PROVE  Potential'
  <1> SUFFICES ASSUME NEW t \in Tenants
               PROVE  used'[t] + MaxTokens * Cardinality(InFlight(t)')
                        <= Budget - 1 + MaxTokens * Cardinality(Workers)
    BY DEF Potential
  <1>1. TypeOK'
    BY NextTypes DEF Inv
  <1>2. CASE \E w \in Workers : CheckBudget(w)
    BY <1>1, <1>2, CheckBudgetPotential
  <1>3. CASE \E w \in Workers : StoreResult(w)
    BY <1>1, <1>3, StoreResultPotential
  <1>4. CASE ~(\E w \in Workers : CheckBudget(w) \/ StoreResult(w))
    <2>1. UNCHANGED used
      BY <1>4 DEF Next, Step, ReadCircuit, CountRequest, EnforceFails, CallProvider, CountFailure,
         ExpireFailures, Trip, Crash, NextMinute, FailuresExpire, CircuitExpires, vars
    <2>2. InFlight(t)' \subseteq InFlight(t)
      <3> USE DEF Inv, TypeOK, InFlight
      <3>1. ASSUME NEW w \in Workers, NEW s \in Tenants, ReadCircuit(w, s)
            PROVE  InFlight(t)' \subseteq InFlight(t)
        BY <3>1 DEF ReadCircuit
      <3>2. ASSUME NEW w \in Workers, CountRequest(w)
            PROVE  InFlight(t)' \subseteq InFlight(t)
        BY <3>2 DEF CountRequest, GoTo, Finish
      <3>3. ASSUME NEW w \in Workers, CallProvider(w) \/ EnforceFails(w)
            PROVE  InFlight(t)' \subseteq InFlight(t)
        BY <3>3 DEF CallProvider, EnforceFails, GoTo
      <3>4. ASSUME NEW w \in Workers, CountFailure(w) \/ ExpireFailures(w)
            PROVE  InFlight(t)' \subseteq InFlight(t)
        BY <3>4 DEF CountFailure, ExpireFailures, GoTo
      <3>5. ASSUME NEW w \in Workers, Trip(w) \/ Crash(w)
            PROVE  InFlight(t)' \subseteq InFlight(t)
        BY <3>5 DEF Trip, Crash, Finish
      <3>6. CASE NextMinute \/ FailuresExpire \/ CircuitExpires \/ UNCHANGED vars
        BY <3>6 DEF NextMinute, FailuresExpire, CircuitExpires, vars, workerVars
      <3>7. QED
        BY <1>4, <3>1, <3>2, <3>3, <3>4, <3>5, <3>6 DEF Next, Step
    <2>3. QED
      BY <1>1, <2>1, <2>2, PotentialKept
  <1>5. QED
    BY <1>2, <1>3, <1>4

---------------------------------------------------------------------------

LEMMA NextInv == Inv /\ [Next]_vars => Inv'
  BY NextTypes, NextRate, NextPotential DEF Inv

LEMMA Invariance == Spec => []Inv
  BY InitInv, NextInv, PTL DEF Spec

\* Every variable keeps its type.
THEOREM TypeCorrect == Spec => []TypeOK
  BY Invariance, PTL DEF Inv

\* No minute admits more requests of a tenant than the limit.
THEOREM LimitHolds == Spec => []RateKept
  BY Invariance, PTL DEF Inv

\* The budget is overshot by less than one analysis for each worker.
THEOREM OvershootIsBounded == Spec => []OvershootBounded
  <1>1. Inv => OvershootBounded
    <2> SUFFICES ASSUME Inv, NEW t \in Tenants
                 PROVE  used[t] <= Budget - 1 + MaxTokens * Cardinality(Workers)
      BY DEF OvershootBounded
    <2>1. /\ MaxTokens * Cardinality(InFlight(t)) \in Nat
          /\ MaxTokens * Cardinality(Workers) \in Nat
      BY InFlightIsFinite, MoreTokens
    <2>2. used[t] \in Nat
      BY DEF Inv, TypeOK
    <2>3. QED
      BY <2>1, <2>2, Limits DEF Inv, Potential
  <1>2. QED
    BY <1>1, Invariance, PTL
=============================================================================
