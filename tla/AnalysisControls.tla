-------------------------- MODULE AnalysisControls --------------------------
(***************************************************************************)
(* The controls every worker passes before it calls the AI provider:       *)
(* the circuit breaker, the requests of a tenant per minute, the monthly   *)
(* token budget. They are kept in Redis and in the usage records; each     *)
(* Redis command and each query is one step, and workers interleave        *)
(* between them.                                                           *)
(*                                                                         *)
(* A key of the rate outlives its minute (120 s), so a worker finds it     *)
(* unless two minutes pass between its reading of the clock and its INCR;  *)
(* that is left out, and with it the EXPIRE of the rate. One month.        *)
(***************************************************************************)
EXTENDS Integers, FiniteSets

CONSTANTS
    Workers,            \* jobs in progress at once
    Tenants,
    requestsPerMinute,
    failureThreshold,
    Budget,             \* aiMonthlyTokenBudget
    MaxTokens,          \* most tokens one analysis uses
    LastMinute,         \* bound of the clock
    MaxFailures,        \* bound of the failures key
    MaxRequests,        \* bound of a rate key
    None

ASSUME CountsAssumption ==
    {requestsPerMinute, failureThreshold, Budget, MaxTokens, LastMinute, MaxFailures,
     MaxRequests}
        \subseteq Nat \ {0}
ASSUME FiniteAssumption == IsFiniteSet(Workers)
ASSUME NoneAssumption == None \notin Workers \cup Tenants

VARIABLES
    clock,     \* current minute
    rate,      \* [Tenants -> [minute -> value of the rate key]]
    failures,  \* value of the failures key; 0 if it does not exist
    volatile,  \* the failures key has a time to live
    circuit,   \* the circuit key exists
    used,      \* [Tenants -> tokens of the usage records]
    pc,        \* [Workers -> next step]
    tenant,    \* [Workers -> tenant of the job, or None]
    value,     \* [Workers -> minute it counts in; then tokens, or failures it counted]
    admitted,  \* history: [Tenants -> [minute -> requests let through by the rate]]
    orphaned   \* history: a worker died after its INCR made the failures key, before
               \* its EXPIRE

workerVars == <<pc, tenant, value>>
history == <<admitted, orphaned>>
vars == <<clock, rate, failures, volatile, circuit, used, workerVars, history>>

Minutes == 0 .. LastMinute

TypeOK ==
    /\ clock \in Minutes
    /\ rate \in [Tenants -> [Minutes -> Nat]]
    /\ failures \in Nat
    /\ volatile \in BOOLEAN
    /\ circuit \in BOOLEAN
    /\ used \in [Tenants -> Nat]
    /\ pc \in [Workers -> {"idle", "rate", "budget", "call", "store", "fail", "expire", "trip"}]
    /\ tenant \in [Workers -> Tenants \cup {None}]
    /\ value \in [Workers -> Nat]
    /\ admitted \in [Tenants -> [Minutes -> Nat]]
    /\ orphaned \in BOOLEAN

Init ==
    /\ clock = 0
    /\ rate = [t \in Tenants |-> [m \in Minutes |-> 0]]
    /\ failures = 0 /\ volatile = FALSE /\ circuit = FALSE
    /\ used = [t \in Tenants |-> 0]
    /\ pc = [w \in Workers |-> "idle"]
    /\ tenant = [w \in Workers |-> None]
    /\ value = [w \in Workers |-> 0]
    /\ admitted = [t \in Tenants |-> [m \in Minutes |-> 0]]
    /\ orphaned = FALSE

GoTo(w, step, v) ==
    /\ pc' = [pc EXCEPT ![w] = step]
    /\ value' = [value EXCEPT ![w] = v]
    /\ UNCHANGED tenant

\* The job is over, or will be delivered again.
Finish(w) ==
    /\ pc' = [pc EXCEPT ![w] = "idle"]
    /\ value' = [value EXCEPT ![w] = 0]
    /\ tenant' = [tenant EXCEPT ![w] = None]

---------------------------------------------------------------------------
(* enforce.                                                                *)

\* The circuit is closed; the minute is read. (An open one ends the job.)
ReadCircuit(w, t) ==
    /\ pc[w] = "idle" /\ ~circuit
    /\ pc' = [pc EXCEPT ![w] = "rate"]
    /\ tenant' = [tenant EXCEPT ![w] = t]
    /\ value' = [value EXCEPT ![w] = clock]
    /\ UNCHANGED <<clock, rate, failures, volatile, circuit, used, history>>

\* Mutant: the request after the last one is let through.
WithinRateOffByOne(count) == count <= requestsPerMinute + 1

WithinRate(count) == count <= requestsPerMinute

\* The request is counted, even when the answer of INCR or EXPIRE fails.
CountRequest(w) ==
    /\ pc[w] = "rate" /\ rate[tenant[w]][value[w]] < MaxRequests
    /\ LET t == tenant[w]
           m == value[w]
           count == rate[t][m] + 1
       IN /\ rate' = [rate EXCEPT ![t][m] = count]
          /\ \/ /\ WithinRate(count)
                /\ admitted' = [admitted EXCEPT ![t][m] = @ + 1]
                /\ GoTo(w, "budget", 0)
             \/ /\ ~WithinRate(count)
                /\ Finish(w)
                /\ UNCHANGED admitted
             \/ GoTo(w, "fail", 0) /\ UNCHANGED admitted
    /\ UNCHANGED <<clock, failures, volatile, circuit, used, orphaned>>

\* Mutant: a tenant that has used its budget exactly has some left.
WithinBudgetOffByOne(t) == used[t] <= Budget

WithinBudget(t) == used[t] < Budget

\* The usage records of the month are summed.
CheckBudget(w) ==
    /\ pc[w] = "budget"
    /\ \/ /\ WithinBudget(tenant[w])
          /\ GoTo(w, "call", 0)
       \/ /\ ~WithinBudget(tenant[w])
          /\ Finish(w)
    /\ UNCHANGED <<clock, rate, failures, volatile, circuit, used, history>>

\* A command of Redis or the sum fails: no AnalysisControlError, so that it
\* counts as a failure of the provider.
EnforceFails(w) ==
    /\ pc[w] \in {"rate", "budget"}
    /\ GoTo(w, "fail", 0)
    /\ UNCHANGED <<clock, rate, failures, volatile, circuit, used, history>>

---------------------------------------------------------------------------
(* The call and its result.                                                *)

CallProvider(w) ==
    /\ pc[w] = "call"
    /\ \/ \E n \in 1 .. MaxTokens : GoTo(w, "store", n)
       \/ GoTo(w, "fail", 0)
    /\ UNCHANGED <<clock, rate, failures, volatile, circuit, used, history>>

\* The result and its usage record are stored, or the transaction fails.
StoreResult(w) ==
    /\ pc[w] = "store"
    /\ \/ /\ used' = [used EXCEPT ![tenant[w]] = @ + value[w]]
          /\ Finish(w)
       \/ /\ GoTo(w, "fail", 0)
          /\ UNCHANGED used
    /\ UNCHANGED <<clock, rate, failures, volatile, circuit, history>>

---------------------------------------------------------------------------
(* recordProviderFailure.                                                  *)

CountFailure(w) ==
    /\ pc[w] = "fail" /\ failures < MaxFailures
    /\ failures' = failures + 1
    /\ GoTo(w, IF failures' = 1 THEN "expire" ELSE "trip", failures')
    /\ UNCHANGED <<clock, rate, volatile, circuit, used, history>>

\* Mutant: the key gets no time to live.
ExpireFailuresNever(w) ==
    /\ pc[w] = "expire"
    /\ GoTo(w, "trip", value[w])
    /\ UNCHANGED <<clock, rate, failures, volatile, circuit, used, history>>

ExpireFailures(w) ==
    /\ pc[w] = "expire"
    /\ volatile' = (failures > 0)
    /\ GoTo(w, "trip", value[w])
    /\ UNCHANGED <<clock, rate, failures, circuit, used, history>>

Trip(w) ==
    /\ pc[w] = "trip"
    /\ circuit' = (circuit \/ value[w] >= failureThreshold)
    /\ Finish(w)
    /\ UNCHANGED <<clock, rate, failures, volatile, used, history>>

---------------------------------------------------------------------------

\* A worker dies; its job is delivered again.
Crash(w) ==
    /\ pc[w] # "idle"
    /\ orphaned' = (orphaned \/ pc[w] = "expire")
    /\ Finish(w)
    /\ UNCHANGED <<clock, rate, failures, volatile, circuit, used, admitted>>

NextMinute ==
    /\ clock < LastMinute
    /\ clock' = clock + 1
    /\ UNCHANGED <<rate, failures, volatile, circuit, used, workerVars, history>>

\* Redis removes the failures key, or the circuit key.
FailuresExpire ==
    /\ volatile
    /\ failures' = 0
    /\ volatile' = FALSE
    /\ UNCHANGED <<clock, rate, circuit, used, workerVars, history>>

CircuitExpires ==
    /\ circuit
    /\ circuit' = FALSE
    /\ UNCHANGED <<clock, rate, failures, volatile, used, workerVars, history>>

---------------------------------------------------------------------------

Step(w) ==
    \/ CountRequest(w) \/ CheckBudget(w) \/ EnforceFails(w)
    \/ CallProvider(w) \/ StoreResult(w)
    \/ CountFailure(w) \/ ExpireFailures(w) \/ Trip(w)

Next ==
    \/ \E w \in Workers, t \in Tenants : ReadCircuit(w, t)
    \/ \E w \in Workers : Step(w) \/ Crash(w)
    \/ NextMinute \/ FailuresExpire \/ CircuitExpires

Spec == Init /\ [][Next]_vars

\* Workers go on with their jobs, and keys with a time to live expire.
FairSpec ==
    /\ Spec
    /\ \A w \in Workers : WF_vars(Step(w))
    /\ WF_vars(FailuresExpire) /\ WF_vars(CircuitExpires)

---------------------------------------------------------------------------
(* Properties.                                                             *)

InFlight(t) == {w \in Workers : tenant[w] = t /\ pc[w] \in {"call", "store"}}

\* However the requests of a tenant interleave, no minute lets more of them
\* through than the limit: the INCR decides (enforce, lines 37-43).
RateKept == \A t \in Tenants, m \in Minutes : admitted[t][m] <= requestsPerMinute

\* The budget is read before the call and charged after it, so concurrent
\* jobs overshoot it, but by no more than one analysis each (lines 45-50).
OvershootBounded ==
    \A t \in Tenants : used[t] <= Budget - 1 + MaxTokens * Cardinality(Workers)

\* The failures that open the circuit are forgotten in the end, so old ones do
\* not add up to new ones for ever, unless a worker dies between the INCR and
\* the EXPIRE (recordProviderFailure, lines 53-60).
FailuresForgotten == failures > 0 ~> failures = 0 \/ orphaned
===========================================================================
