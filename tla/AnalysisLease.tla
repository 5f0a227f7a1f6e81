--------------------------- MODULE AnalysisLease ---------------------------
(***************************************************************************)
(* What the analysis pipeline promises, without outbox, queue or locks: an *)
(* analysis is leased to at most one worker, the lease is granted only     *)
(* while the analysis waits, its holder alone decides how it ends, and     *)
(* its result is billed at most once.                                      *)
(***************************************************************************)
CONSTANTS Analyses, Workers

VARIABLES
    state,    \* [Analyses -> state of the analysis]
    holders,  \* [Analyses -> workers that hold the lease]
    billed    \* analyses whose result was stored and billed

vars == <<state, holders, billed>>

States == {"absent", "QUEUED", "RUNNING", "COMPLETED", "FAILED", "purged"}

Init ==
    /\ state = [a \in Analyses |-> "absent"]
    /\ holders = [a \in Analyses |-> {}]
    /\ billed = {}

Accept(a) ==
    /\ state[a] = "absent"
    /\ state' = [state EXCEPT ![a] = "QUEUED"]
    /\ UNCHANGED <<holders, billed>>

\* The lease is granted; a worker that does not learn of it never holds it.
Start(w, a) ==
    /\ state[a] \in {"QUEUED", "FAILED"}
    /\ holders[a] = {}
    /\ state' = [state EXCEPT ![a] = "RUNNING"]
    /\ holders' = [holders EXCEPT ![a] = {w}] \/ UNCHANGED holders
    /\ UNCHANGED billed

\* The result is stored; the holder may not learn of it and keep the lease.
Succeed(w, a) ==
    /\ state[a] = "RUNNING"
    /\ holders[a] = {w}
    /\ a \notin billed
    /\ state' = [state EXCEPT ![a] = "COMPLETED"]
    /\ billed' = billed \cup {a}
    /\ holders' = [holders EXCEPT ![a] = {}] \/ UNCHANGED holders

Fail(w, a) ==
    /\ state[a] \in {"RUNNING", "COMPLETED"}
    /\ holders[a] = {w}
    /\ state' = [state EXCEPT ![a] = "FAILED"]
    /\ holders' = [holders EXCEPT ![a] = {}]
    /\ UNCHANGED billed

\* The holder dies or gives up without an outcome.
Drop(w, a) ==
    /\ holders[a] = {w}
    /\ holders' = [holders EXCEPT ![a] = {}]
    /\ UNCHANGED <<state, billed>>

Purge(A) ==
    /\ \A a \in A : state[a] # "absent"
    /\ state' = [a \in Analyses |-> IF a \in A THEN "purged" ELSE state[a]]
    /\ UNCHANGED <<holders, billed>>

Next ==
    \/ \E a \in Analyses : Accept(a)
    \/ \E w \in Workers, a \in Analyses :
        Start(w, a) \/ Succeed(w, a) \/ Fail(w, a) \/ Drop(w, a)
    \/ \E A \in SUBSET Analyses : Purge(A)

Spec == Init /\ [][Next]_vars
===========================================================================
