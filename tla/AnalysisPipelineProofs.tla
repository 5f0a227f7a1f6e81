---------------------- MODULE AnalysisPipelineProofs ----------------------
(***************************************************************************)
(* Proofs about AnalysisPipeline for any number of prompts, analyses,      *)
(* workers, dispatchers and requests, any attempt limits and any faults.   *)
(***************************************************************************)
EXTENDS AnalysisPipeline, TLAPS

\* A worker has a job exactly when it is not idle.
WorkersBusy ==
    \A w \in Workers :
        /\ task[w] = None <=> pc[w] = "idle"
        /\ pc[w] = "recover" => error[w] \in Errors

\* While a worker holds an analysis its row says RUNNING, unless the prompt
\* was purged or the worker has not learnt that its COMMIT succeeded.
HoldersState ==
    \A w \in Workers, a \in Analyses :
        Holds(w, a) =>
            \/ status[a] \in {"RUNNING", "purged"}
            \/ status[a] = "COMPLETED" /\ pc[w] = "recover" /\ "ackLost" \in Faults

\* A row that was never inserted has no result, no bill and no error.
Untouched ==
    \A a \in Analyses :
        status[a] = "absent" => improved[a] = 0 /\ usage[a] = 0

\* Events, dispatchers, jobs and workers only ever know inserted rows, a
\* published event has a job, and no handler that ended well or job that is
\* completed leaves its analysis waiting.
Carriers ==
    /\ \A a \in Analyses :
        /\ outbox[a] = "absent" <=> status[a] = "absent"
        /\ job[a] # "none" => outbox[a] # "absent"
        /\ outbox[a] = "published" => job[a] # "none"
        /\ job[a] = "completed" => status[a] # "QUEUED"
    /\ \A d \in Dispatchers :
        /\ \A a \in batch[d] : outbox[a] # "absent"
        /\ marking[d] # None => marking[d] \in batch[d] /\ job[marking[d]] # "none"
    /\ \A w \in Workers :
        /\ task[w] # None => job[task[w]] # "none"
        /\ pc[w] = "finish" /\ error[w] = None => status[task[w]] # "QUEUED"

IInv ==
    /\ TypeOK
    /\ WorkersBusy
    /\ ExclusiveRun
    /\ HoldersState
    /\ Untouched
    /\ BilledOnce
    /\ ErrorIsCurrent
    /\ Carriers

---------------------------------------------------------------------------
(* Type correctness.                                                       *)

LEMMA InitTypeOK == Init => TypeOK
  BY AttemptsAssumption DEF Init, TypeOK, AnalysisStatus, JobState, ProgramCounter

\* Steps of the API handlers and the retention job keep the types.
LEMMA ApiTypeOK == TypeOK /\ Api => TypeOK'
<1> SUFFICES ASSUME TypeOK, Api PROVE TypeOK'
  OBVIOUS
<1> USE DEF TypeOK, AnalysisStatus, JobState, rowVars, jobVars, workerVars, dispatchVars
<1>1. ASSUME NEW p \in Prompts, NEW a \in Analyses, Ingest(p, a) PROVE TypeOK'
  BY <1>1 DEF Ingest, CreateAnalysis
<1>2. ASSUME NEW r \in Requests, NEW p \in Prompts, ReanalyzeCheck(r, p) PROVE TypeOK'
  BY <1>2 DEF ReanalyzeCheck
<1>3. ASSUME NEW r \in Requests, NEW a \in Analyses, ReanalyzeInsert(r, a) PROVE TypeOK'
  BY <1>3 DEF ReanalyzeInsert, CreateAnalysis
<1>4. ASSUME NEW r \in Requests, ReanalyzeAbort(r) PROVE TypeOK'
  BY <1>4 DEF ReanalyzeAbort
<1>5. ASSUME NEW p \in Prompts, DeletePrompt(p) PROVE TypeOK'
  BY <1>5 DEF DeletePrompt
<1>6. ASSUME NEW p \in Prompts, PurgePrompt(p) PROVE TypeOK'
  BY <1>6 DEF PurgePrompt
<1>7. ASSUME NEW a \in Analyses, RetryJob(a) PROVE TypeOK'
  BY <1>7 DEF RetryJob
<1>8. QED
  BY <1>1, <1>2, <1>3, <1>4, <1>5, <1>6, <1>7 DEF Api

\* Steps of a dispatcher keep the types.
LEMMA DispatchTypeOK == \A d \in Dispatchers : TypeOK /\ Dispatch(d) => TypeOK'
<1> SUFFICES ASSUME NEW d \in Dispatchers, TypeOK, Dispatch(d) PROVE TypeOK'
  OBVIOUS
<1> USE DEF TypeOK, JobState, rowVars, jobVars, workerVars, dispatchVars
<1>1. CASE DispatchRead(d)
  BY <1>1 DEF DispatchRead
<1>2. ASSUME NEW a \in Analyses, DispatchAdd(d, a) PROVE TypeOK'
  BY <1>2 DEF DispatchAdd, Enqueued
<1>3. CASE DispatchMark(d)
  BY <1>3 DEF DispatchMark
<1>4. CASE DispatchAbort(d)
  BY <1>4 DEF DispatchAbort
<1>5. QED
  BY <1>1, <1>2, <1>3, <1>4 DEF Dispatch

\* Steps of the broker keep the types.
LEMMA BrokerTypeOK == TypeOK /\ Broker => TypeOK'
<1> SUFFICES ASSUME TypeOK, Broker PROVE TypeOK'
  OBVIOUS
<1> USE DEF TypeOK, JobState, ProgramCounter, rowVars, jobVars, workerVars, dispatchVars
<1>1. ASSUME NEW w \in Workers, NEW a \in Analyses, Deliver(w, a) PROVE TypeOK'
  BY <1>1 DEF Deliver
<1>2. ASSUME NEW a \in Analyses, Promote(a) PROVE TypeOK'
  BY <1>2 DEF Promote
<1>3. ASSUME NEW a \in Analyses, Stall(a) PROVE TypeOK'
  <2>1. stalls' \in [Analyses -> 0..MaxStalled]
    BY <1>3, AttemptsAssumption DEF Stall
  <2>2. QED
    BY <1>3, <2>1 DEF Stall
<1>4. ASSUME NEW w \in Workers, Crash(w) PROVE TypeOK'
  BY <1>4 DEF Crash
<1>5. QED
  BY <1>1, <1>2, <1>3, <1>4 DEF Broker, RecoverStalled, LoseLock

\* Steps of processAnalysis keep the types.
LEMMA WorkerTypeOK ==
  \A w \in Workers : TypeOK /\ (ProcessAnalysis(w) \/ SetupFails(w)) => TypeOK'
<1> SUFFICES ASSUME NEW w \in Workers, TypeOK, ProcessAnalysis(w) \/ SetupFails(w)
             PROVE TypeOK'
  OBVIOUS
<1> USE DEF TypeOK, AnalysisStatus, JobState, ProgramCounter, Goto, WorkerFrame,
            rowVars, jobVars, workerVars, dispatchVars
<1>1. CASE ReadAnalysis(w)
  BY <1>1 DEF ReadAnalysis, Errors
<1>2. CASE SetupFails(w)
  BY <1>2 DEF SetupFails
<1>3. CASE Claim(w)
  <2>1. CASE UNCHANGED <<status, errorCode>>
    BY <1>3, <2>1 DEF Claim
  <2>2. CASE TakeRow(task[w])
    <3>1. status' \in [Analyses -> AnalysisStatus \cup {"absent", "purged"}]
      BY <2>2 DEF TakeRow
    <3>2. errorCode' \in [Analyses -> Errors \cup {Unclassified, None}]
      BY <2>2 DEF TakeRow
    <3>3. pc' \in [Workers -> ProgramCounter] /\ task' = task
      BY <1>3 DEF Claim
    <3>4. error' \in [Workers -> Errors \cup {Unclassified, None}]
      BY <1>3 DEF Claim
    <3>5. QED
      BY <1>3, <3>1, <3>2, <3>3, <3>4 DEF Claim
  <2>3. QED
    BY <1>3, <2>1, <2>2 DEF Claim
<1>4. CASE CallProvider(w)
  BY <1>4 DEF CallProvider
<1>5. CASE Complete(w)
  BY <1>5, ErrorsAssumption DEF Complete, CanComplete, StoreResult, Errors
<1>6. CASE RecordFailure(w)
  BY <1>6 DEF RecordFailure
<1>7. CASE Finish(w)
  BY <1>7, AttemptsAssumption DEF Finish, JobAfter
<1>8. QED
  BY <1>1, <1>2, <1>3, <1>4, <1>5, <1>6, <1>7 DEF ProcessAnalysis

LEMMA NextTypeOK == TypeOK /\ [Next]_vars => TypeOK'
<1>1. TypeOK /\ UNCHANGED vars => TypeOK'
  BY DEF TypeOK, vars, rowVars, jobVars, workerVars, dispatchVars
<1>2. QED
  BY <1>1, ApiTypeOK, DispatchTypeOK, BrokerTypeOK, WorkerTypeOK DEF Next

\* Every variable keeps its type.
THEOREM TypeCorrect == Spec => []TypeOK
  BY InitTypeOK, NextTypeOK, PTL DEF Spec

---------------------------------------------------------------------------
(* Which steps touch what.                                                 *)

\* A new analysis row, by ingest or reanalyze.
Insert ==
    \/ \E p \in Prompts, a \in Analyses : Ingest(p, a)
    \/ \E r \in Requests, a \in Analyses : ReanalyzeInsert(r, a)

Purge == \E p \in Prompts : PurgePrompt(p)

\* Only inserts, purges, claims and recorded outcomes write analyses.
LEMMA RowSteps ==
  ASSUME [Next]_vars
  PROVE  \/ Insert
         \/ Purge
         \/ \E w \in Workers : Claim(w) \/ Complete(w) \/ RecordFailure(w)
         \/ UNCHANGED <<status, errorCode, improved, usage>>
<1> USE DEF vars, rowVars
<1>1. CASE Api
  BY <1>1 DEF Api, Insert, Purge, ReanalyzeCheck, ReanalyzeAbort, DeletePrompt, RetryJob
<1>2. ASSUME NEW d \in Dispatchers, Dispatch(d)
      PROVE  UNCHANGED <<status, errorCode, improved, usage>>
  BY <1>2 DEF Dispatch, DispatchRead, DispatchAdd, DispatchMark, DispatchAbort
<1>3. CASE Broker
  BY <1>3 DEF Broker, Deliver, Promote, RecoverStalled, LoseLock, Stall, Crash
<1>4. ASSUME NEW w \in Workers, ReadAnalysis(w) \/ SetupFails(w) \/ CallProvider(w) \/ Finish(w)
      PROVE  UNCHANGED <<status, errorCode, improved, usage>>
  BY <1>4 DEF ReadAnalysis, SetupFails, CallProvider, Finish
<1>5. CASE UNCHANGED vars
  BY <1>5
<1>6. QED
  BY <1>1, <1>2, <1>3, <1>4, <1>5 DEF Next, ProcessAnalysis

\* Only deliveries, crashes and processAnalysis itself move a worker.
LEMMA WorkerSteps ==
  ASSUME [Next]_vars
  PROVE  \/ \E w \in Workers : ProcessAnalysis(w) \/ SetupFails(w) \/ Crash(w)
         \/ \E w \in Workers, a \in Analyses : Deliver(w, a)
         \/ UNCHANGED workerVars
<1> USE DEF vars
<1>1. CASE Api
  BY <1>1 DEF Api, Ingest, ReanalyzeInsert, PurgePrompt, ReanalyzeCheck, ReanalyzeAbort,
              DeletePrompt, RetryJob
<1>2. ASSUME NEW d \in Dispatchers, Dispatch(d)
      PROVE  UNCHANGED workerVars
  BY <1>2 DEF Dispatch, DispatchRead, DispatchAdd, DispatchMark, DispatchAbort
<1>3. CASE Broker
  BY <1>3 DEF Broker, Promote, RecoverStalled, LoseLock, Stall
<1>4. CASE UNCHANGED vars
  BY <1>4
<1>5. QED
  BY <1>1, <1>2, <1>3, <1>4 DEF Next

---------------------------------------------------------------------------
(* The inductive invariant, part by part.                                  *)

LEMMA InitIInv == Init => IInv
  BY InitTypeOK, NoneAssumption
     DEF Init, IInv, WorkersBusy, ExclusiveRun, HoldersState, Untouched, BilledOnce,
         ErrorIsCurrent, Carriers, Holds, Exists, AnalysisStatus

LEMMA NextWorkersBusy == IInv /\ [Next]_vars => WorkersBusy'
<1> SUFFICES ASSUME IInv, [Next]_vars PROVE WorkersBusy'
  OBVIOUS
<1> USE NoneAssumption DEF IInv, TypeOK, WorkersBusy, Goto, workerVars
<1>1. ASSUME NEW w \in Workers, ProcessAnalysis(w) \/ SetupFails(w)
      PROVE  WorkersBusy'
  <2>1. CASE ReadAnalysis(w) \/ SetupFails(w) \/ Claim(w)
    BY <2>1 DEF ReadAnalysis, SetupFails, Claim
  <2>2. CASE CallProvider(w)
    BY <2>2 DEF CallProvider
  <2>3. CASE Complete(w)
    BY <2>3, ErrorsAssumption DEF Complete, Errors
  <2>4. CASE RecordFailure(w)
    BY <2>4 DEF RecordFailure
  <2>5. CASE Finish(w)
    BY <2>5 DEF Finish
  <2>6. QED
    BY <1>1, <2>1, <2>2, <2>3, <2>4, <2>5 DEF ProcessAnalysis
<1>2. ASSUME NEW w \in Workers, Crash(w) PROVE WorkersBusy'
  BY <1>2 DEF Crash
<1>3. ASSUME NEW w \in Workers, NEW a \in Analyses, Deliver(w, a) PROVE WorkersBusy'
  BY <1>3 DEF Deliver
<1>4. CASE UNCHANGED workerVars
  BY <1>4
<1>5. QED
  BY <1>1, <1>2, <1>3, <1>4, WorkerSteps

\* What happens to the holders in a step of the worker: only a claim of a
\* row that waits makes one.
LEMMA HoldersOnlyByClaim ==
  ASSUME IInv, [Next]_vars, NEW w \in Workers, NEW a \in Analyses, Holds(w, a)', ~Holds(w, a)
  PROVE  Claim(w) /\ task[w] = a /\ Claimable(a)
<1> USE NoneAssumption DEF IInv, TypeOK, WorkersBusy, Holds, Goto, workerVars
<1>1. ASSUME NEW v \in Workers, ProcessAnalysis(v) \/ SetupFails(v)
      PROVE  v = w /\ Claim(w) /\ task[w] = a /\ Claimable(a)
  BY <1>1 DEF ProcessAnalysis, ReadAnalysis, SetupFails, Claim, CallProvider, Complete,
              RecordFailure, Finish
<1>2. ASSUME NEW v \in Workers, Crash(v) \/ \E b \in Analyses : Deliver(v, b) PROVE FALSE
  BY <1>2 DEF Crash, Deliver
<1>3. CASE UNCHANGED workerVars
  BY <1>3
<1>4. QED
  BY <1>1, <1>2, <1>3, WorkerSteps

\* A claim finds nobody between claim and outcome: the row would say so.
LEMMA ClaimableIsFree ==
  ASSUME IInv, NEW a \in Analyses, Claimable(a), NEW w \in Workers
  PROVE  ~Holds(w, a)
  BY DEF IInv, HoldersState, Claimable

LEMMA NextExclusiveRun == IInv /\ [Next]_vars => ExclusiveRun'
<1> SUFFICES ASSUME IInv, [Next]_vars, NEW a \in Analyses, NEW v \in Workers, NEW w \in Workers,
                    Holds(v, a)', Holds(w, a)'
             PROVE  v = w
  BY DEF ExclusiveRun
<1>1. CASE Holds(v, a) /\ Holds(w, a)
  BY <1>1 DEF IInv, ExclusiveRun
<1>2. CASE ~Holds(v, a)
  <2>1. Claim(v) /\ ~Holds(w, a)
    BY <1>2, HoldersOnlyByClaim, ClaimableIsFree
  <2>2. Claim(w)
    BY <2>1, HoldersOnlyByClaim
  <2>3. QED
    BY <2>1, <2>2 DEF Claim, Goto, IInv, TypeOK
<1>3. CASE ~Holds(w, a)
  <2>1. Claim(w) /\ ~Holds(v, a)
    BY <1>3, HoldersOnlyByClaim, ClaimableIsFree
  <2>2. Claim(v)
    BY <2>1, HoldersOnlyByClaim
  <2>3. QED
    BY <2>1, <2>2 DEF Claim, Goto, IInv, TypeOK
<1>4. QED
  BY <1>1, <1>2, <1>3

LEMMA NextHoldersState == IInv /\ [Next]_vars => HoldersState'
<1> SUFFICES ASSUME IInv, [Next]_vars, NEW w \in Workers, NEW a \in Analyses, Holds(w, a)'
             PROVE  \/ status'[a] \in {"RUNNING", "purged"}
                    \/ status'[a] = "COMPLETED" /\ pc'[w] = "recover" /\ "ackLost" \in Faults
  BY DEF HoldersState
<1>1. CASE ~Holds(w, a)
  BY <1>1, HoldersOnlyByClaim DEF Claim, TakeRow, Claimable, IInv, TypeOK, Goto
<1>2. CASE Holds(w, a)
  <2> USE <1>2 DEF IInv, TypeOK
  <2>1. \/ status[a] \in {"RUNNING", "purged"}
        \/ status[a] = "COMPLETED" /\ pc[w] = "recover" /\ "ackLost" \in Faults
    BY DEF HoldersState
  <2>2. CASE Insert
    BY <2>1, <2>2 DEF Insert, Ingest, ReanalyzeInsert, CreateAnalysis, workerVars
  <2>3. CASE Purge
    BY <2>1, <2>3 DEF Purge, PurgePrompt, workerVars
  <2>4. ASSUME NEW v \in Workers, Claim(v)
        PROVE  status'[a] = status[a] /\ pc'[w] = pc[w]
    BY <2>1, <2>4 DEF Claim, TakeRow, Claimable, Holds, Goto
  <2>5. ASSUME NEW v \in Workers, Complete(v)
        PROVE  \/ status'[a] \in {"RUNNING", "purged"}
               \/ status'[a] = "COMPLETED" /\ pc'[w] = "recover" /\ "ackLost" \in Faults
    <3>1. CASE v = w
      <4>1. task[w] = a /\ pc[w] = "complete" /\ pc'[w] = "recover"
        BY <2>5, <3>1 DEF Complete, Holds, Goto
      <4>2. CASE UNCHANGED rowVars
        BY <2>1, <4>1, <4>2 DEF rowVars
      <4>3. CASE StoreResult(a) /\ "ackLost" \in Faults
        BY <4>1, <4>3 DEF StoreResult
      <4>4. QED
        BY <2>5, <3>1, <4>1, <4>2, <4>3 DEF Complete, Goto
    <3>2. CASE v # w
      <4>1. task[v] # a
        BY <2>5, <3>2 DEF ExclusiveRun, Holds, Complete
      <4>2. status'[a] = status[a] /\ pc'[w] = pc[w]
        BY <2>5, <3>2, <4>1 DEF Complete, StoreResult, Goto, rowVars
      <4>3. QED
        BY <2>1, <4>2
    <3>3. QED
      BY <3>1, <3>2
  <2>6. ASSUME NEW v \in Workers, RecordFailure(v)
        PROVE  status'[a] = status[a] /\ pc'[w] = pc[w]
    <3>1. v # w
      BY <2>6 DEF RecordFailure, Holds, Goto
    <3>2. task[v] # a
      BY <2>6, <3>1 DEF ExclusiveRun, Holds, RecordFailure
    <3>3. QED
      BY <2>6, <3>1, <3>2 DEF RecordFailure, Goto
  <2>7. CASE UNCHANGED <<status, errorCode, improved, usage>>
    <3>1. status[a] = "COMPLETED" => pc'[w] = "recover"
      <4> SUFFICES ASSUME pc[w] = "recover" PROVE pc'[w] = "recover"
        BY <2>1
      <4>1. ASSUME NEW v \in Workers, ProcessAnalysis(v) \/ SetupFails(v) \/ Crash(v)
            PROVE  pc'[w] = "recover"
        BY <4>1 DEF Holds, Goto, ProcessAnalysis, ReadAnalysis, SetupFails, Claim, CallProvider,
                    Complete, RecordFailure, Finish, Crash
      <4>2. ASSUME NEW v \in Workers, NEW b \in Analyses, Deliver(v, b) PROVE pc'[w] = "recover"
        BY <4>2 DEF Deliver
      <4>3. QED
        BY <4>1, <4>2, WorkerSteps DEF workerVars
    <3>2. QED
      BY <2>1, <2>7, <3>1
  <2>8. QED
    BY <2>1, <2>2, <2>3, <2>4, <2>5, <2>6, <2>7, RowSteps
<1>3. QED
  BY <1>1, <1>2

LEMMA NextBilledOnce == IInv /\ [Next]_vars => BilledOnce' /\ Untouched'
<1> SUFFICES ASSUME IInv, [Next]_vars PROVE BilledOnce' /\ Untouched'
  OBVIOUS
<1> USE DEF IInv, TypeOK, BilledOnce, Untouched, Exists, AnalysisStatus
<1>1. CASE Insert
  BY <1>1 DEF Insert, Ingest, ReanalyzeInsert, CreateAnalysis
<1>2. CASE Purge
  BY <1>2 DEF Purge, PurgePrompt, AnalysesOf
<1>3. ASSUME NEW w \in Workers, Claim(w) PROVE BilledOnce' /\ Untouched'
  BY <1>3, NoneAssumption DEF Claim, TakeRow, Claimable
<1>4. ASSUME NEW w \in Workers, Complete(w) PROVE BilledOnce' /\ Untouched'
  <2>1. task[w] \in Analyses
    BY <1>4 DEF Complete, WorkersBusy
  <2>2. QED
    BY <1>4, <2>1 DEF Complete, StoreResult, CanComplete, rowVars
<1>5. ASSUME NEW w \in Workers, RecordFailure(w) PROVE BilledOnce' /\ Untouched'
  BY <1>5 DEF RecordFailure
<1>6. CASE UNCHANGED <<status, errorCode, improved, usage>>
  BY <1>6
<1>7. QED
  BY <1>1, <1>2, <1>3, <1>4, <1>5, <1>6, RowSteps

LEMMA NextErrorIsCurrent == IInv /\ [Next]_vars => ErrorIsCurrent'
<1> SUFFICES ASSUME IInv, [Next]_vars PROVE ErrorIsCurrent'
  OBVIOUS
<1> USE DEF IInv, TypeOK, ErrorIsCurrent, WorkersBusy
<1>1. CASE Insert
  BY <1>1 DEF Insert, Ingest, ReanalyzeInsert, CreateAnalysis
<1>2. CASE Purge
  BY <1>2 DEF Purge, PurgePrompt
<1>3. ASSUME NEW w \in Workers, Claim(w) PROVE ErrorIsCurrent'
  BY <1>3 DEF Claim, TakeRow
<1>4. ASSUME NEW w \in Workers, Complete(w) PROVE ErrorIsCurrent'
  <2>1. pc[w] = "complete" /\ Holds(w, task[w]) /\ task[w] \in Analyses
    BY <1>4 DEF Complete, Holds
  <2>2. status[task[w]] # "FAILED"
    BY <2>1 DEF HoldersState
  <2>3. QED
    BY <1>4, <2>1, <2>2 DEF Complete, StoreResult, rowVars
<1>5. ASSUME NEW w \in Workers, RecordFailure(w) PROVE ErrorIsCurrent'
  BY <1>5, ErrorsAssumption DEF RecordFailure
<1>6. CASE UNCHANGED <<status, errorCode, improved, usage>>
  BY <1>6
<1>7. QED
  BY <1>1, <1>2, <1>3, <1>4, <1>5, <1>6, RowSteps

LEMMA NextCarriers == IInv /\ [Next]_vars => Carriers'
<1> SUFFICES ASSUME IInv, [Next]_vars PROVE Carriers'
  OBVIOUS
<1> USE NoneAssumption DEF IInv, TypeOK, Carriers, WorkersBusy, Goto, WorkerFrame,
                           rowVars, jobVars, workerVars, dispatchVars
<1>1. CASE Insert
  BY <1>1 DEF Insert, Ingest, ReanalyzeInsert, CreateAnalysis
<1>2. CASE Purge
  BY <1>2 DEF Purge, PurgePrompt, AnalysesOf, Exists, AnalysisStatus
<1>3. ASSUME NEW a \in Analyses, RetryJob(a) \/ Promote(a) \/ (job[a] = "active" /\ Stall(a))
      PROVE  Carriers'
  BY <1>3 DEF RetryJob, Promote, Stall
<1>4. ASSUME NEW d \in Dispatchers, Dispatch(d) PROVE Carriers'
  <2>1. CASE DispatchRead(d)
    BY <2>1 DEF DispatchRead
  <2>2. ASSUME NEW a \in Analyses, DispatchAdd(d, a) PROVE Carriers'
    BY <2>2 DEF DispatchAdd, Enqueued
  <2>3. CASE DispatchMark(d)
    BY <2>3 DEF DispatchMark
  <2>4. CASE DispatchAbort(d)
    BY <2>4 DEF DispatchAbort
  <2>5. QED
    BY <1>4, <2>1, <2>2, <2>3, <2>4 DEF Dispatch
<1>5. ASSUME NEW w \in Workers, Crash(w) PROVE Carriers'
  BY <1>5 DEF Crash
<1>6. ASSUME NEW w \in Workers, NEW a \in Analyses, Deliver(w, a) PROVE Carriers'
  BY <1>6 DEF Deliver
<1>7. ASSUME NEW w \in Workers, ProcessAnalysis(w) \/ SetupFails(w) PROVE Carriers'
  <2>1. CASE ReadAnalysis(w) \/ SetupFails(w) \/ CallProvider(w)
    BY <2>1, ErrorsAssumption DEF ReadAnalysis, SetupFails, CallProvider, Exists, AnalysisStatus
  <2>2. CASE Claim(w)
    BY <2>2 DEF Claim, TakeRow, Claimable
  <2>3. CASE Complete(w)
    BY <2>3 DEF Complete, StoreResult, CanComplete, Exists, AnalysisStatus
  <2>4. CASE RecordFailure(w)
    BY <2>4, ErrorsAssumption DEF RecordFailure, Exists, AnalysisStatus
  <2>5. CASE Finish(w)
    BY <2>5 DEF Finish, JobAfter
  <2>6. QED
    BY <1>7, <2>1, <2>2, <2>3, <2>4, <2>5 DEF ProcessAnalysis
<1>8. CASE UNCHANGED <<rowVars, outbox, jobVars, workerVars, dispatchVars>>
  BY <1>8
<1>9. QED
  BY <1>1, <1>2, <1>3, <1>4, <1>5, <1>6, <1>7, <1>8
     DEF Next, Api, Broker, RecoverStalled, LoseLock, Insert, Purge, ReanalyzeCheck,
         ReanalyzeAbort, DeletePrompt, vars

LEMMA InductiveStep == IInv /\ [Next]_vars => IInv'
  BY NextTypeOK, NextWorkersBusy, NextExclusiveRun, NextHoldersState, NextBilledOnce,
     NextErrorIsCurrent, NextCarriers DEF IInv

\* The inductive invariant holds in every reachable state.
THEOREM Invariance == Spec => []IInv
  BY InitIInv, InductiveStep, PTL DEF Spec

\* Two deliveries of one job never run the analysis at the same time.
THEOREM MutualExclusion == Spec => []ExclusiveRun
<1>1. IInv => ExclusiveRun
  BY DEF IInv
<1>2. QED
  BY <1>1, Invariance, PTL

\* No analysis has two results or two usage records.
THEOREM AtMostOneBill == Spec => []BilledOnce
<1>1. IInv => BilledOnce
  BY DEF IInv
<1>2. QED
  BY <1>1, Invariance, PTL

\* The stored error code always belongs to the present state of the row.
THEOREM ErrorCodesAreCurrent == Spec => []ErrorIsCurrent
<1>1. IInv => ErrorIsCurrent
  BY DEF IInv
<1>2. QED
  BY <1>1, Invariance, PTL

\* No accepted analysis is forgotten between outbox, queue and worker.
THEOREM NothingForgotten == Spec => []QueuedHasCarrier
<1>1. IInv => QueuedHasCarrier
  BY DEF IInv, TypeOK, Carriers, QueuedHasCarrier, JobState
<1>2. QED
  BY <1>1, Invariance, PTL

---------------------------------------------------------------------------
(* The action property and the refinement.                                 *)

\* A completed analysis is final, but for the worker whose own COMMIT answer
\* was lost.
THEOREM CompletedStays == Spec => CompletedIsFinal
<1> DEFINE Final(a) ==
      \/ status'[a] \in {"COMPLETED", "purged"}
      \/ "ackLost" \in Faults /\ status'[a] = "FAILED" /\ \E w \in Workers : Holds(w, a)
<1>1. ASSUME IInv, [Next]_vars, NEW a \in Analyses, status[a] = "COMPLETED"
      PROVE  Final(a)
  <2> USE <1>1 DEF IInv, TypeOK
  <2>1. "ackLost" \in Faults \/ \A w \in Workers : ~Holds(w, a)
    BY DEF HoldersState
  <2>2. CASE Insert
    BY <2>2 DEF Insert, Ingest, ReanalyzeInsert, CreateAnalysis
  <2>3. CASE Purge
    BY <2>3 DEF Purge, PurgePrompt
  <2>4. ASSUME NEW w \in Workers, Claim(w) \/ Complete(w) \/ RecordFailure(w)
        PROVE  Final(a)
    <3>1. CASE Claim(w)
      BY <3>1 DEF Claim, TakeRow, Claimable
    <3>2. CASE Complete(w)
      BY <3>2 DEF Complete, StoreResult, rowVars
    <3>3. CASE RecordFailure(w)
      <4>1. CASE task[w] = a
        <5>1. Holds(w, a)
          BY <3>3, <4>1 DEF RecordFailure, Holds
        <5>2. "ackLost" \in Faults
          BY <5>1, <2>1
        <5>3. status'[a] \in {"COMPLETED", "FAILED"}
          BY <3>3, <4>1 DEF RecordFailure
        <5>4. QED
          BY <5>1, <5>2, <5>3
      <4>2. CASE task[w] # a
        BY <3>3, <4>2 DEF RecordFailure
      <4>3. QED
        BY <4>1, <4>2
    <3>4. QED
      BY <2>4, <3>1, <3>2, <3>3
  <2>5. QED
    BY <2>2, <2>3, <2>4, RowSteps
<1>2. IInv /\ [Next]_vars =>
        [\A a \in Analyses : status[a] = "COMPLETED" => Final(a)]_vars
  BY <1>1
<1>3. QED
  BY <1>2, Invariance, PTL DEF Spec, CompletedIsFinal, Final

\* The holders the lease sees.
HoldersOf == [a \in Analyses |-> {w \in Workers : Holds(w, a)}]

\* Exclusive running makes the set of holders a singleton.
LEMMA OneHolder ==
  ASSUME IInv, NEW w \in Workers, NEW a \in Analyses, Holds(w, a)
  PROVE  HoldersOf[a] = {w}
  BY DEF IInv, ExclusiveRun, HoldersOf

\* A holder that leaves takes the lease with it and disturbs no other.
LEMMA HolderLeaves ==
  ASSUME IInv, NEW w \in Workers, NEW a \in Analyses, Holds(w, a), ~Holds(w, a)',
         \A v \in Workers \ {w} : task'[v] = task[v] /\ pc'[v] = pc[v],
         \A b \in Analyses \ {a} : ~Holds(w, b) /\ ~Holds(w, b)'
  PROVE  HoldersOf' = [HoldersOf EXCEPT ![a] = {}]
<1>1. HoldersOf[a] = {w}
  BY OneHolder
<1>2. \A b \in Analyses : HoldersOf'[b] = IF b = a THEN {} ELSE HoldersOf[b]
  BY <1>1 DEF Holds, HoldersOf
<1>3. QED
  BY <1>2 DEF HoldersOf

LEMMA HolderJoins ==
  ASSUME NEW w \in Workers, NEW a \in Analyses,
         \A b \in Analyses : HoldersOf'[b] = IF b = a THEN {w} ELSE HoldersOf[b]
  PROVE  HoldersOf' = [HoldersOf EXCEPT ![a] = {w}]
  BY DEF HoldersOf

LEMMA LeaseStep ==
  \A w \in Workers, a \in Analyses :
    Lease!Start(w, a) \/ Lease!Succeed(w, a) \/ Lease!Fail(w, a) \/ Lease!Drop(w, a)
      => Lease!Next
  BY DEF Lease!Next

\* A step of the worker is a step of the lease or hidden.
LEMMA WorkerRefines ==
  ASSUME IInv, NEW w \in Workers, NEW a \in Analyses, task[w] = a,
         ProcessAnalysis(w) \/ SetupFails(w) \/ Crash(w)
  PROVE  Lease!Next \/ UNCHANGED Lease!vars
<1> USE NoneAssumption DEF IInv, TypeOK, WorkersBusy, rowVars
<1>1. task[w] = a /\ a \in Analyses
  OBVIOUS
<1>2. ASSUME UNCHANGED <<status, usage>>, pc[w] \in {"call", "complete", "recover"},
             pc'[w] \notin {"call", "complete", "recover"},
             \A v \in Workers \ {w} : task'[v] = task[v] /\ pc'[v] = pc[v]
      PROVE  Lease!Drop(w, a)
  <2>1. HoldersOf' = [HoldersOf EXCEPT ![a] = {}]
    BY <1>1, <1>2, HolderLeaves DEF Holds
  <2>2. QED
    BY <1>1, <1>2, <2>1, OneHolder DEF Lease!Drop, HoldersOf, Holds
<1>3. ASSUME UNCHANGED <<status, usage>>,
             pc[w] \in {"call", "complete", "recover"} <=> pc'[w] \in {"call", "complete", "recover"},
             pc'[w] \in {"call", "complete", "recover"} => task'[w] = task[w],
             \A v \in Workers \ {w} : task'[v] = task[v] /\ pc'[v] = pc[v]
      PROVE  UNCHANGED Lease!vars
  <2>1. \A v \in Workers, b \in Analyses : Holds(v, b)' <=> Holds(v, b)
    BY <1>3 DEF Holds
  <2>2. QED
    BY <1>3, <2>1 DEF Lease!vars
<1>4. CASE ReadAnalysis(w) \/ SetupFails(w) \/ CallProvider(w)
  BY <1>3, <1>4 DEF ReadAnalysis, SetupFails, CallProvider, Goto
<1>5. CASE Claim(w)
  <2>1. CASE Claimable(a)
    <3>1. HoldersOf[a] = {}
      BY <1>1, <2>1, ClaimableIsFree DEF HoldersOf
    <3>2. ASSUME Goto(w, "call", None)
          PROVE  HoldersOf' = [HoldersOf EXCEPT ![a] = {w}]
      <4>1. \A b \in Analyses : HoldersOf'[b] = IF b = a THEN {w} ELSE HoldersOf[b]
        BY <1>1, <1>5, <2>1, <3>1, <3>2 DEF Claim, Goto, Holds, HoldersOf
      <4>2. QED
        BY <1>1, <4>1, HolderJoins
    <3>3. ASSUME Goto(w, "finish", Unclassified)
          PROVE  HoldersOf' = HoldersOf
      BY <1>5, <3>3 DEF Claim, Goto, Holds, HoldersOf
    <3>4. Lease!Start(w, a)
      BY <1>1, <1>5, <2>1, <3>1, <3>2, <3>3
         DEF Lease!Start, Claim, TakeRow, Claimable, HoldersOf
    <3>5. QED
      BY <1>1, <3>4, LeaseStep
  <2>2. CASE ~Claimable(a)
    BY <1>3, <1>5, <2>2 DEF Claim, Goto
  <2>3. QED
    BY <2>1, <2>2
<1>6. CASE Complete(w)
  <2>1. CASE CanComplete(a) /\ StoreResult(a)
    <3>1. pc[w] = "complete" /\ Holds(w, a) /\ HoldersOf[a] = {w}
      BY <1>1, <1>6, OneHolder DEF Complete, Holds
    <3>2. status[a] = "RUNNING" /\ usage[a] = 0
      BY <1>1, <2>1, <3>1 DEF HoldersState, CanComplete, Exists, AnalysisStatus, BilledOnce
    <3>3. HoldersOf' = [HoldersOf EXCEPT ![a] = {}] \/ HoldersOf' = HoldersOf
      <4>1. CASE pc'[w] = "recover"
        <5>1. \A v \in Workers, b \in Analyses : Holds(v, b)' <=> Holds(v, b)
          BY <1>6, <3>1, <4>1 DEF Complete, Goto, Holds
        <5>2. QED
          BY <5>1 DEF HoldersOf
      <4>2. CASE pc'[w] = "finish"
        BY <1>1, <1>6, <3>1, <4>2, HolderLeaves DEF Complete, Goto, Holds
      <4>3. QED
        BY <1>6, <4>1, <4>2 DEF Complete, Goto
    <3>4. {b \in Analyses : usage'[b] > 0} = {b \in Analyses : usage[b] > 0} \cup {a}
      BY <1>1, <2>1, <3>2 DEF StoreResult
    <3>5. Lease!Succeed(w, a)
      BY <1>1, <2>1, <3>1, <3>2, <3>3, <3>4 DEF Lease!Succeed, StoreResult, HoldersOf
    <3>6. QED
      BY <3>5, LeaseStep
  <2>2. CASE UNCHANGED rowVars /\ pc'[w] = "recover"
    BY <1>3, <1>6, <2>2 DEF Complete, Goto
  <2>3. QED
    BY <1>6, <2>1, <2>2 DEF Complete, Goto
<1>7. CASE RecordFailure(w)
  <2>1. pc[w] = "recover" /\ pc'[w] = "finish" /\ Holds(w, a)
    BY <1>7 DEF RecordFailure, Goto, Holds
  <2>2. CASE UNCHANGED status
    BY <1>1, <1>2, <1>7, <2>1, <2>2 DEF RecordFailure, Goto, Lease!Next
  <2>3. CASE Exists(a) /\ status' = [status EXCEPT ![a] = "FAILED"]
    <3>1. status[a] \in {"RUNNING", "COMPLETED"}
      BY <1>1, <2>1, <2>3 DEF HoldersState, Exists, AnalysisStatus
    <3>2. HoldersOf' = [HoldersOf EXCEPT ![a] = {}]
      BY <1>1, <1>7, <2>1, HolderLeaves DEF RecordFailure, Goto, Holds
    <3>3. Lease!Fail(w, a)
      BY <1>1, <1>7, <2>1, <2>3, <3>1, <3>2, OneHolder DEF Lease!Fail, RecordFailure, HoldersOf
    <3>4. QED
      BY <1>1, <3>3, LeaseStep
  <2>4. QED
    BY <1>7, <2>2, <2>3 DEF RecordFailure
<1>8. CASE Finish(w)
  BY <1>3, <1>8 DEF Finish
<1>9. CASE Crash(w)
  <2>1. CASE pc[w] \in {"call", "complete", "recover"}
    BY <1>1, <1>2, <1>9, <2>1 DEF Crash, Lease!Next
  <2>2. CASE pc[w] \notin {"call", "complete", "recover"}
    BY <1>3, <1>9, <2>2 DEF Crash
  <2>3. QED
    BY <2>1, <2>2
<1>10. QED
  BY <1>4, <1>5, <1>6, <1>7, <1>8, <1>9 DEF ProcessAnalysis

\* Every step of the pipeline is a step of the lease or hidden from it.
LEMMA NextRefines ==
  ASSUME IInv, [Next]_vars
  PROVE  Lease!Next \/ UNCHANGED Lease!vars
<1> USE DEF IInv, TypeOK
<1>1. ASSUME UNCHANGED workerVars
      PROVE  HoldersOf' = HoldersOf
  BY <1>1 DEF workerVars, HoldersOf, Holds
<1>2. CASE Insert
  <2>1. PICK a \in Analyses :
          /\ status[a] = "absent"
          /\ status' = [status EXCEPT ![a] = "QUEUED"]
          /\ UNCHANGED <<usage, workerVars>>
    BY <1>2 DEF Insert, Ingest, ReanalyzeInsert, CreateAnalysis
  <2>2. Lease!Accept(a)
    BY <1>1, <2>1 DEF Lease!Accept, HoldersOf
  <2>3. QED
    BY <2>2 DEF Lease!Next
<1>3. CASE Purge
  <2>1. PICK p \in Prompts : PurgePrompt(p)
    BY <1>3 DEF Purge
  <2>2. Lease!Purge(AnalysesOf(p))
    BY <1>1, <2>1 DEF Lease!Purge, PurgePrompt, AnalysesOf, Exists, AnalysisStatus, HoldersOf
  <2>3. AnalysesOf(p) \in SUBSET Analyses
    BY DEF AnalysesOf
  <2>4. QED
    BY <2>2, <2>3, Zenon DEF Lease!Next
<1>4. ASSUME NEW w \in Workers, ProcessAnalysis(w) \/ SetupFails(w) \/ Crash(w)
      PROVE  Lease!Next \/ UNCHANGED Lease!vars
  <2>1. task[w] \in Analyses
    BY <1>4, NoneAssumption DEF WorkersBusy, ProcessAnalysis, ReadAnalysis, SetupFails, Claim,
       CallProvider, Complete, RecordFailure, Finish, Crash
  <2>2. PICK a \in Analyses : task[w] = a
    BY <2>1
  <2>3. QED
    BY <1>4, <2>2, WorkerRefines
<1>5. ASSUME NEW w \in Workers, NEW a \in Analyses, Deliver(w, a)
      PROVE  UNCHANGED Lease!vars
  <2>1. \A v \in Workers, b \in Analyses : Holds(v, b)' <=> Holds(v, b)
    BY <1>5 DEF Deliver, Holds
  <2>2. QED
    BY <1>5, <2>1 DEF Deliver, Lease!vars, rowVars
<1>6. CASE UNCHANGED <<status, errorCode, improved, usage, workerVars>>
  BY <1>1, <1>6 DEF Lease!vars, HoldersOf
<1>7. QED
  BY <1>2, <1>3, <1>4, <1>5, <1>6, RowSteps, WorkerSteps DEF ProcessAnalysis

LEMMA InitRefines == Init => Lease!Init
  BY NoneAssumption DEF Init, Lease!Init, Holds

\* The pipeline with its outbox, queue, crashes and redeliveries implements
\* the lease.
THEOREM Refinement == Spec => ImplementsLease
<1>1. IInv /\ [Next]_vars => [Lease!Next]_(Lease!vars)
  BY NextRefines
<1>2. QED
  BY <1>1, InitRefines, Invariance, PTL DEF Spec, ImplementsLease, Lease!Spec

---------------------------------------------------------------------------
(* What holds as long as certain faults do not happen.                     *)

\* While no live worker loses its lock, a job is with the one worker that
\* holds its lock.
TaskIsLocked ==
    \A w \in Workers : task[w] # None => lock[task[w]] = w /\ job[task[w]] = "active"

\* The job of a failed analysis is not among the completed ones, and no handler
\* is about to report it as done.
FailedHasJob ==
    /\ \A a \in Analyses :
        status[a] = "FAILED" => job[a] \in {"waiting", "active", "delayed", "failed"}
    /\ \A w \in Workers : pc[w] = "finish" /\ error[w] = None => status[task[w]] # "FAILED"

StallFreeInv == IInv /\ TaskIsLocked /\ FailedHasJob

\* A failed analysis whose attempt is not counted yet is still with its worker.
FirstFailure ==
    \A a \in Analyses :
        status[a] = "FAILED" /\ attempts[a] = 0 =>
            \E w \in Workers : task[w] = a /\ pc[w] = "finish" /\ error[w] # None

\* Analyses and requests belong to prompts that were ingested.
PromptsKnown ==
    /\ \A a \in Analyses : Exists(a) => promptOf[a] \in Prompts /\ prompt[promptOf[a]] # "absent"
    /\ \A r \in Requests : request[r] # None => prompt[request[r]] # "absent"

\* What a reanalyze request found inactive can have become active only by a retry.
RequestSaw ==
    \A r \in Requests :
        request[r] # None =>
            \A a \in AnalysesOf(request[r]) : Active(a) => attempts[a] > 0

OneRequest == \A r, s \in Requests : r = s

CrashFreeInv == StallFreeInv /\ FirstFailure /\ PromptsKnown /\ RequestSaw /\ SecondActiveIsRetry


LEMMA InitStallFree == Init => StallFreeInv
  BY InitIInv DEF Init, StallFreeInv, TaskIsLocked, FailedHasJob

\* Delivery and stalled check leave at most one worker with a job.
LEMMA NextTaskIsLocked ==
  ASSUME "stall" \notin Faults, StallFreeInv, [Next]_vars
  PROVE  TaskIsLocked'
<1> USE NoneAssumption DEF StallFreeInv, IInv, TypeOK, TaskIsLocked, JobState,
                           rowVars, jobVars, workerVars, dispatchVars
<1>1. CASE Api
  <2>1. ASSUME NEW a \in Analyses, RetryJob(a) PROVE TaskIsLocked'
    BY <2>1 DEF RetryJob
  <2>2. CASE UNCHANGED <<jobVars, workerVars>>
    BY <2>2
  <2>3. QED
    BY <1>1, <2>1, <2>2 DEF Api, Ingest, ReanalyzeCheck, ReanalyzeInsert, ReanalyzeAbort,
                            DeletePrompt, PurgePrompt
<1>2. ASSUME NEW d \in Dispatchers, Dispatch(d) PROVE TaskIsLocked'
  BY <1>2 DEF Dispatch, DispatchRead, DispatchAdd, DispatchMark, DispatchAbort, Enqueued
<1>3. ASSUME NEW w \in Workers, NEW a \in Analyses, Deliver(w, a) PROVE TaskIsLocked'
  BY <1>3 DEF Deliver
<1>4. ASSUME NEW a \in Analyses, Promote(a) PROVE TaskIsLocked'
  BY <1>4 DEF Promote
<1>5. ASSUME NEW a \in Analyses, RecoverStalled(a) PROVE TaskIsLocked'
  <2>1. \A w \in Workers : task[w] # a
    BY <1>5 DEF RecoverStalled
  <2>2. QED
    BY <1>5, <2>1 DEF RecoverStalled, Stall
<1>6. ASSUME NEW w \in Workers, Crash(w) PROVE TaskIsLocked'
  BY <1>6 DEF Crash
<1>7. ASSUME NEW w \in Workers, ProcessAnalysis(w) \/ SetupFails(w) PROVE TaskIsLocked'
  <2>1. CASE Finish(w)
    <3>1. \A v \in Workers : v # w /\ task[v] # None => task[v] # task[w]
      BY <2>1 DEF Finish
    <3>2. QED
      BY <2>1, <3>1 DEF Finish
  <2>2. CASE UNCHANGED <<jobVars, task>>
    BY <2>2
  <2>3. QED
    BY <1>7, <2>1, <2>2 DEF ProcessAnalysis, ReadAnalysis, SetupFails, Claim, CallProvider,
                            Complete, RecordFailure, Goto, WorkerFrame
<1>8. CASE UNCHANGED vars
  BY <1>8 DEF vars
<1>9. QED
  BY <1>1, <1>2, <1>3, <1>4, <1>5, <1>6, <1>7, <1>8 DEF Next, Broker, LoseLock

\* A failure is recorded by the only worker with the job, which then reports it.
LEMMA NextFailedHasJob ==
  ASSUME "stall" \notin Faults, StallFreeInv, [Next]_vars
  PROVE  FailedHasJob'
<1> USE NoneAssumption DEF StallFreeInv, IInv, TypeOK, WorkersBusy, TaskIsLocked, FailedHasJob,
                           JobState, Goto, WorkerFrame, rowVars, jobVars, workerVars, dispatchVars
<1>1. CASE Insert
  BY <1>1 DEF Insert, Ingest, ReanalyzeInsert, CreateAnalysis
<1>2. CASE Purge
  BY <1>2 DEF Purge, PurgePrompt, AnalysesOf
<1>3. ASSUME NEW a \in Analyses, RetryJob(a) \/ Promote(a) \/ (job[a] = "active" /\ Stall(a))
      PROVE  FailedHasJob'
  BY <1>3 DEF RetryJob, Promote, Stall
<1>4. ASSUME NEW d \in Dispatchers, Dispatch(d) PROVE FailedHasJob'
  BY <1>4 DEF Dispatch, DispatchRead, DispatchAdd, DispatchMark, DispatchAbort, Enqueued
<1>5. ASSUME NEW w \in Workers, Crash(w) PROVE FailedHasJob'
  BY <1>5 DEF Crash
<1>6. ASSUME NEW w \in Workers, NEW a \in Analyses, Deliver(w, a) PROVE FailedHasJob'
  BY <1>6 DEF Deliver
<1>7. ASSUME NEW w \in Workers, ProcessAnalysis(w) \/ SetupFails(w) PROVE FailedHasJob'
  <2>1. CASE ReadAnalysis(w) \/ SetupFails(w) \/ CallProvider(w)
    BY <2>1, ErrorsAssumption DEF ReadAnalysis, SetupFails, CallProvider, Exists, AnalysisStatus
  <2>2. CASE Claim(w)
    BY <2>2 DEF Claim, TakeRow, Claimable
  <2>3. CASE Complete(w)
    BY <2>3 DEF Complete, StoreResult, CanComplete
  <2>4. CASE RecordFailure(w)
    <3>1. task[w] \in Analyses /\ job[task[w]] = "active" /\ error[w] \in Errors
      BY <2>4 DEF RecordFailure
    <3>2. \A v \in Workers : v # w /\ task[v] # None => task[v] # task[w]
      BY <3>1
    <3>3. QED
      BY <2>4, <3>1, <3>2, ErrorsAssumption DEF RecordFailure
  <2>5. CASE Finish(w)
    BY <2>5 DEF Finish, JobAfter
  <2>6. QED
    BY <1>7, <2>1, <2>2, <2>3, <2>4, <2>5 DEF ProcessAnalysis
<1>8. CASE UNCHANGED <<rowVars, outbox, jobVars, workerVars, dispatchVars>>
  BY <1>8
<1>9. QED
  BY <1>1, <1>2, <1>3, <1>4, <1>5, <1>6, <1>7, <1>8
     DEF Next, Api, Broker, RecoverStalled, LoseLock, Insert, Purge, ReanalyzeCheck,
         ReanalyzeAbort, DeletePrompt, vars

LEMMA NextStallFree ==
  ASSUME "stall" \notin Faults, StallFreeInv, [Next]_vars
  PROVE  StallFreeInv'
  BY InductiveStep, NextTaskIsLocked, NextFailedHasJob DEF StallFreeInv

\* A failed analysis is tried again until its job is among the failed ones: its
\* job is never written off as done. (A worker that lost its lock to another
\* delivery may record its failure after that delivery was reported as done.)
THEOREM FailuresAreRetried ==
  ASSUME "stall" \notin Faults
  PROVE  Spec => []FailedIsRetried
<1>1. StallFreeInv /\ [Next]_vars => StallFreeInv'
  BY NextStallFree
<1>2. StallFreeInv => FailedIsRetried
  BY DEF StallFreeInv, FailedHasJob, FailedIsRetried
<1>3. QED
  BY InitStallFree, <1>1, <1>2, PTL DEF Spec

\* A running analysis is run by a worker, through lost locks, lost answers of an
\* outcome and every failure of a provider. The answer of the claim itself must
\* not be lost, nor the worker or its failed outcome.
THEOREM RunningMeansHeld ==
  ASSUME "crash" \notin Faults, "claimLost" \notin Faults, "database" \notin Faults
  PROVE  Spec => []RunningIsHeld
<1>1. Init => RunningIsHeld
  BY DEF Init, RunningIsHeld
<1>2. ASSUME IInv, RunningIsHeld, [Next]_vars, NEW a \in Analyses, status'[a] = "RUNNING"
      PROVE  \E w \in Workers : Holds(w, a)'
  <2> USE <1>2, NoneAssumption DEF IInv, TypeOK, WorkersBusy
  <2>1. ASSUME NEW w \in Workers, Claim(w), task[w] = a, Claimable(a)
        PROVE  Holds(w, a)'
    BY <2>1 DEF Claim, Goto, Holds
  <2>2. CASE status[a] # "RUNNING"
    <3>1. \E w \in Workers : Claim(w) /\ task[w] = a /\ Claimable(a)
      BY <2>2, RowSteps
         DEF Insert, Ingest, ReanalyzeInsert, CreateAnalysis, Purge, PurgePrompt, Claim, TakeRow,
             Complete, StoreResult, RecordFailure, rowVars
    <3>2. QED
      BY <2>1, <3>1
  <2>3. CASE status[a] = "RUNNING"
    <3>1. PICK w \in Workers : Holds(w, a)
      BY <2>3 DEF RunningIsHeld
    <3>2. ASSUME NEW v \in Workers, v # w, ProcessAnalysis(v) \/ SetupFails(v) \/ Crash(v)
          PROVE  Holds(w, a)'
      BY <3>1, <3>2 DEF ProcessAnalysis, ReadAnalysis, SetupFails, Claim, CallProvider, Complete,
                        RecordFailure, Finish, Crash, Goto, Holds
    <3>3. ASSUME ProcessAnalysis(w) \/ SetupFails(w)
          PROVE  Holds(w, a)'
      <4>1. CASE CallProvider(w)
        BY <3>1, <4>1 DEF CallProvider, Goto, Holds
      <4>2. CASE Complete(w)
        BY <3>1, <4>2 DEF Complete, StoreResult, Goto, Holds
      <4>3. CASE RecordFailure(w)
        BY <2>3, <3>1, <4>3 DEF RecordFailure, Exists, AnalysisStatus, Holds
      <4>4. QED
        BY <3>1, <3>3, <4>1, <4>2, <4>3 DEF ProcessAnalysis, ReadAnalysis, SetupFails, Claim,
                                            Finish, Holds
    <3>4. ASSUME NEW v \in Workers, NEW b \in Analyses, Deliver(v, b)
          PROVE  Holds(w, a)'
      BY <3>1, <3>4 DEF Deliver, Holds
    <3>5. CASE UNCHANGED workerVars
      BY <3>1, <3>5 DEF workerVars, Holds
    <3>6. QED
      BY <3>2, <3>3, <3>4, <3>5, WorkerSteps DEF Crash
  <2>4. QED
    BY <2>2, <2>3
<1>3. IInv /\ RunningIsHeld /\ [Next]_vars => RunningIsHeld'
  BY <1>2 DEF RunningIsHeld
<1>4. QED
  BY <1>1, <1>3, Invariance, PTL DEF Spec


LEMMA InitCrashFree == Init => CrashFreeInv
  BY InitStallFree
     DEF Init, CrashFreeInv, FirstFailure, PromptsKnown, RequestSaw, SecondActiveIsRetry,
         AnalysesOf, Exists, Active, AnalysisStatus

\* Rows are inserted for prompts that exist, and no prompt becomes absent.
LEMMA NextPromptsKnown ==
  ASSUME IInv, PromptsKnown, [Next]_vars
  PROVE  PromptsKnown'
<1> USE NoneAssumption DEF IInv, TypeOK, PromptsKnown, Exists, AnalysisStatus, rowVars, vars
<1>1. ASSUME NEW p \in Prompts, NEW a \in Analyses, Ingest(p, a) PROVE PromptsKnown'
  BY <1>1 DEF Ingest, CreateAnalysis
<1>2. ASSUME NEW r \in Requests, NEW a \in Analyses, ReanalyzeInsert(r, a) PROVE PromptsKnown'
  BY <1>2 DEF ReanalyzeInsert, CreateAnalysis
<1>3. ASSUME NEW r \in Requests, NEW p \in Prompts, ReanalyzeCheck(r, p) PROVE PromptsKnown'
  BY <1>3 DEF ReanalyzeCheck
<1>4. ASSUME NEW r \in Requests, ReanalyzeAbort(r) PROVE PromptsKnown'
  BY <1>4 DEF ReanalyzeAbort
<1>5. ASSUME NEW p \in Prompts, DeletePrompt(p) \/ PurgePrompt(p) PROVE PromptsKnown'
  BY <1>5 DEF DeletePrompt, PurgePrompt, AnalysesOf
<1>6. ASSUME NEW w \in Workers, ProcessAnalysis(w) \/ SetupFails(w) PROVE PromptsKnown'
  <2>1. task[w] \in Analyses \cup {None}
    OBVIOUS
  <2>2. CASE Claim(w)
    BY <2>2 DEF Claim, TakeRow, Claimable, WorkerFrame
  <2>3. CASE Complete(w)
    BY <2>3 DEF Complete, StoreResult, CanComplete, WorkerFrame
  <2>4. CASE RecordFailure(w)
    BY <2>4 DEF RecordFailure, WorkerFrame
  <2>5. CASE UNCHANGED <<prompt, status, promptOf, request>>
    BY <2>5
  <2>6. QED
    BY <1>6, <2>2, <2>3, <2>4, <2>5 DEF ProcessAnalysis, ReadAnalysis, SetupFails, CallProvider,
                                        Finish, WorkerFrame
<1>7. CASE UNCHANGED <<prompt, status, promptOf, request>>
  BY <1>7
<1>8. QED
  BY <1>1, <1>2, <1>3, <1>4, <1>5, <1>6, <1>7
     DEF Next, Api, RetryJob, Dispatch, DispatchRead, DispatchAdd, DispatchMark, DispatchAbort,
         Broker, Deliver, Promote, RecoverStalled, LoseLock, Stall, Crash

\* Attempts are counted by the worker that finishes, and never taken back.
LEMMA AttemptSteps ==
  ASSUME TypeOK, [Next]_vars
  PROVE  /\ \A a \in Analyses : attempts[a] > 0 => attempts'[a] > 0
         /\ (\E w \in Workers : Finish(w)) \/ UNCHANGED attempts
<1> USE DEF vars, jobVars
<1>1. ASSUME NEW w \in Workers, Finish(w)
      PROVE  \A a \in Analyses : attempts[a] > 0 => attempts'[a] > 0
  BY <1>1, AttemptsAssumption DEF Finish, TypeOK
<1>2. (\E w \in Workers : Finish(w)) \/ UNCHANGED attempts
  BY DEF Next, Api, Ingest, ReanalyzeCheck, ReanalyzeInsert, ReanalyzeAbort, DeletePrompt,
         PurgePrompt, RetryJob, Dispatch, DispatchRead, DispatchAdd, DispatchMark,
         DispatchAbort, Broker, Deliver, Promote, RecoverStalled, LoseLock, Stall, Crash,
         ProcessAnalysis, ReadAnalysis, SetupFails, Claim, CallProvider, Complete,
         RecordFailure, WorkerFrame
<1>3. QED
  BY <1>1, <1>2

\* The worker that records a failure stays with it until it has counted it.
LEMMA NextFirstFailure ==
  ASSUME "crash" \notin Faults, CrashFreeInv, [Next]_vars
  PROVE  FirstFailure'
<1> SUFFICES ASSUME NEW a \in Analyses, status'[a] = "FAILED", attempts'[a] = 0
             PROVE  \E w \in Workers : (task[w] = a /\ pc[w] = "finish" /\ error[w] # None)'
  BY DEF FirstFailure
<1> USE NoneAssumption DEF CrashFreeInv, StallFreeInv, IInv, TypeOK, WorkersBusy
<1>1. attempts[a] = 0
  BY AttemptSteps DEF TypeOK
<1>2. CASE status[a] # "FAILED"
  <2>1. PICK w \in Workers : RecordFailure(w) /\ task[w] = a
    BY <1>2, RowSteps
       DEF Insert, Ingest, ReanalyzeInsert, CreateAnalysis, Purge, PurgePrompt, Claim, TakeRow,
           Complete, StoreResult, RecordFailure, rowVars
  <2>2. task'[w] = a /\ pc'[w] = "finish" /\ error'[w] \in {error[w], Unclassified}
    BY <2>1 DEF RecordFailure, Goto
  <2>3. error[w] # None /\ Unclassified # None
    BY <2>1, ErrorsAssumption DEF RecordFailure
  <2>4. QED
    BY <2>2, <2>3
<1>3. CASE status[a] = "FAILED"
  <2>1. PICK w \in Workers : task[w] = a /\ pc[w] = "finish" /\ error[w] # None
    BY <1>1, <1>3 DEF FirstFailure
  <2>2. ~Finish(w)
    BY <1>1, <2>1, AttemptsAssumption DEF Finish, TaskIsLocked
  <2>3. UNCHANGED <<task[w], pc[w], error[w]>>
    <3>1. ASSUME NEW v \in Workers, ProcessAnalysis(v) \/ SetupFails(v)
          PROVE  UNCHANGED <<task[w], pc[w], error[w]>>
      BY <2>1, <2>2, <3>1 DEF ProcessAnalysis, ReadAnalysis, SetupFails, Claim, CallProvider,
                              Complete, RecordFailure, Finish, Goto
    <3>2. ASSUME NEW v \in Workers, NEW b \in Analyses, Deliver(v, b)
          PROVE  UNCHANGED <<task[w], pc[w], error[w]>>
      BY <2>1, <3>2 DEF Deliver
    <3>3. QED
      BY <3>1, <3>2, WorkerSteps DEF Crash, workerVars
  <2>4. QED
    BY <2>1, <2>3
<1>4. QED
  BY <1>2, <1>3

\* An analysis becomes active when it is inserted, or again when it is claimed
\* after a failure that was counted.
LEMMA ActivatedByRetry ==
  ASSUME CrashFreeInv, [Next]_vars, ~Insert, NEW a \in Analyses, Active(a)'
  PROVE  Active(a) \/ attempts'[a] > 0
<1> SUFFICES ASSUME ~Active(a) PROVE attempts'[a] > 0
  OBVIOUS
<1> USE NoneAssumption DEF CrashFreeInv, StallFreeInv, IInv, TypeOK
<1>1. PICK w \in Workers : Claim(w) /\ task[w] = a /\ Claimable(a)
  BY RowSteps
     DEF Active, Purge, PurgePrompt, Claim, TakeRow, Complete, StoreResult, RecordFailure, rowVars
<1>2. status[a] = "FAILED"
  BY <1>1 DEF Claimable, Active
<1>3. \A v \in Workers : task[v] = a => v = w
  BY <1>1 DEF TaskIsLocked
<1>4. attempts[a] # 0
  BY <1>1, <1>2, <1>3 DEF FirstFailure, Claim
<1>5. QED
  BY <1>4, AttemptSteps

\* Rows keep their prompt, and do not come back.
LEMMA AnalysesOfKept ==
  ASSUME TypeOK, [Next]_vars, ~Insert, NEW p \in Prompts
  PROVE  AnalysesOf(p)' \subseteq AnalysesOf(p)
<1> USE DEF TypeOK, AnalysesOf, Exists, AnalysisStatus, rowVars, vars
<1>1. ASSUME NEW w \in Workers, Claim(w) \/ Complete(w) \/ RecordFailure(w)
      PROVE  AnalysesOf(p)' \subseteq AnalysesOf(p)
  BY <1>1 DEF Claim, TakeRow, Claimable, Complete, StoreResult, CanComplete, RecordFailure
<1>2. CASE Purge
  BY <1>2 DEF Purge, PurgePrompt
<1>3. promptOf' = promptOf
  BY DEF Next, Insert, Api, Ingest, ReanalyzeCheck, ReanalyzeInsert, ReanalyzeAbort, DeletePrompt,
         PurgePrompt, RetryJob, Dispatch, DispatchRead, DispatchAdd, DispatchMark,
         DispatchAbort, Broker, Deliver, Promote, RecoverStalled, LoseLock, Stall, Crash,
         ProcessAnalysis, ReadAnalysis, SetupFails, Claim, CallProvider, Complete, StoreResult,
         RecordFailure, Finish, WorkerFrame
<1>4. QED
  BY <1>1, <1>2, <1>3, RowSteps

\* Between check and insert of the one request no analysis is inserted.
LEMMA NextRequestSaw ==
  ASSUME OneRequest, CrashFreeInv, [Next]_vars
  PROVE  RequestSaw'
<1> SUFFICES ASSUME NEW r \in Requests, request'[r] # None,
                    NEW a \in AnalysesOf(request[r])', Active(a)'
             PROVE  attempts'[a] > 0
  BY DEF RequestSaw
<1> USE NoneAssumption DEF CrashFreeInv, StallFreeInv, IInv, TypeOK
<1>1. CASE Insert
  <2>1. ASSUME NEW p \in Prompts, NEW b \in Analyses, Ingest(p, b)
        PROVE  attempts'[a] > 0
    <3>1. request' = request /\ attempts' = attempts /\ request[r] # p
      BY <2>1 DEF Ingest, PromptsKnown, jobVars
    <3>2. a \in AnalysesOf(request[r]) /\ Active(a)
      BY <2>1, <3>1 DEF Ingest, CreateAnalysis, AnalysesOf, Exists, Active
    <3>3. QED
      BY <3>1, <3>2 DEF RequestSaw
  <2>2. ASSUME NEW s \in Requests, NEW b \in Analyses, ReanalyzeInsert(s, b)
        PROVE  FALSE
    BY <2>2 DEF OneRequest, ReanalyzeInsert
  <2>3. QED
    BY <1>1, <2>1, <2>2 DEF Insert
<1>2. ASSUME NEW s \in Requests, NEW p \in Prompts, ReanalyzeCheck(s, p)
      PROVE  attempts'[a] > 0
  <2>1. s = r /\ request'[r] = p /\ a \in AnalysesOf(p) /\ Active(a)
    BY <1>2 DEF OneRequest, ReanalyzeCheck, AnalysesOf, Exists, Active, rowVars
  <2>2. QED
    BY <1>2, <2>1 DEF ReanalyzeCheck
<1>3. CASE ~Insert /\ (UNCHANGED request \/ \E s \in Requests : ReanalyzeAbort(s))
  <2>1. request'[r] = request[r]
    BY <1>3 DEF ReanalyzeAbort
  <2>2. a \in AnalysesOf(request[r])
    BY <1>3, <2>1, AnalysesOfKept
  <2>3. Active(a) => attempts[a] > 0
    BY <2>1, <2>2 DEF RequestSaw
  <2>4. a \in Analyses
    BY <2>2 DEF AnalysesOf
  <2>5. QED
    BY <1>3, <2>3, <2>4, ActivatedByRetry, AttemptSteps
<1>4. QED
  BY <1>1, <1>2, <1>3
     DEF Next, vars, Insert, Api, DeletePrompt, PurgePrompt, RetryJob, Dispatch, DispatchRead,
         DispatchAdd, DispatchMark, DispatchAbort, Broker, Deliver, Promote, RecoverStalled,
         LoseLock, Stall, Crash, ProcessAnalysis, ReadAnalysis, SetupFails, Claim, CallProvider,
         Complete, RecordFailure, Finish, WorkerFrame

LEMMA NextSecondActive ==
  ASSUME CrashFreeInv, [Next]_vars
  PROVE  SecondActiveIsRetry'
<1> SUFFICES ASSUME NEW p \in Prompts, NEW a \in AnalysesOf(p)', NEW b \in AnalysesOf(p)',
                    Active(a)', Active(b)', a # b
             PROVE  attempts'[a] > 0 \/ attempts'[b] > 0
  <2>1. attempts' \in [Analyses -> Nat]
    BY NextTypeOK, AttemptsAssumption DEF CrashFreeInv, StallFreeInv, IInv, TypeOK
  <2>2. QED
    BY <2>1 DEF SecondActiveIsRetry, AnalysesOf
<1> USE NoneAssumption DEF CrashFreeInv, StallFreeInv, IInv, TypeOK
<1>1. a \in Analyses /\ b \in Analyses
  BY DEF AnalysesOf
<1>2. ASSUME NEW q \in Prompts, NEW c \in Analyses, Ingest(q, c)
      PROVE  attempts'[a] > 0 \/ attempts'[b] > 0
  <2>1. p # q
    BY <1>1, <1>2 DEF Ingest, CreateAnalysis, PromptsKnown, AnalysesOf, Exists
  <2>2. a # c /\ b # c
    BY <1>2, <2>1 DEF Ingest, CreateAnalysis, AnalysesOf
  <2>3. {a, b} \subseteq AnalysesOf(p) /\ Active(a) /\ Active(b) /\ attempts' = attempts
    BY <1>1, <1>2, <2>2 DEF Ingest, CreateAnalysis, AnalysesOf, Exists, Active, jobVars
  <2>4. QED
    BY <1>1, <2>3 DEF SecondActiveIsRetry
<1>3. ASSUME NEW r \in Requests, NEW c \in Analyses, ReanalyzeInsert(r, c)
      PROVE  attempts'[a] > 0 \/ attempts'[b] > 0
  <2>1. attempts' = attempts
    BY <1>3 DEF ReanalyzeInsert, jobVars
  <2>2. ASSUME NEW x \in {a, b}, x # c
        PROVE  x \in AnalysesOf(p) /\ Active(x)
    BY <1>1, <1>3, <2>2 DEF ReanalyzeInsert, CreateAnalysis, AnalysesOf, Exists, Active
  <2>3. CASE a # c /\ b # c
    BY <1>1, <2>1, <2>2, <2>3 DEF SecondActiveIsRetry
  <2>4. ASSUME NEW x \in {a, b}, x # c, c \in {a, b}
        PROVE  attempts'[x] > 0
    <3>1. p = request[r]
      BY <1>3, <2>4 DEF ReanalyzeInsert, CreateAnalysis, AnalysesOf
    <3>2. QED
      BY <1>3, <2>1, <2>2, <2>4, <3>1 DEF RequestSaw, ReanalyzeInsert
  <2>5. QED
    BY <2>3, <2>4
<1>4. CASE ~Insert
  <2>1. {a, b} \subseteq AnalysesOf(p)
    BY <1>4, AnalysesOfKept
  <2>2. CASE Active(a) /\ Active(b)
    <3>1. attempts[a] > 0 \/ attempts[b] > 0
      BY <1>1, <2>1, <2>2, AttemptsAssumption DEF SecondActiveIsRetry
    <3>2. QED
      BY <1>1, <3>1, AttemptSteps
  <2>3. CASE ~(Active(a) /\ Active(b))
    BY <1>1, <1>4, <2>3, ActivatedByRetry
  <2>4. QED
    BY <2>2, <2>3
<1>5. QED
  BY <1>2, <1>3, <1>4 DEF Insert

\* While reanalyze requests come one at a time, no worker dies and none loses its
\* lock, two analyses of a prompt are active together only if one of them is
\* being retried.
THEOREM SecondActiveMeansRetry ==
  ASSUME OneRequest, "crash" \notin Faults, "stall" \notin Faults
  PROVE  Spec => []SecondActiveIsRetry
<1>1. CrashFreeInv /\ [Next]_vars => CrashFreeInv'
  <2> SUFFICES ASSUME CrashFreeInv, [Next]_vars PROVE CrashFreeInv'
    OBVIOUS
  <2>1. StallFreeInv'
    BY NextStallFree DEF CrashFreeInv
  <2>2. PromptsKnown'
    BY NextPromptsKnown DEF CrashFreeInv, StallFreeInv
  <2>3. QED
    BY <2>1, <2>2, NextFirstFailure, NextRequestSaw, NextSecondActive DEF CrashFreeInv
<1>2. CrashFreeInv => SecondActiveIsRetry
  BY DEF CrashFreeInv
<1>3. QED
  BY InitCrashFree, <1>1, <1>2, PTL DEF Spec

===========================================================================
