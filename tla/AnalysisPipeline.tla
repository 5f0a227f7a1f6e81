------------------------- MODULE AnalysisPipeline -------------------------
(***************************************************************************)
(* The asynchronous analysis of an accepted prompt: the transactional      *)
(* outbox, its dispatcher, the BullMQ queue and the worker's               *)
(* processAnalysis, with the handlers of the API that touch the same rows  *)
(* (ingest, reanalyze, delete, operations.retry) and the retention job.    *)
(*                                                                         *)
(* One step of a process here is one committed database transaction or one *)
(* Redis command of the code: PostgreSQL runs at READ COMMITTED, so two    *)
(* statements of a transaction that only reads first are two steps.        *)
(* An analysis and its outbox event are written by the same transaction,   *)
(* and the event's id is the job's id, so all three share one index.       *)
(***************************************************************************)
EXTENDS Naturals, FiniteSets

CONSTANTS
    Prompts,          \* rows of the table prompts
    Analyses,         \* rows of the table analyses, their events and jobs
    Workers,          \* slots that run processAnalysis (4 in each process)
    Dispatchers,      \* runs of dispatchOutbox that may overlap
    Requests,         \* POST /prompts/:id/reanalyze requests in flight
    MaxAttempts,      \* BullMQ "attempts" of a job
    MaxStalled,       \* BullMQ maxStalledCount
    RetryableErrors,  \* error codes after which the job is retried
    FatalErrors,      \* error codes thrown as UnrecoverableError
    Faults,           \* the faults the environment may inject
    None              \* "no value"

Errors == RetryableErrors \cup FatalErrors

\* An exception that is not classified: thrown before the claim, or by the
\* catch block itself. BullMQ retries it.
Unclassified == "UNCLASSIFIED"

FaultKinds ==
    { "setup",     \* a read before the claim fails, or no API key is set
      "database",  \* a transaction of the worker is rolled back
      "claimLost", \* the COMMIT of a claim succeeds and its answer is lost
      "ackLost",   \* an outcome is stored; its answer or the next call fails
      "crash",     \* a worker process dies
      "stall",     \* a live worker loses its job lock
      "dispatch" } \* a dispatcher dies or one of its calls fails

ASSUME AttemptsAssumption == MaxAttempts \in Nat \ {0} /\ MaxStalled \in Nat

ASSUME ErrorsAssumption ==
    /\ "PROVIDER_ERROR" \in RetryableErrors
    /\ RetryableErrors \cap FatalErrors = {}
    /\ Unclassified \notin Errors
    /\ None \notin Errors \cup {Unclassified}

ASSUME FaultsAssumption == Faults \subseteq FaultKinds

ASSUME NoneAssumption ==
    None \notin Prompts \cup Analyses \cup Workers

VARIABLES
    prompt,     \* [Prompts -> "absent", "live", "hidden" (deletedAt), "purged"]
    status,     \* [Analyses -> AnalysisStatus, or "absent" or "purged"]
    errorCode,  \* [Analyses -> analyses.error_code]
    promptOf,   \* [Analyses -> analyses.prompt_id]
    improved,   \* [Analyses -> number of IMPROVED versions of the analysis]
    usage,      \* [Analyses -> number of usage records written for it]
    outbox,     \* [Analyses -> state of its outbox event]
    job,        \* [Analyses -> state of its BullMQ job]
    attempts,   \* [Analyses -> attemptsMade of the job, up to MaxAttempts]
    stalls,     \* [Analyses -> stalled counter of the job]
    lock,       \* [Analyses -> worker that holds the job lock, or None]
    pc,         \* [Workers -> next step of processAnalysis]
    task,       \* [Workers -> analysis of the job being processed, or None]
    error,      \* [Workers -> error in flight, or None]
    batch,      \* [Dispatchers -> events read and not yet published]
    marking,    \* [Dispatchers -> event added to the queue, not yet marked]
    request     \* [Requests -> prompt that passed the active check, or None]

rowVars == <<prompt, status, errorCode, promptOf, improved, usage>>
jobVars == <<job, attempts, stalls, lock>>
workerVars == <<pc, task, error>>
dispatchVars == <<batch, marking>>
vars == <<rowVars, outbox, jobVars, workerVars, dispatchVars, request>>

AnalysisStatus == {"QUEUED", "RUNNING", "COMPLETED", "FAILED"}
JobState == {"none", "waiting", "active", "delayed", "completed", "failed"}
ProgramCounter == {"idle", "read", "claim", "call", "complete", "recover", "finish"}

TypeOK ==
    /\ prompt \in [Prompts -> {"absent", "live", "hidden", "purged"}]
    /\ status \in [Analyses -> AnalysisStatus \cup {"absent", "purged"}]
    /\ errorCode \in [Analyses -> Errors \cup {Unclassified, None}]
    /\ promptOf \in [Analyses -> Prompts \cup {None}]
    /\ improved \in [Analyses -> 0..1]
    /\ usage \in [Analyses -> Nat]
    /\ outbox \in [Analyses -> {"absent", "pending", "published"}]
    /\ job \in [Analyses -> JobState]
    /\ attempts \in [Analyses -> 0..MaxAttempts]
    /\ stalls \in [Analyses -> 0..MaxStalled]
    /\ lock \in [Analyses -> Workers \cup {None}]
    /\ pc \in [Workers -> ProgramCounter]
    /\ task \in [Workers -> Analyses \cup {None}]
    /\ error \in [Workers -> Errors \cup {Unclassified, None}]
    /\ batch \in [Dispatchers -> SUBSET Analyses]
    /\ marking \in [Dispatchers -> Analyses \cup {None}]
    /\ request \in [Requests -> Prompts \cup {None}]

Init ==
    /\ prompt = [p \in Prompts |-> "absent"]
    /\ status = [a \in Analyses |-> "absent"]
    /\ errorCode = [a \in Analyses |-> None]
    /\ promptOf = [a \in Analyses |-> None]
    /\ improved = [a \in Analyses |-> 0]
    /\ usage = [a \in Analyses |-> 0]
    /\ outbox = [a \in Analyses |-> "absent"]
    /\ job = [a \in Analyses |-> "none"]
    /\ attempts = [a \in Analyses |-> 0]
    /\ stalls = [a \in Analyses |-> 0]
    /\ lock = [a \in Analyses |-> None]
    /\ pc = [w \in Workers |-> "idle"]
    /\ task = [w \in Workers |-> None]
    /\ error = [w \in Workers |-> None]
    /\ batch = [d \in Dispatchers |-> {}]
    /\ marking = [d \in Dispatchers |-> None]
    /\ request = [r \in Requests |-> None]

Exists(a) == status[a] \in AnalysisStatus
Active(a) == status[a] \in {"QUEUED", "RUNNING"}
AnalysesOf(p) == {a \in Analyses : promptOf[a] = p /\ Exists(a)}

---------------------------------------------------------------------------
(* Handlers of the API.                                                    *)

\* The rows ingest and reanalyze write for analysis a of prompt p.
CreateAnalysis(a, p) ==
    /\ status[a] = "absent"
    /\ status' = [status EXCEPT ![a] = "QUEUED"]
    /\ promptOf' = [promptOf EXCEPT ![a] = p]
    /\ outbox' = [outbox EXCEPT ![a] = "pending"]

\* PromptsService.ingest of a new event, in one transaction.
Ingest(p, a) ==
    /\ prompt[p] = "absent"
    /\ prompt' = [prompt EXCEPT ![p] = "live"]
    /\ CreateAnalysis(a, p)
    /\ UNCHANGED <<errorCode, improved, usage, jobVars, workerVars, dispatchVars, request>>

\* Mutant: only a running analysis stops reanalyze.
ReanalyzeCheckRunning(r, p) ==
    /\ request[r] = None
    /\ prompt[p] = "live"
    /\ \A a \in AnalysesOf(p) : status[a] # "RUNNING"
    /\ request' = [request EXCEPT ![r] = p]
    /\ UNCHANGED <<rowVars, outbox, jobVars, workerVars, dispatchVars>>

\* reanalyze reads the prompt and finds no active analysis of it.
ReanalyzeCheck(r, p) ==
    /\ request[r] = None
    /\ prompt[p] = "live"
    /\ \A a \in AnalysesOf(p) : ~Active(a)
    /\ request' = [request EXCEPT ![r] = p]
    /\ UNCHANGED <<rowVars, outbox, jobVars, workerVars, dispatchVars>>

\* reanalyze inserts; the prompt row must still exist (foreign key).
ReanalyzeInsert(r, a) ==
    /\ request[r] # None
    /\ prompt[request[r]] # "purged"
    /\ CreateAnalysis(a, request[r])
    /\ request' = [request EXCEPT ![r] = None]
    /\ UNCHANGED <<prompt, errorCode, improved, usage, jobVars, workerVars, dispatchVars>>

\* The insert violates the foreign key, or the request dies: rolled back.
ReanalyzeAbort(r) ==
    /\ request[r] # None
    /\ request' = [request EXCEPT ![r] = None]
    /\ UNCHANGED <<rowVars, outbox, jobVars, workerVars, dispatchVars>>

\* PromptHistoryService.delete only sets deletedAt.
DeletePrompt(p) ==
    /\ prompt[p] = "live"
    /\ prompt' = [prompt EXCEPT ![p] = "hidden"]
    /\ UNCHANGED <<status, errorCode, promptOf, improved, usage, outbox, jobVars, workerVars,
                   dispatchVars, request>>

\* Retention: prompts are deleted, their analyses and versions cascade. The
\* outbox events, the jobs and the usage records stay.
PurgePrompt(p) ==
    /\ prompt[p] \in {"live", "hidden"}
    /\ prompt' = [prompt EXCEPT ![p] = "purged"]
    /\ status' = [a \in Analyses |-> IF a \in AnalysesOf(p) THEN "purged" ELSE status[a]]
    /\ errorCode' = [a \in Analyses |-> IF a \in AnalysesOf(p) THEN None ELSE errorCode[a]]
    /\ improved' = [a \in Analyses |-> IF a \in AnalysesOf(p) THEN 0 ELSE improved[a]]
    /\ UNCHANGED <<promptOf, usage, outbox, jobVars, workerVars, dispatchVars, request>>

\* OperationsService.retry: only a failed job goes back to the queue.
RetryJob(a) ==
    /\ job[a] = "failed"
    /\ job' = [job EXCEPT ![a] = "waiting"]
    /\ UNCHANGED <<rowVars, outbox, attempts, stalls, lock, workerVars, dispatchVars, request>>

---------------------------------------------------------------------------
(* dispatchOutbox. The order inside a batch and its LIMIT of 50 are        *)
(* abstracted: any event of the batch may be next.                         *)

\* Mutant: the events are marked while they are read.
DispatchReadAndMark(d) ==
    /\ batch[d] = {} /\ marking[d] = None
    /\ batch' = [batch EXCEPT ![d] = {a \in Analyses : outbox[a] = "pending"}]
    /\ outbox' = [a \in Analyses |-> IF outbox[a] = "pending" THEN "published" ELSE outbox[a]]
    /\ UNCHANGED <<rowVars, jobVars, workerVars, marking, request>>

DispatchRead(d) ==
    /\ batch[d] = {} /\ marking[d] = None
    /\ \E a \in Analyses : outbox[a] = "pending"
    /\ batch' = [batch EXCEPT ![d] = {a \in Analyses : outbox[a] = "pending"}]
    /\ UNCHANGED <<rowVars, outbox, jobVars, workerVars, marking, request>>

\* queue.add: BullMQ ignores a job id it already knows, finished or not.
Enqueued(a) == IF job[a] = "none" THEN [job EXCEPT ![a] = "waiting"] ELSE job

DispatchAdd(d, a) ==
    /\ marking[d] = None
    /\ a \in batch[d]
    /\ job' = Enqueued(a)
    /\ marking' = [marking EXCEPT ![d] = a]
    /\ UNCHANGED <<rowVars, outbox, attempts, stalls, lock, workerVars, batch, request>>

DispatchMark(d) ==
    /\ marking[d] # None
    /\ outbox' = [outbox EXCEPT ![marking[d]] = "published"]
    /\ batch' = [batch EXCEPT ![d] = @ \ {marking[d]}]
    /\ marking' = [marking EXCEPT ![d] = None]
    /\ UNCHANGED <<rowVars, jobVars, workerVars, request>>

\* The process dies, or a call throws and leaves the loop.
DispatchAbort(d) ==
    /\ "dispatch" \in Faults
    /\ batch[d] # {}
    /\ batch' = [batch EXCEPT ![d] = {}]
    /\ marking' = [marking EXCEPT ![d] = None]
    /\ UNCHANGED <<rowVars, outbox, jobVars, workerVars, request>>

---------------------------------------------------------------------------
(* BullMQ, as the worker uses it.                                          *)

Deliver(w, a) ==
    /\ pc[w] = "idle"
    /\ job[a] = "waiting"
    /\ job' = [job EXCEPT ![a] = "active"]
    /\ lock' = [lock EXCEPT ![a] = w]
    /\ pc' = [pc EXCEPT ![w] = "read"]
    /\ task' = [task EXCEPT ![w] = a]
    /\ UNCHANGED <<rowVars, outbox, attempts, stalls, error, dispatchVars, request>>

\* The exponential backoff of a job is over.
Promote(a) ==
    /\ job[a] = "delayed"
    /\ job' = [job EXCEPT ![a] = "waiting"]
    /\ UNCHANGED <<rowVars, outbox, attempts, stalls, lock, workerVars, dispatchVars, request>>

\* A job whose lock has lapsed is stalled: it goes back to the queue until
\* it has stalled too often, then it fails.
Stall(a) ==
    /\ job' = [job EXCEPT ![a] = IF stalls[a] < MaxStalled THEN "waiting" ELSE "failed"]
    /\ stalls' = [stalls EXCEPT ![a] = IF @ < MaxStalled THEN @ + 1 ELSE @]
    /\ lock' = [lock EXCEPT ![a] = None]
    /\ UNCHANGED <<rowVars, outbox, attempts, workerVars, dispatchVars, request>>

\* The holder of the lock is gone: nothing renews it.
RecoverStalled(a) ==
    /\ job[a] = "active"
    /\ \A w \in Workers : lock[a] = w => task[w] # a
    /\ Stall(a)

\* The holder lives and fails to renew the lock in time.
LoseLock(a) ==
    /\ "stall" \in Faults
    /\ job[a] = "active"
    /\ \E w \in Workers : lock[a] = w /\ task[w] = a
    /\ Stall(a)

Crash(w) ==
    /\ "crash" \in Faults
    /\ pc[w] # "idle"
    /\ pc' = [pc EXCEPT ![w] = "idle"]
    /\ task' = [task EXCEPT ![w] = None]
    /\ error' = [error EXCEPT ![w] = None]
    /\ UNCHANGED <<rowVars, outbox, jobVars, dispatchVars, request>>

---------------------------------------------------------------------------
(* processAnalysis of worker w.                                            *)

Goto(w, label, e) ==
    /\ pc' = [pc EXCEPT ![w] = label]
    /\ error' = [error EXCEPT ![w] = e]
    /\ UNCHANGED task

WorkerFrame == UNCHANGED <<outbox, jobVars, dispatchVars, request>>

\* The row is read, then the tenant, and the status of the row is examined. The
\* tenant is gone only if the row is by then, deleted with it; that error is an
\* UnrecoverableError, which BullMQ treats as those the catch block makes fatal.
ReadAnalysis(w) ==
    /\ pc[w] = "read"
    /\ \/ /\ ~Exists(task[w])
          /\ \E e \in FatalErrors \cup {Unclassified} : Goto(w, "finish", e)
       \/ /\ status[task[w]] = "COMPLETED"
          /\ Goto(w, "finish", None)
       \/ /\ Exists(task[w]) /\ status[task[w]] # "COMPLETED"
          /\ Goto(w, "claim", None)
    /\ WorkerFrame /\ UNCHANGED rowVars

\* A read or the claim fails, or provider() finds no API key.
SetupFails(w) ==
    /\ "setup" \in Faults
    /\ pc[w] \in {"read", "claim"}
    /\ Goto(w, "finish", Unclassified)
    /\ WorkerFrame /\ UNCHANGED rowVars

\* Mutants: a running row, or any row that is not running, may be taken.
ClaimableUnfinished(a) == status[a] \in {"QUEUED", "RUNNING", "FAILED"}
ClaimableNotRunning(a) == status[a] # "RUNNING"

Claimable(a) == status[a] \in {"QUEUED", "FAILED"}

\* Mutant: the code of the last failure stays.
TakeRowOnly(a) ==
    /\ status' = [status EXCEPT ![a] = "RUNNING"]
    /\ UNCHANGED errorCode

TakeRow(a) ==
    /\ status' = [status EXCEPT ![a] = "RUNNING"]
    /\ errorCode' = [errorCode EXCEPT ![a] = None]

\* The conditional update that takes the analysis. It is outside the try
\* block: a worker that does not get the answer throws and holds nothing.
Claim(w) ==
    /\ pc[w] = "claim"
    /\ LET a == task[w] IN
       \/ /\ Claimable(a)
          /\ TakeRow(a)
          /\ \/ Goto(w, "call", None)
             \/ "claimLost" \in Faults /\ Goto(w, "finish", Unclassified)
       \/ /\ ~Claimable(a)
          /\ Goto(w, "finish", None)
          /\ UNCHANGED <<status, errorCode>>
    /\ WorkerFrame /\ UNCHANGED <<prompt, promptOf, improved, usage>>

\* Mutant: the calls are made outside the try block.
CallProviderUncaught(w) ==
    /\ pc[w] = "call"
    /\ \/ Goto(w, "complete", None)
       \/ \E e \in Errors : Goto(w, "finish", e)
    /\ WorkerFrame /\ UNCHANGED rowVars

\* enforce() and analyze(): a valid result, or an error of either.
CallProvider(w) ==
    /\ pc[w] = "call"
    /\ \/ Goto(w, "complete", None)
       \/ \E e \in Errors : Goto(w, "recover", e)
    /\ WorkerFrame /\ UNCHANGED rowVars

\* Mutant: the unique constraint on promptVersion.analysisId is missing.
CanCompleteAgain(a) == Exists(a)

\* promptVersion.analysisId is unique and the row must still be there.
CanComplete(a) == Exists(a) /\ improved[a] = 0

StoreResult(a) ==
    /\ status' = [status EXCEPT ![a] = "COMPLETED"]
    /\ improved' = [improved EXCEPT ![a] = @ + 1]
    /\ usage' = [usage EXCEPT ![a] = @ + 1]
    /\ UNCHANGED <<prompt, errorCode, promptOf>>

\* The transaction that stores the score, the version and the usage record.
Complete(w) ==
    /\ pc[w] = "complete"
    /\ \/ /\ CanComplete(task[w])
          /\ StoreResult(task[w])
          /\ Goto(w, "finish", None)
       \/ /\ CanComplete(task[w]) /\ "ackLost" \in Faults
          /\ StoreResult(task[w])
          /\ Goto(w, "recover", "PROVIDER_ERROR")
       \/ /\ ~CanComplete(task[w]) \/ "database" \in Faults
          /\ Goto(w, "recover", "PROVIDER_ERROR")
          /\ UNCHANGED rowVars
    /\ WorkerFrame

\* The catch block: by id only, whatever the status is by now. When the answer
\* of the update or recordProviderFailure fails, that error is thrown instead.
RecordFailure(w) ==
    /\ pc[w] = "recover"
    /\ LET a == task[w] IN
       \/ /\ Exists(a)
          /\ status' = [status EXCEPT ![a] = "FAILED"]
          /\ errorCode' = [errorCode EXCEPT ![a] = error[w]]
          /\ \/ Goto(w, "finish", error[w])
             \/ "ackLost" \in Faults /\ Goto(w, "finish", Unclassified)
       \/ /\ ~Exists(a) \/ "database" \in Faults
          /\ Goto(w, "finish", Unclassified)
          /\ UNCHANGED <<status, errorCode>>
    /\ WorkerFrame /\ UNCHANGED <<prompt, promptOf, improved, usage>>

\* Mutants: only fatal errors are rethrown; attempts are not limited.
JobAfterSwallowed(a, e) == IF e \in FatalErrors THEN "failed" ELSE "completed"
JobAfterUnlimited(a, e) ==
    IF e = None THEN "completed" ELSE IF e \in FatalErrors THEN "failed" ELSE "delayed"

\* What BullMQ makes of the job when the handler returns or throws e.
JobAfter(a, e) ==
    IF e = None THEN "completed"
    ELSE IF e \in FatalErrors \/ attempts[a] + 1 >= MaxAttempts THEN "failed"
    ELSE "delayed"

\* The handler ends. The move is refused to a worker that lost the lock.
Finish(w) ==
    /\ pc[w] = "finish"
    /\ LET a == task[w] IN
       \/ /\ lock[a] = w
          /\ job' = [job EXCEPT ![a] = JobAfter(a, error[w])]
          /\ attempts' = [attempts EXCEPT ![a] =
                            IF error[w] # None /\ @ < MaxAttempts THEN @ + 1 ELSE @]
          /\ lock' = [lock EXCEPT ![a] = None]
       \/ /\ lock[a] # w
          /\ UNCHANGED <<job, attempts, lock>>
    /\ pc' = [pc EXCEPT ![w] = "idle"]
    /\ task' = [task EXCEPT ![w] = None]
    /\ error' = [error EXCEPT ![w] = None]
    /\ UNCHANGED <<rowVars, outbox, stalls, dispatchVars, request>>

---------------------------------------------------------------------------

Api ==
    \/ \E p \in Prompts, a \in Analyses : Ingest(p, a)
    \/ \E r \in Requests, p \in Prompts : ReanalyzeCheck(r, p)
    \/ \E r \in Requests, a \in Analyses : ReanalyzeInsert(r, a)
    \/ \E r \in Requests : ReanalyzeAbort(r)
    \/ \E p \in Prompts : DeletePrompt(p) \/ PurgePrompt(p)
    \/ \E a \in Analyses : RetryJob(a)

Dispatch(d) ==
    \/ DispatchRead(d)
    \/ \E a \in Analyses : DispatchAdd(d, a)
    \/ DispatchMark(d)
    \/ DispatchAbort(d)

\* What processAnalysis does by itself once it has a job.
ProcessAnalysis(w) ==
    \/ ReadAnalysis(w)
    \/ Claim(w)
    \/ CallProvider(w)
    \/ Complete(w)
    \/ RecordFailure(w)
    \/ Finish(w)

Broker ==
    \/ \E w \in Workers, a \in Analyses : Deliver(w, a)
    \/ \E a \in Analyses : Promote(a) \/ RecoverStalled(a) \/ LoseLock(a)
    \/ \E w \in Workers : Crash(w)

Next ==
    \/ Api
    \/ \E d \in Dispatchers : Dispatch(d)
    \/ Broker
    \/ \E w \in Workers : ProcessAnalysis(w) \/ SetupFails(w)

Spec == Init /\ [][Next]_vars

\* The timers and the worker loop run for as long as the process does: a
\* handler that started ends, a waiting job is taken, a backoff ends and the
\* stalled check runs. The dispatcher is retried every second, so an event
\* that can be added again and again is added in the end. Requests of users,
\* deletions and faults owe nothing.
Fairness ==
    /\ \A w \in Workers : WF_vars(ProcessAnalysis(w))
    /\ \A a \in Analyses :
        /\ WF_vars(\E w \in Workers : Deliver(w, a))
        /\ WF_vars(Promote(a))
        /\ WF_vars(RecoverStalled(a))
        /\ SF_vars(\E d \in Dispatchers : DispatchAdd(d, a))
    /\ \A d \in Dispatchers : WF_vars(DispatchRead(d)) /\ WF_vars(DispatchMark(d))

FairSpec == Spec /\ Fairness

---------------------------------------------------------------------------
(* Properties.                                                             *)

\* Worker w is between its claim of a and the outcome it records.
Holds(w, a) == task[w] = a /\ pc[w] \in {"call", "complete", "recover"}

\* At most one worker at a time spends provider calls on an analysis, even
\* when the queue delivers its job twice (claim, main.ts 95-101).
ExclusiveRun ==
    \A a \in Analyses : \A v, w \in Workers : Holds(v, a) /\ Holds(w, a) => v = w

\* A result is stored and billed at most once whatever is redelivered,
\* retried or reported late, and while the prompt exists a usage record and
\* an improved version come together (transaction, main.ts 107-141).
BilledOnce ==
    \A a \in Analyses :
        /\ usage[a] <= 1
        /\ Exists(a) => improved[a] = usage[a]
        /\ status[a] = "COMPLETED" => improved[a] = 1

\* The error a user sees belongs to the present state: a failed analysis has
\* a code, a running or completed one carries none of an earlier attempt.
ErrorIsCurrent ==
    \A a \in Analyses : errorCode[a] # None <=> status[a] = "FAILED"

\* An analysis that waits always has a carrier: its event is not published
\* yet, its job will still be delivered, or the job failed where an operator
\* sees it. A job is never written off as done before its analysis started.
QueuedHasCarrier ==
    \A a \in Analyses :
        status[a] = "QUEUED" =>
            \/ outbox[a] = "pending"
            \/ job[a] \in {"waiting", "active", "delayed", "failed"}

\* While no worker crashes, learns nothing of its own claim or fails to write
\* an outcome, an analysis shown as running is run by some worker (what line
\* 101 relies on when it returns silently).
RunningIsHeld ==
    \A a \in Analyses : status[a] = "RUNNING" => \E w \in Workers : Holds(w, a)

\* An analysis that failed for a passing reason is retried, until its job is
\* among the failed ones (rethrow, main.ts 160, attempts 5, line 184).
FailedIsRetried ==
    \A a \in Analyses :
        status[a] = "FAILED" /\ errorCode[a] \in RetryableErrors =>
            job[a] \in {"waiting", "active", "delayed", "failed"}

\* A completed analysis stays completed until its prompt is purged: no late
\* or duplicate delivery reopens it or turns it into a failure. Only the worker
\* that stored the result may still do so, when the answer of its own COMMIT
\* was lost (catch block, main.ts 142-160).
CompletedIsFinal ==
    [][\A a \in Analyses :
        status[a] = "COMPLETED" =>
            \/ status'[a] \in {"COMPLETED", "purged"}
            \/ "ackLost" \in Faults /\ status'[a] = "FAILED" /\ \E w \in Workers : Holds(w, a)]_vars

\* A running analysis always has someone who will end it: a worker, or a
\* delivery that is still to come or can be retried by an operator.
RunningIsRecoverable ==
    \A a \in Analyses :
        status[a] = "RUNNING" =>
            \/ \E w \in Workers : Holds(w, a)
            \/ job[a] \in {"waiting", "active", "delayed", "failed"}

\* While reanalyze requests do not overlap, two analyses of one prompt are active
\* together only if one had failed and is tried again: a failed analysis that
\* waits for its retry does not count as active (prompt-history.service.ts
\* 379-382, worker 98).
SecondActiveIsRetry ==
    \A p \in Prompts : \A a, b \in AnalysesOf(p) :
        Active(a) /\ Active(b) /\ a # b => attempts[a] + attempts[b] > 0

\* The pipeline implements the lease: queue, outbox, dispatchers, locks and
\* attempts are hidden, the holders are the workers past their claim.
Lease == INSTANCE AnalysisLease WITH
    state <- status,
    holders <- [a \in Analyses |-> {w \in Workers : Holds(w, a)}],
    billed <- {a \in Analyses : usage[a] > 0}

\* Every step of the pipeline is a step of the lease or hidden from it, so
\* a lease is granted only to one worker and only its holder ends it.
ImplementsLease == Lease!Spec

\* Every accepted analysis is started, or its job ends in the failed set.
QueuedIsTried ==
    \A a \in Analyses : status[a] = "QUEUED" ~> (status[a] # "QUEUED" \/ job[a] = "failed")

\* Every job that is delivered ends: no loop of retries, stalls and claims
\* goes on for ever.
DeliveredJobEnds ==
    \A a \in Analyses : job[a] = "active" ~> job[a] \in {"completed", "failed"}
===========================================================================
