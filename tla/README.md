# PromptLens in TLA+

PromptLens collects the prompts that people give to AI coding tools, has each
one scored by an AI provider and shows the results to a workspace. A small
program runs in the editor (a *connector*), an API stores prompts in PostgreSQL,
and a worker analyses them through a BullMQ queue in Redis.

This directory holds TLA+ modules that model the concurrent parts of that
program, configurations that check them with TLC on small instances, and proofs
that TLAPS checks for every value of the constants. Line numbers refer to the
files under `src/` at the commit that is modelled.

* [The system](#the-system)
* [Modules](#modules)
* [Runs](#runs)
* [Proofs](#proofs)
* [What the model found](#what-the-model-found)
* [What is not modelled](#what-is-not-modelled)
* [Plan](#plan)

To repeat the checks:

    tlc -config PipelineFaults.cfg MCAnalysisPipeline
    tlapm AnalysisPipelineProofs.tla

## The system

### Components

| Component | State | Operations | Talks to |
|---|---|---|---|
| Analysis pipeline (`apps/worker/src/main.ts`, `apps/api/src/admin/operations.service.ts`) | rows `analyses`, `prompt_versions`, `usage_records`, `outbox_events`; BullMQ jobs and their locks | `dispatchOutbox`, `processAnalysis`, `retry` | PostgreSQL, Redis, provider |
| Analysis controls (`analysis-controls.ts`) | Redis keys `rate`, `failures`, `circuit`; sum of the usage records | `enforce`, `recordProviderFailure` | called by `processAnalysis` |
| Providers, rubric, error classes (`apps/worker/src/analysis`) | none | `analyze`, `calculateScore`, `classifyAnalysisError` | HTTP |
| Prompt ingest (`prompts.service.ts`) | rows `prompts`, `tags` and what the pipeline starts from | `ingest` | called by connectors |
| Prompt history (`prompt-history.service.ts`) | the same rows | `list`, `detail`, `export`, `reanalyze`, `delete` | called by the web application |
| Device authorization (`device-authorization.service.ts`) | row `device_authorizations` | `create`, `approve`, `poll` | creates installations and credentials |
| Connector credentials (same file, `admin.service.ts`) | rows `connector_credentials`, `connector_installations` | issue in `poll`, `refresh`, `authenticate`, `revokeConnector` | guard of `ingest` |
| Connector SDK (`connectors/sdk/src/index.ts`) | local queue, tokens in the keyring | `enqueue`, `flush`, `refresh`, `pollAuthorization` | API |
| Connector CLI and storage (`connectors/*/src`) | state file, lock file | `connect`, `capture`, `status`, `install` | SDK |
| Sessions and mail tokens (`auth.service.ts`) | rows `users`, `sessions`, `auth_tokens` | `register`, `login`, `authenticate`, `switchTenant`, `verifyEmail`, `resetPassword`, ... | guard of the web API |
| Workspace administration, support grants (`admin.service.ts`) | rows `memberships`, `support_grants`, `tenants` | members, roles, suspension, settings, support access | revokes sessions and connectors |
| Data lifecycle (`main.ts`, `admin.service.ts`) | `tenants.deletion_scheduled_at`, retention | `scheduleDeletion`, `cancelDeletion`, `enforceDataLifecycle` | deletes what all others hold |
| Projects (`projects.service.ts`) | rows `projects` | create, update, archive | checked by `ingest` and `approve` |
| Database package, contracts, domain, web, configuration, scripts | schema and row level security | | |

### How they interact

A user approves a device code in the browser (`approve`), the connector polls
with the device code and gets the first credential of a new family (`poll`).
From then on each prompt starts a hook process: it appends the prompt to a
queue in a state file shared by all hooks of the machine (`enqueue`) and sends
what the queue holds (`flush`), refreshing its credential when it has expired
(`refresh`). `ingest` stores prompt, analysis and outbox event in one
transaction. Once a second each worker process reads the pending events, adds a
job for each to the queue, and marks the event. Four slots per worker process
take jobs: `processAnalysis` reads the analysis, claims it by a conditional
update, passes the controls, calls the provider, and stores score, version and
usage record in one transaction, or an error code in another. Users may
meanwhile ask for another analysis, delete the prompt, or let retention delete
it; an operator may retry failed jobs.

### What is hard

* **At-least-once delivery.** BullMQ delivers a job again when a worker dies or
  loses its lock, the dispatcher may publish an event several times, an operator
  may retry. What makes the effect happen once is one `UPDATE ... WHERE status IN`
  (line 97) and one unique column (`prompt_versions.analysis_id`).
* **Read, then write.** PostgreSQL runs at READ COMMITTED. Every handler that
  reads a row, decides, and writes by id is open to another between the two:
  `reanalyze`, `approve`, `updateMember`, `requestSupport`, `switchTenant`, `login`.
  Handlers that put the condition in the update (`poll`, `refresh`,
  `verifyEmail`, the claim) are not.
* **Statements see a snapshot.** The family revocation of `refresh` and that of
  `revokeConnector` wait for locked rows but never see a row inserted after they
  started.
* **Files shared by processes.** The lock file protects one read or one write of
  the state, not the read-modify-write of two of them, and outlives a killed hook.
* **The caller goes, the request stays.** The editor kills a hook after five seconds
  (`connectors/claude-code/src/install.ts` 46). The API goes on with what it sent, and
  the next hook sends it again.
* **Read once, act for a long time.** `enforceDataLifecycle` reads all workspaces before
  it handles the first; `authenticate` reads the role before the transaction that trusts it.
* **Errors end loops.** Nothing catches an error inside the loop of `connect` or of
  `enforceDataLifecycle`, nor the claim of `processAnalysis`: one error ends the first, the rest of
  the workspaces wait for another run, and an analysis may be left RUNNING.
* **Several commands, one meaning.** INCR and EXPIRE, the sum of the usage records
  and the call they admit, are steps others get in between.

### What makes each component correct

* Pipeline: one worker at a time between claim and outcome; one bill per
  analysis; an error code exactly while failed; a waiting analysis always has an
  event or a job; every delivered job ends; completed is final.
* Controls: no minute admits more than the limit; the budget is overshot by a
  bounded amount; failures are forgotten.
* Device flow: no more families than approvals; consumed means issued; an
  approved code is reached while a loop polls it.
* Credentials: one token of a family that can be rotated; used tokens form a
  chain; an answer of "reuse" is deserved, and ends the family.
* Connector queue: a queued prompt stays until it is stored; a hook ends.
* Connector tokens: honest hooks are not locked out; reuse ends the family; a refused hook
  throws away only its own, dead, tokens (with two exceptions, below).
* Ingest: one prompt for an event, however often it is sent; what a hook takes for
  stored is stored; conflicts end a request only when one of them was over a tag.
* Sessions: a live session belongs to the present password and an active account; a
  switch moves a session; a mailed token works once, and only the last one.
* Workspaces: an owner remains; owners are made by owners; who is removed has no session.
* Lifecycle: nothing is deleted early, and a run that does not fail deletes what is due.

`PROJECT.json` lists the hazards of the code at their lines, with the
properties that guard each, or the reason why none does yet.

## Modules

| Module | Models | Depends on |
|---|---|---|
| `AnalysisPipeline` | outbox, dispatchers, BullMQ, `processAnalysis`, `reanalyze`, `delete`, `retry`, retention | instantiates `AnalysisLease` |
| `AnalysisLease` | what the pipeline promises: the abstract specification | |
| `AnalysisPipelineProofs` | its theorems | `AnalysisPipeline` |
| `AnalysisControls`, `AnalysisControlsProofs` | `enforce`, `recordProviderFailure` | |
| `DeviceAuthorization`, `DeviceAuthorizationProofs` | `approve`, `poll` of one code | |
| `ConnectorCredentials` | issue, `refresh`, `revokeConnector` | |
| `ConnectorTokens` | keyring, `send`, `refresh` of the hooks | extends `ConnectorCredentials` |
| `ConnectorTokensProofs` | theorems of both | `ConnectorTokens` |
| `ConnectorQueue` | `enqueue`, `flush`, lock file | |
| `PromptIngest` | `ingest`, archiving of the project | |
| `PromptCapture` | the hooks of `ConnectorQueue` with the API of `PromptIngest` | extends the one, instantiates the other |
| `PromptCaptureProofs` | theorems of all three | `PromptCapture` |
| `AccountSessions`, `AccountSessionsProofs` | `login`, `switchTenant`, mail tokens, `resetPassword`, `updateUserStatus` | |
| `WorkspaceMembers`, `WorkspaceMembersProofs` | `addMember`, `updateMember`, `removeMember` | |
| `DataLifecycle`, `DataLifecycleProofs` | scheduled deletion, retention, `enforceDataLifecycle` | |
| `MC...` | symmetry sets for TLC; values are in the `.cfg` | the module of that name |

Definitions named "Mutant" in their comment are wrong variants of the definition
that follows them, as a plausible mistake in the code would make it. No
specification uses them; they show that each property can fail: with the
variant in place of the definition TLC refutes the property.

### AnalysisPipeline

One step is one committed transaction or one Redis command. An analysis and its
outbox event are written together, and the event's id is the job's id, so rows,
events and jobs share one index, `Analyses`.

| Variable | In the program |
|---|---|
| `status`, `errorCode`, `promptOf` | columns of `analyses`; `"purged"` is a row deleted with its prompt |
| `prompt` | row of `prompts`; `"hidden"` has `deleted_at` |
| `improved`, `usage` | IMPROVED versions of the analysis; usage records ever written for it |
| `outbox` | its event: pending or published |
| `job`, `attempts`, `stalls`, `lock` | its BullMQ job |
| `pc`, `task`, `error` | a run of `processAnalysis` |
| `batch`, `marking` | a run of `dispatchOutbox` |
| `request` | a `reanalyze` between check and insert |

| Action | Code |
|---|---|
| `Ingest`, `ReanalyzeCheck`, `ReanalyzeInsert`, `ReanalyzeAbort`, `DeletePrompt` | `prompts.service.ts` 37-118, `prompt-history.service.ts` 369-428 |
| `PurgePrompt` | `main.ts` 209-218, with the cascades of the schema |
| `RetryJob` | `operations.service.ts` 48-55 |
| `DispatchRead`, `DispatchAdd`, `DispatchMark`, `DispatchAbort` | `main.ts` 173-197 |
| `ReadAnalysis`, `SetupFails`, `Claim` | 75-101; the claim may be committed and its answer lost |
| `CallProvider` | 102-106: the controls, the call and the score, ending in a result or in any classified error |
| `Complete` | 107-141 |
| `RecordFailure` | 143-161; it may be stored and the answer, or `recordProviderFailure`, fail |
| `Deliver`, `Promote`, `RecoverStalled`, `LoseLock`, `Finish`, `Crash` | BullMQ as used in 164-167: external |

A fault is possible only if it is in the constant `Faults`, so a run can say under
which faults a property holds. Two of them are lost answers:

* `"ackLost"`: the COMMIT of an outcome succeeds and the worker learns of an error. After
  `Complete` it goes to the catch block and writes FAILED over COMPLETED. The next attempt claims
  the failed row, calls the provider again, and hits the unique key of `prompt_versions`: so
  `BilledOnce` holds even then, and the analysis ends FAILED with its result stored. In the catch
  block it throws the new error in place of the classified one, so that BullMQ retries what was
  permanent; an error of `recordProviderFailure` (153) does the same.
* `"claimLost"`: the COMMIT of the claim succeeds and the worker learns of an error. The claim is
  outside the try block, so the handler ends and the row stays RUNNING; the redelivered job finds it
  RUNNING and returns. `pipeline_faults` has this fault, `pipeline_steady` has not.

`AnalysisLease` knows analyses, holders and bills. It says that a lease is granted
only while nobody holds it and the analysis waits, that only the holder decides the
outcome, and that a result is billed once. `ImplementsLease` maps `state` to
`status`, `holders` to the workers past their claim and `billed` to the analyses with
a usage record; queue, outbox, locks and attempts are hidden.

### AnalysisControls

`ReadCircuit`, `CountRequest` and `CheckBudget` are `enforce` (lines 31-51);
a command or the sum that fails on the way goes to the catch block as a failure of the provider
(`EnforceFails`); `CallProvider` and `StoreResult` what `processAnalysis` does with its answer;
`CountFailure`, `ExpireFailures`, `Trip` are `recordProviderFailure` (53-60), one
action per command. Left out: an INCR that comes two minutes after the clock was
read, with the EXPIRE of the rate key; the change of the month; a second provider.
`admitted` and `orphaned` are history variables.

### DeviceAuthorization

One code. `ApproveRead` and `ApproveWrite` are the two statements of `approve` that
others get in between: lines 79-92 and 97-130 (the row is locked from its update to
the commit). `PollRead` is the select of `poll`, then one of `PollExpire`,
`PollPending`, `PollClaim`; `PollDenied` is a poll that only answers `access_denied`. `recent`
abstracts `lastPolledAt`, `expired` the clock. `issued` records for which installation each family
was issued. `loop` is the loop of `connect` (`codex/src/cli.ts` 34-40, `claude-code/src/cli.ts`
36-42): it goes on after `authorization_pending` and `slow_down`, and ends on every other answer.
`PollAbort` (the transaction is rolled back, 500) and `PollLost` (the connection breaks, the
request goes on) end it too, as nothing catches what `pollAuthorization` throws. A device code that
is unknown or fails PKCE is answered before anything is written and is left out.

### ConnectorCredentials

The rows of one installation. `RefreshRead`, `RefreshClaim`, `RefreshCommit` are the
statements of `refresh` (220, 228, 239-253 with the commit); `ReuseRead` and
`ReuseCommit` are the family revocation: which rows the statement sees, then, when no
other transaction holds them, their update. `lock[k]` is the transaction that has
updated row `k` and not committed; others see the old version until it does.
`RefreshAbort` rolls back. `AdminRead` and `AdminCommit` are `revokeConnector`.
`authenticate` only reads.

### ConnectorQueue

Hooks and the state file. `Acquire` creates the lock file, `GiveUp` is the end of the
40 attempts: it may happen whenever the lock is taken, since no speed of the other
process is assumed. `EnqueueRead`, `EnqueueWrite`, `Fetch`, `Send`, `Skip`, `Sent`,
`Replace` are `enqueue` and `flushInternal`, with a lock of its own for each read
and each write. A `Send` stores the event or not and may fail although it was
stored. The API keeps an event once, so `accepted` is a set: that it does is what
`PromptCapture` shows. Hooks are assumed to have tokens; without, `capture` returns
before it queues anything.

### ConnectorTokens

Extends `ConnectorCredentials` with the hooks that call its refresh. `Load` is the
`loadTokens` of `send` (SDK 192), `Present` the request (212), `Save` and `Clear` what is
done with the answer (218, 229), `Connect` the other way to tokens (`pollAuthorization`).
`Rotated`, `Reused` and `Failed` are the last steps of the service together with the answer
they give, to the hook that still waits or to nobody. `Lose` is the broken connection and the
killed hook. A COMMIT that succeeds without the API learning of it is an answer of 500 in `Rotated`
and `Reused`. `spoiled` (history) collects the families of which two hooks held tokens at once
or of which an answer was lost, `raced` those of which a rotation committed while a
revocation was running: outside of these, an honest connector is never told "reuse",
and "reuse" leaves nothing of the family.

### PromptIngest and PromptCapture

`PromptIngest` is one transaction per request, statement by statement. `Insert` waits for
another that has inserted the same event, then fails on the key or goes on; `UpsertRead` and
`UpsertWrite` leave open whether the upsert is one statement or two and whether it locks a
tag that exists. `Conflict` is the catch block: once more, or an error. `DeadlockVictim` ends
a request that waits for itself. `Archive` and `Restore` are `ProjectsService.update`. The
duplicate is looked up by its id; whether the hash of its content agrees is left open, so `Read`
answers a duplicate with success or with 409 (codex takes the id from the turn, `cli.ts` 52, and
may use one twice).

`PromptCapture` replaces `Send` of `ConnectorQueue` by `Post`, the steps of the API, and
`Answer` or `Lose`. `Kill` leaves the request of the hook running, so that requests with the same
event overlap although hooks do not. `ImplementsQueue` is the specification of
`ConnectorQueue`, with `accepted` for the events a hook was told of: what is shown there of
queues is not an artefact of its simple API.

### AccountSessions

One user. A password is a number that grows. A call reads (`LoginVerify`,
`SwitchAuthenticate`, `RequestRead`, `TokenRead`) and writes later (`LoginCreate`,
`SwitchCommit`, `RequestCommit`, `VerifyCommit`); a reset has in addition `ResetClaim`, after
which it holds the rows of token and user and has seen the sessions it will revoke.
`Suspend` writes the status, `RevokeTenant` is one of the transactions that revoke sessions,
`RevokeFails` its failure. `overtaken`, `escaped` and `parallel` are history: they name the
calls, sessions and tokens that a concurrent call got past, so that each property says
exactly under which overlap it does not hold. Whether the user is a member is left to
`WorkspaceMembers`; here a login may fail for any reason.

### WorkspaceMembers

One workspace. `Authenticate` reads the caller's role, `ReadMembership` and `CountOwners`
are the reads of the transaction, `WriteMembership` its write, with the sessions removal
revokes. `Enter` and `CreateSession` are a login or a switch with the membership read
before. `overtaken` are the calls in flight when the owners changed; `clash` says that one of
them went on to change them again.

### DataLifecycle

Several workspaces and a clock of ticks. `RunRead` is the select of `enforceDataLifecycle`,
`DeleteTenant` and `DeleteExpired` one turn of its loop, in any order, since the select has none;
`RunFails` is its end by an error or a stop, at any workspace, and `failed` says that the last run
ended so. `DeleteTenant` of a workspace another run has deleted fails too, and the loop ends; this
is not counted in `failed`. `promised`
keeps the first date an owner was ever given, `outdated` the workspaces whose settings changed
since a run read them.

## Runs

Deadlock is not checked: every model stops when all prompts are used up, which is the
end of the instance and not of the program.

The runs check what a type error or a slip in one statement could not explain. Types are
proved for every module, and checked with TLC for the two compositions (`TokensTypeOK`,
`CaptureTypeOK`, which contain the types of their parts); `DeletedAfterWindow` of
`DataLifecycle` and the chain of a token family are proved and in no run.

| Run | Configuration | Question | Distinct states |
|---|---|---|---|
| `pipeline_faults` | 1 analysis, 2 workers, 2 dispatchers, all faults | `ExclusiveRun`, `BilledOnce`, `ErrorIsCurrent`, `QueuedHasCarrier`, `CompletedIsFinal`, the refinement `ImplementsLease`, and liveness: `QueuedIsTried`, `DeliveredJobEnds` | 203 000 |
| `pipeline_steady` | 2 analyses of a prompt, 2 workers, 1 dispatcher, 1 request; failures of set-up and dispatch, lost answers of an outcome | `RunningIsHeld`, `FailedIsRetried`, `SecondActiveIsRetry` | 208 000 |
| `pipeline_crash` | 1 worker, crashes | violation of `RunningIsRecoverable` | |
| `connector_tokens` | 3 rows, 2 families, 2 hooks, 2 requests, administrator, 1 expiry | `TokensTypeOK`, `OneCurrent`, `ReuseIsReal`, `NoFalseAlarm`, `ReuseEndsFamily`, `ClearedAreDead` | 1 212 000 |
| `device_flow` | 3 approvals, 2 polling loops that may fail | `FamiliesWithinApprovals`, `ConsumedIsIssued`, `ApprovedIsConsumed` | 37 000 |
| `queue_one_session` | 3 events, hooks one after the other, crashes | `KeptUntilAccepted`, `HookEnds` | 14 000 |
| `queue_two_sessions` | 2 events, 2 hooks at once, no crash | violation of `KeptUntilAccepted` | |
| `prompt_capture` | 2 events, 2 tags on each, 1 hook that may be killed, 2 requests | `CaptureTypeOK`, `OneRowPerEvent`, `SecondConflictFromTags`, `AcceptedIsStored`, the refinement `ImplementsQueue` | 353 000 |
| `account_sessions` | 3 sessions, 2 workspaces, 2 mail tokens, 2 calls | `SessionIsEntitled`, `SwitchMovesSession`, `TokenSpentOnce`, `LastTokenOnly` | 1 457 000 |
| `workspace_members` | 3 users, 2 roles, 2 calls | `OwnerRemains`, `RemovedHaveNoSession`, `OwnersActOnOwners` | 982 000 |
| `data_lifecycle` | 2 workspaces, 1 prompt, 2 runs, 3 ticks, 2 changes | `RunFollowsSettings`, `DueIsDeleted`, `ExpiredIsPurged` | 62 000 |
| `controls` | 1 tenant, 2 workers, all limits 2, crashes, failing commands | `RateKept`, `OvershootBounded`, `FailuresForgotten` | 210 000 |

### Bounds

* `MaxAttempts` is 2 in the runs (5 in the code) and `MaxStalled` 1 (BullMQ's default).
  Two attempts let a job fail, come back and end; more repeat the same states, and the
  proofs hold for every value. The count stops at `MaxAttempts`: a retry by an operator
  leaves it there, and only "enough or not" is ever asked of it.
* One analysis is enough for what concerns a single row: analyses share nothing but
  workers and their prompt. `pipeline_steady` has two of one prompt, since `reanalyze`
  and the purge relate them.
* Two workers make every pair of concurrent handlers; the mutant of the claim shows that
  the case happens. One retryable and one fatal error stand for the classes.
* `LastMinute`, `MaxFailures` and `MaxRequests` bound the clock and the counters of
  `AnalysisControls`; the limits they are compared with are lower, so each is passed.
* Three credential rows are two rotations, the least for a chain and for a revocation
  that misses a successor; two families are two connections of one installation. `Expiries`
  bounds how many refresh tokens expire. Three approvals and two loops allow one approval more than is
  needed to overwrite a code that is being consumed.
* Two requests and one hook in `prompt_capture`: the second request is the one a killed hook
  left behind; two tags are the least for a deadlock. The rows of an event are not removed
  there, so an event is sent again only because its answer was lost.
* Two calls in `account_sessions` and `workspace_members` are every pair; the third session is
  the one a second switch makes, the third user the one who is acted on by two owners. Rows
  run out (sessions and tokens are not used again), which bounds the passwords too. Roles
  without rights are left out there: `Authenticate` would stop them.
* `LastTick`, `Window` and `Changes` of `data_lifecycle` let a date be set, put off or
  cancelled, come, and pass. A retention of 0 expires at the next tick.
* Symmetry is used with invariants and with action properties and refinements that are
  safety, over sets whose members the configuration treats alike; never with liveness.

### Fairness

* `AnalysisPipeline`: weak fairness of each handler's own steps (a process that runs
  keeps running), of delivery, backoff and the stalled check (BullMQ's loops), of the
  dispatcher's read and mark (a timer every second, `main.ts` 193). Adding a given event
  has strong fairness: a dispatcher may die and lose its batch again and again, but the
  timer starts it again, and it is enough that it adds the event once in infinitely many
  chances. Nothing is assumed of users, deletions and faults. `QueuedIsTried` therefore
  holds with crashes that never stop, because each crash uses up a stall.
* `DeviceAuthorization`: a loop that has not ended polls again (`codex/src/cli.ts` 34), a request
  that does not fail is served, and time passes (`IntervalEnds`). Polls that fail are steps of
  `Next` without fairness, and may end every loop; `ApprovedIsConsumed` names that as an
  exception. The other one is a second approval, which may come after all loops have ended with
  an answer. Approvals owe nothing.
* `ConnectorQueue`: a hook that runs keeps running.
* `DataLifecycle`: weak fairness of a run's start, since the timer starts one every hour
  (`main.ts` 228) and a stopped worker is started again (`compose.full.yaml`), and of its going on to
  some workspace. `RunFails` is possible at any time, so nothing makes a run come to a given
  workspace: `DueIsDeleted` and `ExpiredIsPurged` say of each worker that what is due or expired goes
  or its run fails, again and again. So one workspace that cannot be deleted may keep all
  others waiting, which is what the code does (`main.ts` 203-225 has no catch and the select no
  order); a worker whose runs stop failing comes to all of them, although other runs
  delete the workspaces under its hands.
* `AnalysisControls`: workers go on and Redis removes keys whose time to live is over.

## Proofs

Each theorem holds for every value of the constants, with the assumptions its module
names: attempts are positive, `None` is no member of the other sets, error classes are
disjoint, and finite are the set of approvals (device flow) and the set of workers
(controls); in the newer modules, that OWNER and ADMIN are roles, that the home workspace is
one, that times are natural numbers, and that events carry tags (`TagsOfAssumption`). Where a
property is true only under some faults or without overlap, the theorem assumes just that, and
says so below.

**AnalysisPipelineProofs.** `TypeCorrect`; then `Invariance` of

    IInv == TypeOK /\ WorkersBusy /\ ExclusiveRun /\ HoldersState /\ Untouched
            /\ BilledOnce /\ ErrorIsCurrent /\ Carriers

and from it `MutualExclusion`, `AtMostOneBill`, `ErrorCodesAreCurrent`,
`NothingForgotten`, `CompletedStays` and `Refinement`. `ExclusiveRun` is not inductive
alone: nothing in it keeps a second worker from claiming. `HoldersState` adds that the
row of an analysis that is held says RUNNING (or is purged, or is COMPLETED with its holder
unaware of it), and then `ClaimableIsFree`: a row that can be claimed has no holder. So
mutual exclusion rests on the conditional update alone and not on BullMQ's locks, which
is why lost locks do not matter to it. `BilledOnce` needs `Untouched`, because a bill must
not be there before its row is. `QueuedHasCarrier` follows from `Carriers`: a published
event has a job, and no job is completed while its analysis waits, which in turn needs
that a handler that ends without error has seen its row leave QUEUED. `Refinement` takes each
step apart: `HoldersOnlyByClaim` and `HolderLeaves` say which steps change the holders.
`CompletedStays` leaves one way out of COMPLETED, the worker that stored the result and did not
learn of it; `HoldersState` is what excludes every other.

Three theorems leave faults out, each only those that make its property false:

* `RunningMeansHeld` (`RunningIsHeld`): no `"crash"`, no `"claimLost"` and no `"database"`, since each
  of the three leaves a RUNNING row to nobody. Stalls and lost answers of an outcome are allowed: a
  worker that lost its lock is still a worker that runs, and a stored outcome is no longer RUNNING.
* `FailuresAreRetried` (`FailedIsRetried`): no `"stall"`. Without it a worker in a handler owns
  its job (`TaskIsLocked`), and no job of an analysis that failed for a passing reason is reported done
  (`FailedHasJob`). With stalls the second delivery may find the row RUNNING and be completed
  before the first one fails.
* `SecondActiveMeansRetry` (`SecondActiveIsRetry`): one `reanalyze` at a time, no `"crash"`, no
  `"stall"`. `FirstFailure` says that the attempt of a failed analysis is counted, or the
  worker that failed has still to count it; `RequestSaw` that what a request found inactive
  becomes active only by a retry. This one needs an invariant of its own (`CrashFreeInv`).

**ConnectorTokensProofs.** Of the API alone: `RotationIsExclusive`, `FamilyIsAChain`,
`NoFalseReuse`. The parts of the invariant are `LockedByClaim` (a row is locked exactly by the refresh that
presents it and has claimed it, and stays unused and unrevoked till the end: that is what
the row lock buys), `AbsentIsBlank` (a row not inserted yet has no marks and is nobody's
target), and `RevokedForReason` (a revoked row, or one about to be, belongs to a family with a
used token or to a revoked connector). `OneCurrent` is kept because the insert of the
successor and the mark on the presented row commit together.

Of the composition with the hooks, by the invariant `TokensInv`:

* `ImplementsCredentials`: every step of the composition is a step of the API or hidden from it, so the
  three theorems hold with hooks too.
* `HonestNotLockedOut` (`NoFalseAlarm`): `Honest` says what is true while the connector is not
  revoked, of the families that are not spoiled: one hook holds tokens of the family, they
  are its unused row, the requests in flight are that hook's, and the keyring holds the newest row
  or is about to be given it. A claim then fails only on a spoiled family.
* `ReuseEndsTheFamily` (`ReuseEndsFamily`): `RevocationSees` says that a revocation has seen every row
  of its family, or raced with a rotation. Afterwards no row of the family can be rotated, because a
  request past its claim holds an unrevoked row (`LockedByClaim`).
* `OnlyDeadCleared` (`ClearedAreDead`, an action property): a refused hook clears whatever the
  keyring holds by then. `RefusedIsDead` says that its own row was used, revoked or expired, which
  never ends; `HeldByOne` that as long as a family is not spoiled one hook holds tokens of
  it, and the keyring holds no others of that family. What is left are the two cases in which live
  tokens are lost, and the property names them.

**DeviceAuthorizationProofs.** `ApprovalPerFamily` is an inequality of cardinalities: each
approval adds an installation (`CommittedOnce`), each claim spends one APPROVED.
`ApprovalIssuesOnce` needs in addition that the installation a poll read is still the code's
when it claims, which holds as long as one approval was committed (`InstallationStays`). Failing polls
only end loops and disturb neither.

**PromptCaptureProofs.** Of the queue alone: `QueueTypeCorrect`, and `NothingQueuedIsLost` for
hooks that do not overlap, where `CopyCovers` says what the copy in the hands of the running
hook still holds. Of the composition with the API, by `CompositionInv`, overlap or not:

* `StoredOnce` (`OneRowPerEvent`): `ServesOnce` says that a request past its insert is the only one
  there with its event, which is not stored yet. That is what waiting for the unique key buys.
* `RetryIsEnough` (`SecondConflictFromTags`): a request that started over, but not because of a
  tag, finds its event stored, and stored events stay; so its second conflict, if any, would be over
  a tag. A conflict over a tag, first or second, is what the property leaves out.
* `AcceptedWasStored` (`AcceptedIsStored`): `Waiting` says that a hook waits for a request of its own,
  with the event it is handling, so an answer never goes to another prompt.
* `CaptureImplementsQueue` (`ImplementsQueue`): an answer that arrives or is lost is one step `Send`
  of the queue; the API's steps are hidden.
* `QueuedOrStored` puts them together: with hooks one at a time, what was queued is in the file
  or in the database.

**AnalysisControlsProofs.** `LimitHolds` (the property `RateKept`) rests on
`AdmittedIsCounted`: no more requests are admitted in a minute than its counter counts, and
the counter is read in the same command that adds to it. `OvershootIsBounded` (the property
`OvershootBounded`) needs a potential: the tokens used, and `MaxTokens` for each job past the
check, are at most `Budget - 1` and `MaxTokens` for each worker. A job that enters finds the
budget not used up; a job that leaves adds at most the `MaxTokens` it was reserved
(`ValuesInRange`).

**AccountSessionsProofs.** One invariant for the five theorems. For `SessionIsEntitled` it says what
a call in flight knows: a login that was not overtaken holds the present password, a switch
a session that is entitled or about to be revoked, and a reset that has claimed has seen every live session but
those that escaped. `SwitchMovesSession` needs that the session a switch goes on from is live as long as
nothing overtook it. `TokenSpentOnce` needs that a claimed token is claimed by one call and
not used, since the claim is the conditional update; `LastTokenOnly` that a request that was not overtaken
has seen every live token of its purpose.

**WorkspaceMembersProofs.** `OwnerRemains` rests on two facts about calls that were not overtaken: a
call between count and write sees two owners, and what it read of its target still stands;
a removal by an owner leaves that owner, since nobody removes himself. `OwnersActOnOwners`
follows from the same reading of roles, `RemovedHaveNoSession` from the sessions revoked in the
transaction of the removal.

**DataLifecycleProofs.** `DeletionWaits` rests on `promised` being no later than any date that is
set or was read; `RunsFollowSettings` on what a run has read being what is stored, for the
workspaces not outdated.

Only model-checked: liveness. `QueuedIsTried`, `DeliveredJobEnds`, `HookEnds`,
`ApprovedIsConsumed`, `FailuresForgotten`, `DueIsDeleted` and `ExpiredIsPurged` need fairness and
ENABLED, which are out of reach of the provers used here. Every other property of a passing
run is a theorem. The transitive closure in `WaitsForItself` (which request PostgreSQL takes for
deadlocked) is not looked into by any proof: the theorems hold whichever request is ended.

## What the model found

Two statements of the repository that the code does not keep; each is a run that ends in a
counterexample.

1. `pipeline_crash`. A worker that dies after its claim leaves the row RUNNING. The job is
   delivered again, finds nothing to claim (`main.ts` 101), returns and is completed. The same
   happens when the claim is committed and its answer lost, or when the catch block cannot write. Nobody
   ends the analysis any more, and `reanalyze` refuses the prompt as having an active one.
   `docs/ARCHITECTURE.md` 208 says that passing errors are retried and others become visible.
2. `queue_two_sessions`. A flush overwrites what another hook appended while it was sending,
   against `connectors/claude-code/README.md` 5.

Seen on the way. Each of these is the exception a property names, so that the property says
where it stops and its run shows that nothing else gets past:

* Two overlapping `reanalyze` requests make two active analyses (`prompt-history.service.ts`
  379-383), and so does one request while a failed analysis waits for its retry
  (`SecondActiveIsRetry` is checked with one request at a time).
* Two overlapping approvals of one code make two installations, of which one gets credentials
  (`FamiliesWithinApprovals`, `ConsumedIsIssued`).
* The revocation of a family misses the successor of a rotation in flight
  (`docs/SECURITY.md` 31 says that the family is revoked; `ReuseEndsFamily` excepts `raced`). This is a
  third disagreement with the docs; no run of its own shows it, but without the exception TLC finds it
  in `connector_tokens`.
* Two hooks that refresh at once, or a lost answer, lock the connector out until it is
  connected again (`NoFalseAlarm` excepts `spoiled`).
* A refused hook deletes the tokens that are stored by then: those of another hook that has
  refreshed meanwhile, or those of a new connection (`ClearedAreDead` names both).
* One failed poll ends `connect`; the code stays approved, or is consumed by the request whose answer
  was lost, and the user has to connect again (`ApprovedIsConsumed`).
* A workspace whose deletion or retention fails each time may keep the others from ever being handled
  (`DueIsDeleted`, `ExpiredIsPurged`).
* Two prompts with two new tags in opposite orders deadlock, and one request fails with an
  error that is not retried by the API; the hook keeps the prompt and sends it again.
* A login or switch that overlaps a password reset or a suspension leaves a live session
  (`escaped`); two requests for a mail leave two valid tokens (`parallel`).
* Two owners who demote or remove each other leave a workspace without owner (`clash`), and a
  demoted owner's request that is under way still acts as an owner's (`overtaken`).
* A cancellation that commits after the worker has read the date does not stop the deletion
  (`outdated`); the root `README.md` 104 calls the deletion cancellable. Nor is the
  deletion itself written to the audit log, which `docs/SECURITY.md` 80 says.
* Concurrent jobs overshoot the token budget, by at most one analysis each
  (`OvershootBounded`). A worker that dies between INCR and EXPIRE leaves a failure counter
  without an end (`FailuresForgotten` excepts it). The lock file of a killed hook makes all
  later hooks give up (`HookEnds`). A lost COMMIT answer leaves a stored and billed result
  marked FAILED (`CompletedIsFinal`).

## What is not modelled

* Support grants: request, approval, revocation and reading by an administrator, each on one row it
  reads in its transaction. The one race, two requests at once, is listed as a hazard.
* Providers, response validation, prompts' texts, scores: a call returns a result or an
  error. Listing, search, export, audit entries, the web application, logging, health
  endpoints, installers: no state the modelled components read.
* The content of a prompt: an event id used for two contents is the 409 that `Read` may give, whichever
  content came first. The deletion of a whole workspace while its analyses are under way is, for the
  pipeline, `PurgePrompt` of its prompts.
* Row level security: declarative policies in SQL. Only `DataLifecycle` and `AccountSessions` know
  more than one workspace.
* The library code of BullMQ, Redis, PostgreSQL, Prisma: modelled as external actions from how
  the code uses them.
* The loss of Redis (jobs whose events are marked published would be gone) and of the database.
* Most of the repository's lines are the generated Prisma client
  (`packages/database/src/generated`, some 37 000 lines of types that describe the schema and do
  nothing by themselves). They hold no behaviour to model; what they stand for is the schema, to which the
  definitions refer. The modules map the hand-written services instead.

## Plan

Done: the pipeline with its abstract lease, controls, device flow, credentials and tokens, queue and
ingest, accounts, members, lifecycle. Left, in the order of what would hurt most:

1. `SupportGrants`: request, approval with its hour, revocation and reading, and the suspension of the
   administrator in between.
2. The rubric and the classification of errors as operators, checked on bounded inputs.
3. Tokens and queue in one composition: a prompt that is captured while the tokens are being
   replaced, and what happens to the queue of a connector that was locked out.
