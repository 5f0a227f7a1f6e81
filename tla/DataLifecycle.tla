----------------------------- MODULE DataLifecycle -----------------------------
(***************************************************************************)
(* Retention and the deletion of workspaces: owners choose how long        *)
(* prompts are kept and schedule or cancel the deletion of the workspace;  *)
(* enforceDataLifecycle of the worker carries it out. It runs every hour   *)
(* and in every worker process, so runs may overlap. A run reads all       *)
(* workspaces first and acts on what it read, one workspace at a time, in  *)
(* no particular order; the first statement that fails ends it.            *)
(*                                                                         *)
(* Time passes in ticks up to LastTick, and owners change settings Changes *)
(* times: the two bounds of the model.                                     *)
(***************************************************************************)
EXTENDS Naturals, FiniteSets

CONSTANTS
    Tenants,
    Prompts,     \* events of connectors; each has at most one row
    Runs,        \* runs of enforceDataLifecycle that may overlap
    Window,      \* ticks between the request and the deletion (7 days)
    Retentions,  \* values of retention_days, in ticks
    LastTick,    \* bound on the time
    Changes,     \* bound on the changes of settings
    None

ASSUME TimeAssumption ==
    /\ Window \in Nat /\ LastTick \in Nat /\ Changes \in Nat
    /\ Retentions \subseteq Nat /\ Retentions # {}
ASSUME NoneAssumption == None \notin Nat \cup Tenants

VARIABLES
    now,
    tenant,     \* [Tenants -> "live" or "deleted"]
    scheduled,  \* [Tenants -> deletion_scheduled_at, or None]
    retention,  \* [Tenants -> retention_days]
    owner,      \* [Prompts -> tenant_id of the row, None without a row]
    occurred,   \* [Prompts -> occurred_at]
    todo,       \* [Runs -> workspaces the loop has still to handle]
    seenDate,   \* [Runs -> [Tenants -> deletion_scheduled_at as read]]
    seenDays,   \* [Runs -> [Tenants -> retention_days as read]]
    failed,     \* [Runs -> the last run ended by an error or a stop, see RunFails]
    changes,    \* changes of settings so far
    promised,   \* history: [Tenants -> first date the owner was ever given]
    outdated    \* history: [Runs -> workspaces changed since they were read]

tenantVars == <<tenant, scheduled, retention, changes, promised>>
promptVars == <<owner, occurred>>
runVars == <<todo, seenDate, seenDays, failed, outdated>>
vars == <<now, tenantVars, promptVars, runVars>>

Dates == 0 .. (LastTick + Window) \cup {None}

TypeOK ==
    /\ now \in 0 .. LastTick
    /\ tenant \in [Tenants -> {"live", "deleted"}]
    /\ scheduled \in [Tenants -> Dates]
    /\ retention \in [Tenants -> Retentions]
    /\ owner \in [Prompts -> Tenants \cup {None}]
    /\ occurred \in [Prompts -> 0 .. LastTick]
    /\ todo \in [Runs -> SUBSET Tenants]
    /\ seenDate \in [Runs -> [Tenants -> Dates]]
    /\ seenDays \in [Runs -> [Tenants -> Retentions]]
    /\ failed \in [Runs -> BOOLEAN]
    /\ changes \in 0 .. Changes
    /\ promised \in [Tenants -> Dates]
    /\ outdated \in [Runs -> SUBSET Tenants]

\* The default retention, whichever value of Retentions it is.
DefaultDays == CHOOSE days \in Retentions : TRUE

Init ==
    /\ now = 0
    /\ tenant = [t \in Tenants |-> "live"]
    /\ scheduled = [t \in Tenants |-> None]
    /\ retention = [t \in Tenants |-> DefaultDays]
    /\ owner = [p \in Prompts |-> None]
    /\ occurred = [p \in Prompts |-> 0]
    /\ todo = [r \in Runs |-> {}]
    /\ seenDate = [r \in Runs |-> [t \in Tenants |-> None]]
    /\ seenDays = [r \in Runs |-> [t \in Tenants |-> DefaultDays]]
    /\ failed = [r \in Runs |-> FALSE]
    /\ changes = 0
    /\ promised = [t \in Tenants |-> None]
    /\ outdated = [r \in Runs |-> {}]

Live == {t \in Tenants : tenant[t] = "live"}
PromptsOf(t) == {p \in Prompts : owner[p] = t}
Expired(p, days) == occurred[p] + days < now

\* Mutant: a date is due on its tick only.
DueOnTick(date) == date = now

Due(date) == date # None /\ date <= now

Tick ==
    /\ now < LastTick
    /\ now' = now + 1
    /\ UNCHANGED <<tenantVars, promptVars, runVars>>

---------------------------------------------------------------------------
(* The API: owners and connectors.                                         *)

\* A run that has read t and not handled it will act on outdated settings.
Change(t) ==
    /\ t \in Live
    /\ changes < Changes
    /\ changes' = changes + 1
    /\ outdated' = [r \in Runs |-> outdated[r] \cup (todo[r] \cap {t})]
    /\ UNCHANGED <<todo, seenDate, seenDays, failed>>

DeletionDate == now + Window

ScheduleDeletion(t) ==
    /\ Change(t)
    /\ scheduled' = [scheduled EXCEPT ![t] = DeletionDate]
    /\ promised' = [promised EXCEPT ![t] = IF @ = None THEN DeletionDate ELSE @]
    /\ UNCHANGED <<now, tenant, retention, promptVars>>

CancelDeletion(t) ==
    /\ Change(t)
    /\ scheduled' = [scheduled EXCEPT ![t] = None]
    /\ UNCHANGED <<now, tenant, retention, promised, promptVars>>

UpdateSettings(t, days) ==
    /\ Change(t)
    /\ retention' = [retention EXCEPT ![t] = days]
    /\ UNCHANGED <<now, tenant, scheduled, promised, promptVars>>

\* ingest, of an event that has no row: it is new, or its row was purged and
\* its connector sends it again.
Ingest(p, t, time) ==
    /\ t \in Live
    /\ owner[p] = None
    /\ owner' = [owner EXCEPT ![p] = t]
    /\ occurred' = [occurred EXCEPT ![p] = time]
    /\ UNCHANGED <<now, tenantVars, runVars>>

---------------------------------------------------------------------------
(* enforceDataLifecycle.                                                   *)

RunRead(r) ==
    /\ todo[r] = {}
    /\ Live # {}
    /\ todo' = [todo EXCEPT ![r] = Live]
    /\ seenDate' = [seenDate EXCEPT ![r] = [t \in Tenants |-> IF t \in Live THEN scheduled[t] ELSE None]]
    /\ seenDays' = [seenDays EXCEPT ![r] = [t \in Tenants |-> IF t \in Live THEN retention[t] ELSE DefaultDays]]
    /\ failed' = [failed EXCEPT ![r] = FALSE]
    /\ outdated' = [outdated EXCEPT ![r] = {}]
    /\ UNCHANGED <<now, tenantVars, promptVars>>

\* The loop of r goes on with the workspaces of rest, or ends if there are
\* none; what it read of the others is not looked at again.
Leave(r, rest) ==
    /\ todo' = [todo EXCEPT ![r] = rest]
    /\ seenDate' = [seenDate EXCEPT ![r] = [t \in Tenants |-> IF t \in rest THEN @[t] ELSE None]]
    /\ seenDays' = [seenDays EXCEPT ![r] = [t \in Tenants |-> IF t \in rest THEN @[t] ELSE DefaultDays]]
    /\ outdated' = [outdated EXCEPT ![r] = @ \cap rest]

Remove(gone) ==
    /\ owner' = [p \in Prompts |-> IF p \in gone THEN None ELSE owner[p]]
    /\ occurred' = [p \in Prompts |-> IF p \in gone THEN 0 ELSE occurred[p]]

\* The workspace is deleted, and all its rows with it. If another run has done
\* so the statement fails, and the loop ends.
DeleteTenant(r, t) ==
    /\ t \in todo[r]
    /\ Due(seenDate[r][t])
    /\ \/ /\ t \in Live
          /\ tenant' = [tenant EXCEPT ![t] = "deleted"]
          /\ scheduled' = [scheduled EXCEPT ![t] = None]
          /\ retention' = [retention EXCEPT ![t] = DefaultDays]
          /\ Remove(PromptsOf(t))
          /\ Leave(r, todo[r] \ {t})
       \/ /\ t \notin Live
          /\ Leave(r, {})
          /\ UNCHANGED <<tenant, scheduled, retention, promptVars>>
    /\ UNCHANGED <<now, failed, changes, promised>>

\* Mutants: the days are those of any workspace that was read; a prompt is
\* kept one tick more.
PurgedAny(r, t) == {p \in PromptsOf(t) : \E u \in todo[r] : Expired(p, seenDays[r][u])}
PurgedLate(r, t) == {p \in PromptsOf(t) : Expired(p, seenDays[r][t] + 1)}

Purged(r, t) == {p \in PromptsOf(t) : Expired(p, seenDays[r][t])}

DeleteExpired(r, t) ==
    /\ t \in todo[r]
    /\ ~Due(seenDate[r][t])
    /\ Remove(Purged(r, t))
    /\ Leave(r, todo[r] \ {t})
    /\ UNCHANGED <<now, tenantVars, failed>>

\* A statement fails for another reason, or the process stops: the rest of the
\* workspaces is left to a later run.
RunFails(r) ==
    /\ todo[r] # {}
    /\ Leave(r, {})
    /\ failed' = [failed EXCEPT ![r] = TRUE]
    /\ UNCHANGED <<now, tenantVars, promptVars>>

---------------------------------------------------------------------------

Settings(t) ==
    \/ ScheduleDeletion(t)
    \/ CancelDeletion(t)
    \/ \E days \in Retentions : UpdateSettings(t, days)

Handle(r) == \E t \in Tenants : DeleteTenant(r, t) \/ DeleteExpired(r, t)

Next ==
    \/ Tick
    \/ \E t \in Tenants : Settings(t)
    \/ \E p \in Prompts, t \in Tenants, time \in 0 .. now : Ingest(p, t, time)
    \/ \E r \in Runs : RunRead(r) \/ Handle(r) \/ RunFails(r)

Spec == Init /\ [][Next]_vars

\* The timer starts a run every hour, and a run goes on to some workspace as
\* long as none of its statements fails; any of them may, in every run.
Fairness == \A r \in Runs : WF_vars(RunRead(r)) /\ WF_vars(Handle(r))

FairSpec == Spec /\ Fairness

---------------------------------------------------------------------------
(* Properties.                                                             *)

\* The date is set and has come: what the code's own test should say.
Reached(date) == date # None /\ date <= now

\* No workspace is deleted before a date its owner was given, the window after
\* a request ("seven-day", README.md 104; main.ts 204-205).
DeletedAfterWindow ==
    [][\A t \in Tenants :
        tenant[t] = "live" /\ tenant'[t] = "deleted" => Reached(promised[t])]_vars

\* A run whose reading of a workspace nothing has overtaken does what the
\* settings say: it deletes the workspace only on a date that still stands,
\* and of one that stays only prompts older than its retention, although
\* other runs delete and purge the same workspaces (main.ts 203-218).
RunFollowsSettings ==
    [][\A r \in Runs : \A t \in todo[r] \ outdated[r] :
        t \notin todo'[r] /\ t \in Live =>
            IF tenant'[t] = "deleted"
            THEN Reached(scheduled[t])
            ELSE \A p \in PromptsOf(t) : owner'[p] = t \/ Expired(p, retention[t])]_vars

\* A workspace that is due is deleted by any worker whose runs stop failing,
\* unless its owner cancels or puts the date off: runs that other runs overtake,
\* or that find a workspace gone and leave the rest, do not put it off for ever
\* (lines 203-225). While each run fails nothing is promised: one workspace that
\* cannot be deleted or purged, met first each time, keeps all others waiting.
DueIsDeleted ==
    \A t \in Tenants, r \in Runs :
        Reached(scheduled[t]) ~> ~Reached(scheduled[t]) \/ failed[r]

\* A prompt that is out of retention goes, unless the retention is extended or
\* each run fails, even when it is sent again, when its workspace is to be
\* deleted later and when runs act on outdated days (lines 209-218).
ExpiredIsPurged ==
    \A p \in Prompts, r \in Runs :
        LET expired == owner[p] # None /\ Expired(p, retention[owner[p]])
        IN  expired ~> ~expired \/ failed[r]
===========================================================================
