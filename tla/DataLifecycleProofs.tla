-------------------------- MODULE DataLifecycleProofs --------------------------
(***************************************************************************)
(* What holds of DataLifecycle for any workspaces, prompts and runs, any   *)
(* window and any bounds.                                                  *)
(*                                                                         *)
(* A run acts on what it read: Fresh says that the reading of a workspace  *)
(* nobody has changed since is still true, Promised that whatever date is  *)
(* in the database or in a run's hands was promised, or came after the     *)
(* first date that was.                                                    *)
(***************************************************************************)
EXTENDS DataLifecycle, TLAPS

Fresh ==
    \A r \in Runs : \A t \in todo[r] \ outdated[r] :
        tenant[t] = "live" => seenDate[r][t] = scheduled[t] /\ seenDays[r][t] = retention[t]

NotBeforePromise(t, date) == date # None => promised[t] # None /\ promised[t] <= date

Promised ==
    \A t \in Tenants :
        /\ NotBeforePromise(t, scheduled[t])
        /\ NotBeforePromise(t, now + Window) \/ promised[t] = None
        /\ \A r \in Runs : NotBeforePromise(t, seenDate[r][t])

IInv == TypeOK /\ Fresh /\ Promised

LEMMA DefaultDaysType == DefaultDays \in Retentions
  BY TimeAssumption DEF DefaultDays

LEMMA InitHolds == Init => IInv
<1> SUFFICES ASSUME Init PROVE IInv
  OBVIOUS
<1> USE TimeAssumption, NoneAssumption, DefaultDaysType DEF Init
<1>1. TypeOK
  BY DEF TypeOK, Dates
<1>2. Fresh /\ Promised
  BY DEF Fresh, Promised, NotBeforePromise
<1>3. QED
  BY <1>1, <1>2 DEF IInv

\* A run that goes on keeps its types and the part of its reading it still
\* needs; the other runs keep theirs.
LEMMA LeaveStep ==
  ASSUME TypeOK, NEW r \in Runs, NEW rest \in SUBSET Tenants, Leave(r, rest)
  PROVE  /\ todo' \in [Runs -> SUBSET Tenants]
         /\ seenDate' \in [Runs -> [Tenants -> Dates]]
         /\ seenDays' \in [Runs -> [Tenants -> Retentions]]
         /\ outdated' \in [Runs -> SUBSET Tenants]
         /\ todo'[r] = rest /\ outdated'[r] = outdated[r] \cap rest
         /\ \A t \in rest : seenDate'[r][t] = seenDate[r][t] /\ seenDays'[r][t] = seenDays[r][t]
         /\ \A t \in Tenants \ rest : seenDate'[r][t] = None
         /\ \A s \in Runs \ {r} :
               /\ todo'[s] = todo[s] /\ outdated'[s] = outdated[s]
               /\ seenDate'[s] = seenDate[s] /\ seenDays'[s] = seenDays[s]
  BY DefaultDaysType DEF Leave, TypeOK, Dates

LEMMA RemoveType ==
  ASSUME TypeOK, NEW gone, Remove(gone)
  PROVE  owner' \in [Prompts -> Tenants \cup {None}] /\ occurred' \in [Prompts -> 0 .. LastTick]
  BY TimeAssumption DEF Remove, TypeOK

\* A step of a run that changes no workspace but one it deletes, and none of
\* its readings but by forgetting them, keeps Fresh and Promised.
LEMMA LeaveKeeps ==
  ASSUME IInv, NEW r \in Runs, NEW rest \in SUBSET todo[r], Leave(r, rest),
         now' = now, promised' = promised,
         \A t \in Tenants : \/ /\ tenant'[t] = tenant[t]
                               /\ scheduled'[t] = scheduled[t]
                               /\ retention'[t] = retention[t]
                            \/ tenant'[t] = "deleted" /\ scheduled'[t] = None
  PROVE  Fresh' /\ Promised'
<1> USE DEF IInv
<1>1. rest \in SUBSET Tenants
  BY DEF TypeOK
<1>2. \A s \in Runs : todo'[s] \subseteq todo[s] /\ todo'[s] \subseteq Tenants
                      /\ todo'[s] \ outdated'[s] \subseteq todo[s] \ outdated[s]
  <2> SUFFICES ASSUME NEW s \in Runs
               PROVE  /\ todo'[s] \subseteq todo[s] /\ todo'[s] \subseteq Tenants
                      /\ todo'[s] \ outdated'[s] \subseteq todo[s] \ outdated[s]
    OBVIOUS
  <2>1. CASE s = r
    <3>1. todo'[r] = rest /\ outdated'[r] = outdated[r] \cap rest
      BY <1>1, LeaveStep
    <3>2. QED
      BY <1>1, <2>1, <3>1
  <2>2. CASE s # r
    <3>1. todo'[s] = todo[s] /\ outdated'[s] = outdated[s]
      BY <1>1, <2>2, LeaveStep
    <3>2. QED
      BY <3>1 DEF TypeOK
  <2>3. QED
    BY <2>1, <2>2
<1>3. \A s \in Runs : \A t \in todo'[s] :
          seenDate'[s][t] = seenDate[s][t] /\ seenDays'[s][t] = seenDays[s][t]
  BY <1>1, LeaveStep
<1>4. \A s \in Runs : \A t \in Tenants : seenDate'[s][t] \in {seenDate[s][t], None}
  BY <1>1, LeaveStep
<1>5. Fresh'
  <2> SUFFICES ASSUME NEW s \in Runs, NEW t \in todo'[s] \ outdated'[s], tenant'[t] = "live"
               PROVE  seenDate'[s][t] = scheduled'[t] /\ seenDays'[s][t] = retention'[t]
    BY DEF Fresh
  <2>1. t \in todo[s] \ outdated[s] /\ t \in Tenants
    BY <1>2
  <2>2. tenant[t] = "live" /\ scheduled'[t] = scheduled[t] /\ retention'[t] = retention[t]
    BY <2>1
  <2>3. QED
    BY <1>3, <2>1, <2>2 DEF Fresh
<1>6. Promised'
  BY <1>4 DEF Promised, NotBeforePromise
<1>7. QED
  BY <1>5, <1>6

LEMMA NextHolds == IInv /\ [Next]_vars => IInv'
<1> SUFFICES ASSUME IInv, [Next]_vars PROVE IInv'
  OBVIOUS
<1> USE TimeAssumption, NoneAssumption, DefaultDaysType DEF IInv
<1>1. CASE Tick
  <2>1. TypeOK'
    BY <1>1 DEF Tick, TypeOK, tenantVars, promptVars, runVars, Dates
  <2>2. Fresh' /\ Promised'
    BY <1>1 DEF Tick, TypeOK, tenantVars, promptVars, runVars, Fresh, Promised, NotBeforePromise, Dates
  <2>3. QED
    BY <2>1, <2>2
<1>2. ASSUME NEW t \in Tenants, Settings(t)
      PROVE  IInv'
  <2>1. Change(t) /\ now' = now /\ UNCHANGED <<tenant, promptVars>>
    BY <1>2 DEF Settings, ScheduleDeletion, CancelDeletion, UpdateSettings
  <2>2. \A u \in Tenants \ {t} : scheduled'[u] = scheduled[u] /\ retention'[u] = retention[u]
                                  /\ promised'[u] = promised[u]
    BY <1>2 DEF Settings, ScheduleDeletion, CancelDeletion, UpdateSettings, TypeOK
  <2>3. /\ scheduled' \in [Tenants -> Dates] /\ promised' \in [Tenants -> Dates]
        /\ retention' \in [Tenants -> Retentions]
    <3>1. DeletionDate \in Dates /\ None \in Dates
      BY DEF TypeOK, Dates, DeletionDate
    <3>2. CASE ScheduleDeletion(t)
      BY <3>1, <3>2 DEF ScheduleDeletion, TypeOK
    <3>3. CASE CancelDeletion(t)
      BY <3>1, <3>3 DEF CancelDeletion, TypeOK
    <3>4. CASE \E days \in Retentions : UpdateSettings(t, days)
      BY <3>4 DEF UpdateSettings, TypeOK
    <3>5. QED
      BY <1>2, <3>2, <3>3, <3>4 DEF Settings
  <2>4. TypeOK'
    BY <2>1, <2>3 DEF Change, TypeOK, promptVars
  <2>5. Fresh'
    BY <2>1, <2>2 DEF Change, TypeOK, Fresh
  <2>6. /\ NotBeforePromise(t, scheduled[t])' /\ (NotBeforePromise(t, now + Window) \/ promised[t] = None)'
        /\ \A r \in Runs : NotBeforePromise(t, seenDate[r][t])'
    <3>1. CASE ScheduleDeletion(t)
      BY <2>1, <3>1 DEF ScheduleDeletion, DeletionDate, Change, Promised, NotBeforePromise, TypeOK, Dates
    <3>2. CASE CancelDeletion(t)
      BY <2>1, <3>2 DEF CancelDeletion, Change, Promised, NotBeforePromise, TypeOK, Dates
    <3>3. CASE \E days \in Retentions : UpdateSettings(t, days)
      BY <2>1, <3>3 DEF UpdateSettings, Change, Promised, NotBeforePromise, TypeOK, Dates
    <3>4. QED
      BY <1>2, <3>1, <3>2, <3>3 DEF Settings
  <2>7. Promised'
    BY <2>1, <2>2, <2>6 DEF Change, Promised, NotBeforePromise
  <2>8. QED
    BY <2>4, <2>5, <2>7
<1>3. ASSUME NEW p \in Prompts, NEW t \in Tenants, NEW time \in 0 .. now, Ingest(p, t, time)
      PROVE  IInv'
  <2>1. TypeOK'
    BY <1>3 DEF Ingest, TypeOK, tenantVars, runVars, Dates
  <2>2. Fresh' /\ Promised'
    BY <1>3 DEF Ingest, tenantVars, runVars, Fresh, Promised, NotBeforePromise
  <2>3. QED
    BY <2>1, <2>2
<1>4. ASSUME NEW r \in Runs, RunRead(r)
      PROVE  IInv'
  <2>1. TypeOK'
    BY <1>4 DEF RunRead, TypeOK, tenantVars, promptVars, Live, Dates
  <2>2. \A s \in Runs \ {r} : /\ todo'[s] = todo[s] /\ outdated'[s] = outdated[s]
                              /\ seenDate'[s] = seenDate[s] /\ seenDays'[s] = seenDays[s]
    BY <1>4 DEF RunRead, TypeOK
  <2>3. /\ todo'[r] = Live
        /\ \A t \in Live : seenDate'[r][t] = scheduled[t] /\ seenDays'[r][t] = retention[t]
        /\ \A t \in Tenants : seenDate'[r][t] \in {scheduled[t], None}
    BY <1>4 DEF RunRead, TypeOK, Live
  <2>4. Fresh'
    <3>1. tenant' = tenant /\ scheduled' = scheduled /\ retention' = retention
      BY <1>4 DEF RunRead, tenantVars
    <3>2. \A t \in todo'[r] : seenDate'[r][t] = scheduled'[t] /\ seenDays'[r][t] = retention'[t]
      BY <2>3, <3>1
    <3>3. \A s \in Runs \ {r} : \A t \in todo'[s] \ outdated'[s] :
              tenant'[t] = "live" => seenDate'[s][t] = scheduled'[t] /\ seenDays'[s][t] = retention'[t]
      BY <2>2, <3>1 DEF Fresh
    <3>4. QED
      BY <3>2, <3>3 DEF Fresh
  <2>5. Promised'
    BY <1>4, <2>2, <2>3 DEF RunRead, Promised, NotBeforePromise, tenantVars
  <2>6. QED
    BY <2>1, <2>4, <2>5
<1>5. ASSUME NEW r \in Runs, NEW t \in Tenants, DeleteTenant(r, t)
      PROVE  IInv'
  <2>1. PICK rest \in SUBSET todo[r] : Leave(r, rest)
    BY <1>5 DEF DeleteTenant
  <2>2. rest \in SUBSET Tenants
    BY DEF TypeOK
  <2>3. now' = now /\ promised' = promised /\ changes' = changes /\ failed' = failed
    BY <1>5 DEF DeleteTenant
  <2>4. \A u \in Tenants : \/ /\ tenant'[u] = tenant[u]
                              /\ scheduled'[u] = scheduled[u]
                              /\ retention'[u] = retention[u]
                           \/ tenant'[u] = "deleted" /\ scheduled'[u] = None
    BY <1>5 DEF DeleteTenant, TypeOK
  <2>5. /\ tenant' \in [Tenants -> {"live", "deleted"}] /\ scheduled' \in [Tenants -> Dates]
        /\ retention' \in [Tenants -> Retentions]
    <3>1. CASE t \in Live
      <4>1. None \in Dates /\ DefaultDays \in Retentions
        BY DEF Dates
      <4>2. /\ tenant' = [tenant EXCEPT ![t] = "deleted"]
            /\ scheduled' = [scheduled EXCEPT ![t] = None]
            /\ retention' = [retention EXCEPT ![t] = DefaultDays]
        BY <1>5, <3>1 DEF DeleteTenant
      <4>3. QED
        BY <4>1, <4>2 DEF TypeOK
    <3>2. CASE t \notin Live
      BY <1>5, <3>2 DEF DeleteTenant, TypeOK
    <3>3. QED
      BY <3>1, <3>2
  <2>6. owner' \in [Prompts -> Tenants \cup {None}] /\ occurred' \in [Prompts -> 0 .. LastTick]
    BY <1>5, RemoveType DEF DeleteTenant, TypeOK, promptVars
  <2>7. TypeOK'
    BY <2>1, <2>2, <2>3, <2>5, <2>6, LeaveStep DEF TypeOK
  <2>8. QED
    BY <2>1, <2>3, <2>4, <2>7, LeaveKeeps
<1>6. ASSUME NEW r \in Runs, NEW t \in Tenants, DeleteExpired(r, t)
      PROVE  IInv'
  <2>1. Leave(r, todo[r] \ {t}) /\ todo[r] \ {t} \in SUBSET Tenants
    BY <1>6 DEF DeleteExpired, TypeOK
  <2>2. owner' \in [Prompts -> Tenants \cup {None}] /\ occurred' \in [Prompts -> 0 .. LastTick]
    BY <1>6, RemoveType DEF DeleteExpired
  <2>3. TypeOK'
    BY <1>6, <2>1, <2>2, LeaveStep DEF TypeOK, DeleteExpired, tenantVars
  <2>4. QED
    BY <1>6, <2>1, <2>3, LeaveKeeps DEF DeleteExpired, tenantVars
<1>7. ASSUME NEW r \in Runs, RunFails(r)
      PROVE  IInv'
  <2>1. TypeOK'
    BY <1>7, LeaveStep DEF TypeOK, RunFails, tenantVars, promptVars
  <2>2. QED
    BY <1>7, <2>1, LeaveKeeps DEF RunFails, tenantVars
<1>8. CASE UNCHANGED vars
  BY <1>8 DEF vars, tenantVars, promptVars, runVars, TypeOK, Fresh, Promised, NotBeforePromise, Dates
<1>9. QED
  BY <1>1, <1>2, <1>3, <1>4, <1>5, <1>6, <1>7, <1>8 DEF Next, Handle

LEMMA Invariance == Spec => []IInv
  BY InitHolds, NextHolds, PTL DEF Spec

\* Every variable keeps its type.
THEOREM TypeCorrect == Spec => []TypeOK
<1>1. IInv => TypeOK
  BY DEF IInv
<1>2. QED
  BY <1>1, Invariance, PTL

\* Only DeleteTenant, of a run whose reading of the date has come, deletes a
\* workspace.
LEMMA OnlyDeleteTenantDeletes ==
  ASSUME IInv, [Next]_vars, NEW t \in Tenants, tenant[t] = "live", tenant'[t] = "deleted"
  PROVE  \E r \in Runs : DeleteTenant(r, t)
<1> USE DEF IInv
<1>1. tenant' # tenant
  OBVIOUS
<1>2. PICK r \in Runs, u \in Tenants : DeleteTenant(r, u)
  BY <1>1 DEF Next, Tick, Settings, ScheduleDeletion, CancelDeletion, UpdateSettings, Ingest,
              RunRead, RunFails, Handle, DeleteExpired, vars, tenantVars
<1>3. u = t
  BY <1>2 DEF DeleteTenant, TypeOK
<1>4. QED
  BY <1>2, <1>3

\* Stale or not, no run deletes a workspace before the first date its owner
\* was given.
THEOREM DeletionWaits == Spec => DeletedAfterWindow
<1>1. ASSUME IInv, [Next]_vars, NEW t \in Tenants, tenant[t] = "live", tenant'[t] = "deleted"
      PROVE  Reached(promised[t])
  <2>1. PICK r \in Runs : DeleteTenant(r, t)
    BY <1>1, OnlyDeleteTenantDeletes
  <2>2. seenDate[r][t] # None /\ seenDate[r][t] <= now
    BY <2>1 DEF DeleteTenant, Due
  <2>3. promised[t] # None /\ promised[t] <= seenDate[r][t]
    BY <1>1, <2>2 DEF IInv, Promised, NotBeforePromise
  <2>4. QED
    BY <1>1, <2>2, <2>3, TimeAssumption, NoneAssumption DEF Reached, IInv, TypeOK, Dates
<1>2. IInv /\ [Next]_vars =>
          \A t \in Tenants : tenant[t] = "live" /\ tenant'[t] = "deleted" => Reached(promised[t])
  BY <1>1
<1>3. QED
  BY <1>2, Invariance, PTL DEF Spec, DeletedAfterWindow

\* A run that nothing has overtaken does what the settings say.
THEOREM RunsFollowSettings == Spec => RunFollowsSettings
<1>1. ASSUME IInv, [Next]_vars, NEW r \in Runs, NEW t \in todo[r] \ outdated[r],
             t \notin todo'[r], t \in Live
      PROVE  IF tenant'[t] = "deleted"
             THEN Reached(scheduled[t])
             ELSE \A p \in PromptsOf(t) : owner'[p] = t \/ Expired(p, retention[t])
  <2> USE <1>1 DEF IInv
  <2>1. t \in Tenants /\ tenant[t] = "live"
    BY DEF TypeOK, Live
  <2>2. seenDate[r][t] = scheduled[t] /\ seenDays[r][t] = retention[t]
    BY <2>1 DEF Fresh
  <2>3. todo' # todo
    OBVIOUS
  <2>4. CASE RunRead(r)
    BY <2>1, <2>4 DEF RunRead, TypeOK
  <2>5. ASSUME NEW s \in Runs, RunRead(s), s # r
        PROVE  FALSE
    BY <2>5 DEF RunRead, TypeOK
  <2>6. ASSUME NEW s \in Runs, RunFails(s)
        PROVE  tenant'[t] = "live" /\ \A p \in PromptsOf(t) : owner'[p] = t
    BY <2>1, <2>6 DEF RunFails, tenantVars, promptVars, PromptsOf
  <2>7. ASSUME NEW s \in Runs, NEW u \in Tenants, DeleteExpired(s, u)
        PROVE  tenant'[t] = "live" /\ \A p \in PromptsOf(t) : owner'[p] = t \/ Expired(p, retention[t])
    <3>1. s = r /\ u = t
      BY <2>7 DEF DeleteExpired, Leave, TypeOK
    <3>2. QED
      BY <2>1, <2>2, <2>7, <3>1 DEF DeleteExpired, tenantVars, Remove, Purged, PromptsOf
  <2>8. ASSUME NEW s \in Runs, NEW u \in Tenants, DeleteTenant(s, u)
        PROVE  \/ tenant'[t] = "deleted" /\ Reached(scheduled[t])
               \/ tenant'[t] = "live" /\ \A p \in PromptsOf(t) : owner'[p] = t
    <3>1. s = r
      BY <2>8 DEF DeleteTenant, Leave, TypeOK
    <3>2. CASE u \in Live
      <4>1. u = t
        BY <2>8, <3>1, <3>2 DEF DeleteTenant, Leave, TypeOK
      <4>2. QED
        BY <2>1, <2>2, <2>8, <3>1, <3>2, <4>1 DEF DeleteTenant, TypeOK, Due, Reached
    <3>3. CASE u \notin Live
      BY <2>1, <2>8, <3>3 DEF DeleteTenant, promptVars, PromptsOf
    <3>4. QED
      BY <3>2, <3>3
  <2>9. QED
    BY <2>1, <2>3, <2>4, <2>5, <2>6, <2>7, <2>8
    DEF Next, Tick, Settings, ScheduleDeletion, CancelDeletion, UpdateSettings, Change, Ingest,
        Handle, vars, runVars
<1>2. IInv /\ [Next]_vars =>
          \A r \in Runs : \A t \in todo[r] \ outdated[r] :
              t \notin todo'[r] /\ t \in Live =>
                  IF tenant'[t] = "deleted"
                  THEN Reached(scheduled[t])
                  ELSE \A p \in PromptsOf(t) : owner'[p] = t \/ Expired(p, retention[t])
  BY <1>1
<1>3. QED
  BY <1>2, Invariance, PTL DEF Spec, RunFollowsSettings
===============================================================================
