--------------------------- MODULE ConnectorTokens ---------------------------
(***************************************************************************)
(* The tokens of a connector on the user's machine: hook processes read    *)
(* them from the keyring, refresh them at the API and write them back.     *)
(* Composed with ConnectorCredentials, the API's side of refresh.          *)
(*                                                                         *)
(* The keyring has no lock, several hooks may run, and the editor kills    *)
(* one after five seconds; its request goes on without it. A hook whose    *)
(* call failed starts over with the next prompt of its queue, so a hook    *)
(* that is idle here may be in the middle of a flush.                      *)
(***************************************************************************)
EXTENDS ConnectorCredentials

CONSTANTS
    Hooks,    \* processes that use the keyring
    Expiries  \* bound on the refresh tokens that expire

VARIABLES
    keyring,  \* the credential whose tokens are stored, or None
    task,     \* [Hooks -> what the hook does next]
    holds,    \* [Hooks -> credential the hook has read or was given]
    call,     \* [Hooks -> the refresh whose answer the hook waits for]
    spoiled,  \* history: families two hooks held at once, or whose answer was lost
    raced     \* history: families rotated while their revocation was running

hookVars == <<keyring, task, holds, call>>
tokenVars == <<vars, hookVars, spoiled, raced>>

TokensTypeOK ==
    /\ TypeOK
    /\ keyring \in Credentials \cup {None}
    /\ task \in [Hooks -> {"idle", "loaded", "called", "got", "refused"}]
    /\ holds \in [Hooks -> Credentials \cup {None}]
    /\ call \in [Hooks -> Refreshers \cup {None}]
    /\ spoiled \subseteq Families /\ raced \subseteq Families

TokensInit ==
    /\ Init
    /\ keyring = None
    /\ task = [h \in Hooks |-> "idle"]
    /\ holds = [h \in Hooks |-> None]
    /\ call = [h \in Hooks |-> None]
    /\ spoiled = {} /\ raced = {}

Hook(h, next, k, r) ==
    /\ task' = [task EXCEPT ![h] = next]
    /\ holds' = [holds EXCEPT ![h] = k]
    /\ call' = [call EXCEPT ![h] = r]
Rest(h) == Hook(h, "idle", None, None)

Called(r) == \E h \in Hooks : call[h] = r
Spoil(f) == spoiled' = spoiled \cup {f}

---------------------------------------------------------------------------
(* The hooks.                                                              *)

\* pollAuthorization: a new installation's tokens arrive.
Connect(h, f, k) ==
    /\ task[h] = "idle"
    /\ Issue(f, k)
    /\ Hook(h, "got", k, None)
    /\ UNCHANGED <<keyring, spoiled, raced>>

\* send: the tokens are read, and they have to be refreshed. Two hooks that
\* hold the tokens of one family will both present them.
Load(h) ==
    /\ task[h] = "idle" /\ keyring # None
    /\ Hook(h, "loaded", keyring, None)
    /\ IF \E g \in Hooks : holds[g] # None /\ family[holds[g]] = family[keyring]
       THEN Spoil(family[keyring]) ELSE UNCHANGED spoiled
    /\ UNCHANGED <<vars, keyring, raced>>

Acceptable(k) == Exists(k) /\ ~revoked[k] /\ refreshLive[k]

\* refresh: the token is presented, and perhaps refused at once.
Present(h, r) ==
    /\ task[h] = "loaded"
    /\ \/ /\ ~Called(r)
          /\ RefreshRead(r, holds[h])
          /\ Hook(h, "called", holds[h], r)
       \/ /\ ~Acceptable(holds[h])
          /\ Hook(h, "refused", holds[h], None)
          /\ UNCHANGED vars
    /\ UNCHANGED <<keyring, spoiled, raced>>

\* Mutant: tokens are stored after connecting, not after a refresh.
WrittenOnce(h) == IF keyring = None THEN holds[h] ELSE keyring

Written(h) == holds[h]

\* saveTokens.
Save(h) ==
    /\ task[h] = "got"
    /\ keyring' = Written(h)
    /\ Rest(h)
    /\ UNCHANGED <<vars, spoiled, raced>>

\* clearTokens, after a 401.
Clear(h) ==
    /\ task[h] = "refused"
    /\ keyring' = None
    /\ Rest(h)
    /\ UNCHANGED <<vars, spoiled, raced>>

\* The connection breaks, or the hook is killed. The request goes on, its answer
\* and tokens that were not stored are lost.
Lose(h) ==
    /\ task[h] # "idle"
    /\ Rest(h)
    /\ IF task[h] \in {"called", "got"} THEN Spoil(family[holds[h]]) ELSE UNCHANGED spoiled
    /\ UNCHANGED <<vars, keyring, raced>>

---------------------------------------------------------------------------
(* The API, and what it answers.                                           *)

\* Mutants: tokens are cleared after any error; an error leaves a state nobody
\* handles.
AfterErrorClear(h) == Hook(h, "refused", holds[h], None)
AfterErrorRetry(h) == Hook(h, "retry", holds[h], None)

AfterError(h) == Rest(h)

\* The replacement goes to the hook that called, or to nobody. When the API
\* itself does not learn that its transaction committed, it answers 500.
Rotated(r, k) ==
    /\ RefreshCommit(r, k)
    /\ \/ \E h \in Hooks : call[h] = r /\ Hook(h, "got", k, None) /\ UNCHANGED spoiled
       \/ \E h \in Hooks : call[h] = r /\ AfterError(h) /\ Spoil(family[presented[r]])
       \/ ~Called(r) /\ Spoil(family[presented[r]]) /\ UNCHANGED <<task, holds, call>>
    /\ raced' = raced \cup {f \in Families : \E q \in Refreshers :
                    pc[q] = "revoke" /\ f = family[presented[q]] /\ f = family[presented[r]]}
    /\ UNCHANGED keyring

\* 401, or 500 as above.
Reused(r) ==
    /\ ReuseCommit(r)
    /\ \/ \E h \in Hooks :
            call[h] = r /\ (Hook(h, "refused", holds[h], None) \/ AfterError(h))
       \/ ~Called(r) /\ UNCHANGED <<task, holds, call>>
    /\ UNCHANGED <<keyring, spoiled, raced>>

\* 500 after a rollback.
Failed(r) ==
    /\ RefreshAbort(r)
    /\ \/ \E h \in Hooks : call[h] = r /\ AfterError(h)
       \/ ~Called(r) /\ UNCHANGED <<task, holds, call>>
    /\ UNCHANGED <<keyring, spoiled, raced>>

Outdated == {k \in Credentials : Exists(k) /\ ~refreshLive[k]}

Quiet ==
    /\ \/ \E r \in Refreshers : RefreshClaim(r) \/ ReuseRead(r)
       \/ AdminRead \/ AdminCommit
       \/ \E k \in Credentials : ExpireRefresh(k) /\ Cardinality(Outdated) < Expiries
    /\ UNCHANGED <<hookVars, spoiled, raced>>

---------------------------------------------------------------------------

TokensNext ==
    \/ \E h \in Hooks :
        \/ Load(h) \/ Save(h) \/ Clear(h) \/ Lose(h)
        \/ \E r \in Refreshers : Present(h, r)
        \/ \E f \in Families, k \in Credentials : Connect(h, f, k)
    \/ \E r \in Refreshers :
        \/ Reused(r) \/ Failed(r)
        \/ \E k \in Credentials : Rotated(r, k)
    \/ Quiet

TokensSpec == TokensInit /\ [][TokensNext]_tokenVars

---------------------------------------------------------------------------
(* Properties. Those of ConnectorCredentials are checked with them.        *)

\* Reuse is never answered to a connector whose hooks did not overlap and lost
\* no answer, unless the connector was revoked: rotation alone must not lock
\* an honest connector out (SDK 212-231, service 215-238).
NoFalseAlarm == installation = "REVOKED" \/ detected \subseteq spoiled

\* A hook whose token was refused deletes whatever is stored by then (SDK 218).
\* It deletes tokens that can still be refreshed only if they are not its own:
\* the user has connected again, or another hook held tokens of the family with
\* it, or lost an answer, and newer ones were stored.
ClearedAreDead ==
    [][\A h \in Hooks :
        task[h] = "refused" /\ keyring # None /\ keyring' = None =>
            \/ used[keyring] \/ ~Acceptable(keyring)
            \/ family[keyring] # family[holds[h]]
            \/ keyring # holds[h] /\ family[keyring] \in spoiled]_tokenVars

\* Reuse, once answered, leaves nothing of the family ("reuse tespiti token
\* ailesini iptal eder", SECURITY.md 31), unless a rotation committed while the
\* revocation was running (service 232-238).
ReuseEndsFamily ==
    \A f \in detected \ raced : Unrevoked(RowsOf(f)) = {}
===========================================================================
