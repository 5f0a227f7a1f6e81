----------------------- MODULE ConnectorCredentials -----------------------
(***************************************************************************)
(* The credentials of one connector installation: issued by the device     *)
(* flow, rotated by refresh, revoked as a family when a used refresh token *)
(* comes back, and revoked with the installation by an administrator.      *)
(*                                                                         *)
(* Each request is a PostgreSQL transaction at READ COMMITTED. A row that  *)
(* an open transaction has updated stays locked, and others read its old   *)
(* version, until the commit. A statement sees the rows committed when it  *)
(* starts; an UPDATE then waits for locked rows and checks its condition   *)
(* again on them, but never sees a row inserted after it started.          *)
(***************************************************************************)
EXTENDS Naturals, FiniteSets

CONSTANTS
    Credentials,  \* rows of connector_credentials
    Families,     \* values of family_id
    Refreshers,   \* POST /connectors/token/refresh requests in flight
    None

ASSUME NoneAssumption == None \notin Credentials \cup Families \cup Refreshers

VARIABLES
    family,        \* [Credentials -> family_id, None while the row does not exist]
    used,          \* [Credentials -> BOOLEAN], used_at is set
    revoked,       \* [Credentials -> BOOLEAN], revoked_at is set
    replacedBy,    \* [Credentials -> replaced_by_id]
    refreshLive,   \* [Credentials -> BOOLEAN], refresh token has not expired
    lock,          \* [Credentials -> refresh that updated the row, not committed]
    installation,  \* status of the installation
    pc,            \* [Refreshers -> next step of refresh]
    presented,     \* [Refreshers -> credential whose token was presented]
    targets,       \* [Refreshers -> rows its family revocation will update]
    admin,         \* rows revokeConnector will update, or None
    detected       \* history: families whose reuse was answered

rows == <<family, used, revoked, replacedBy, refreshLive>>
refreshVars == <<lock, pc, presented, targets>>
vars == <<rows, refreshVars, installation, admin, detected>>

TypeOK ==
    /\ family \in [Credentials -> Families \cup {None}]
    /\ used \in [Credentials -> BOOLEAN]
    /\ revoked \in [Credentials -> BOOLEAN]
    /\ replacedBy \in [Credentials -> Credentials \cup {None}]
    /\ refreshLive \in [Credentials -> BOOLEAN]
    /\ lock \in [Credentials -> Refreshers \cup {None}]
    /\ installation \in {"ACTIVE", "REVOKED"}
    /\ pc \in [Refreshers -> {"idle", "claim", "rotate", "reuse", "revoke"}]
    /\ presented \in [Refreshers -> Credentials \cup {None}]
    /\ targets \in [Refreshers -> SUBSET Credentials]
    /\ admin \in (SUBSET Credentials) \cup {None}
    /\ detected \subseteq Families

Init ==
    /\ family = [k \in Credentials |-> None]
    /\ used = [k \in Credentials |-> FALSE]
    /\ revoked = [k \in Credentials |-> FALSE]
    /\ replacedBy = [k \in Credentials |-> None]
    /\ refreshLive = [k \in Credentials |-> FALSE]
    /\ lock = [k \in Credentials |-> None]
    /\ installation = "ACTIVE"
    /\ pc = [h \in Refreshers |-> "idle"]
    /\ presented = [h \in Refreshers |-> None]
    /\ targets = [h \in Refreshers |-> {}]
    /\ admin = None
    /\ detected = {}

Exists(k) == family[k] # None
RowsOf(f) == {k \in Credentials : family[k] = f}
Unrevoked(S) == {k \in S : ~revoked[k]}

\* INSERT of a fresh credential.
Insert(k, f) ==
    /\ ~Exists(k)
    /\ family' = [family EXCEPT ![k] = f]
    /\ refreshLive' = [refreshLive EXCEPT ![k] = TRUE]

Return(h) ==
    /\ pc' = [pc EXCEPT ![h] = "idle"]
    /\ presented' = [presented EXCEPT ![h] = None]
    /\ targets' = [targets EXCEPT ![h] = {}]

---------------------------------------------------------------------------
(* poll: the first credential of a new family.                             *)

Issue(f, k) ==
    /\ RowsOf(f) = {}
    /\ Insert(k, f)
    /\ UNCHANGED <<used, revoked, replacedBy, refreshVars, installation, admin, detected>>

---------------------------------------------------------------------------
(* refresh.                                                                *)

\* The token is looked up; an unknown, revoked or expired one is refused.
RefreshRead(h, k) ==
    /\ pc[h] = "idle"
    /\ Exists(k) /\ ~revoked[k] /\ refreshLive[k]
    /\ pc' = [pc EXCEPT ![h] = "claim"]
    /\ presented' = [presented EXCEPT ![h] = k]
    /\ UNCHANGED <<rows, lock, targets, installation, admin, detected>>

\* Mutant: the claim does not ask for usedAt to be null.
ClaimableUnrevoked(k) == ~revoked[k]

Claimable(k) == ~used[k] /\ ~revoked[k]

\* Mutant: a row locked by another transaction counts as used.
RefreshClaimNoWait(h) ==
    /\ pc[h] = "claim"
    /\ LET k == presented[h] IN
       \/ /\ Claimable(k) /\ lock[k] = None
          /\ lock' = [lock EXCEPT ![k] = h]
          /\ pc' = [pc EXCEPT ![h] = "rotate"]
       \/ /\ ~Claimable(k) \/ lock[k] # None
          /\ pc' = [pc EXCEPT ![h] = "reuse"]
          /\ UNCHANGED lock
    /\ UNCHANGED <<rows, presented, targets, installation, admin, detected>>

\* The conditional update that marks the credential used. It waits while
\* another transaction holds the row.
RefreshClaim(h) ==
    /\ pc[h] = "claim"
    /\ LET k == presented[h] IN
       /\ lock[k] = None
       /\ \/ /\ Claimable(k)
             /\ lock' = [lock EXCEPT ![k] = h]
             /\ pc' = [pc EXCEPT ![h] = "rotate"]
          \/ /\ ~Claimable(k)
             /\ pc' = [pc EXCEPT ![h] = "reuse"]
             /\ UNCHANGED lock
    /\ UNCHANGED <<rows, presented, targets, installation, admin, detected>>

Successor(h, k) == Insert(k, family[presented[h]])

\* The replacement is inserted and the transaction commits.
RefreshCommit(h, k) ==
    /\ pc[h] = "rotate"
    /\ Successor(h, k)
    /\ used' = [used EXCEPT ![presented[h]] = TRUE]
    /\ replacedBy' = [replacedBy EXCEPT ![presented[h]] = k]
    /\ lock' = [lock EXCEPT ![presented[h]] = None]
    /\ Return(h)
    /\ UNCHANGED <<revoked, installation, admin, detected>>

\* Mutant: only the token that was presented is revoked.
RevocableOwn(h) == Unrevoked({presented[h]})

Revocable(h) == Unrevoked(RowsOf(family[presented[h]]))

\* The claim failed: the family revocation starts and sees its rows.
ReuseRead(h) ==
    /\ pc[h] = "reuse"
    /\ pc' = [pc EXCEPT ![h] = "revoke"]
    /\ targets' = [targets EXCEPT ![h] = Revocable(h)]
    /\ UNCHANGED <<rows, lock, presented, installation, admin, detected>>

Revoke(S) == revoked' = [k \in Credentials |-> revoked[k] \/ k \in S]

\* It waits for every row it found, revokes them and commits.
ReuseCommit(h) ==
    /\ pc[h] = "revoke"
    /\ \A k \in targets[h] : lock[k] = None
    /\ Revoke(targets[h])
    /\ detected' = detected \cup {family[presented[h]]}
    /\ Return(h)
    /\ UNCHANGED <<family, used, replacedBy, refreshLive, lock, installation, admin>>

\* The process dies or the database fails: the transaction is rolled back.
RefreshAbort(h) ==
    /\ pc[h] # "idle"
    /\ lock' = [k \in Credentials |-> IF lock[k] = h THEN None ELSE lock[k]]
    /\ Return(h)
    /\ UNCHANGED <<rows, installation, admin, detected>>

---------------------------------------------------------------------------
(* AdminService.revokeConnector: the installation, then the credentials.   *)

AdminRead ==
    /\ admin = None
    /\ admin' = Unrevoked({k \in Credentials : Exists(k)})
    /\ UNCHANGED <<rows, refreshVars, installation, detected>>

AdminCommit ==
    /\ admin # None
    /\ \A k \in admin : lock[k] = None
    /\ Revoke(admin)
    /\ installation' = "REVOKED"
    /\ admin' = None
    /\ UNCHANGED <<family, used, replacedBy, refreshLive, refreshVars, detected>>

---------------------------------------------------------------------------
(* Time.                                                                   *)

ExpireRefresh(k) ==
    /\ refreshLive[k]
    /\ refreshLive' = [refreshLive EXCEPT ![k] = FALSE]
    /\ UNCHANGED <<family, used, revoked, replacedBy, refreshVars, installation, admin, detected>>

---------------------------------------------------------------------------

Refresh(h) ==
    \/ \E k \in Credentials : RefreshRead(h, k) \/ RefreshCommit(h, k)
    \/ RefreshClaim(h)
    \/ ReuseRead(h)
    \/ ReuseCommit(h)
    \/ RefreshAbort(h)

Next ==
    \/ \E f \in Families, k \in Credentials : Issue(f, k)
    \/ \E h \in Refreshers : Refresh(h)
    \/ AdminRead \/ AdminCommit
    \/ \E k \in Credentials : ExpireRefresh(k)

Spec == Init /\ [][Next]_vars

---------------------------------------------------------------------------
(* Properties.                                                             *)

Current(k) == Exists(k) /\ ~used[k] /\ ~revoked[k]

\* A family has at most one refresh token that can still be rotated, however
\* many requests present its tokens at once (claim, lines 228-231).
OneCurrent ==
    \A j, k \in Credentials :
        Current(j) /\ Current(k) /\ family[j] = family[k] => j = k

\* The used credentials of a family form one chain: each has one successor,
\* in its own family, and no two share it (lines 239-253).
OneSuccessor ==
    \A k \in Credentials :
        /\ used[k] <=> replacedBy[k] # None
        /\ used[k] => family[replacedBy[k]] = family[k]
        /\ \A j \in Credentials : used[j] /\ used[k] /\ replacedBy[j] = replacedBy[k] => j = k

\* Reuse is answered only for a family one of whose tokens really was rotated,
\* or whose connector was revoked meanwhile: a request that waits for a rotation
\* which is then rolled back must not count as reuse (lines 228-238).
ReuseIsReal ==
    \A f \in detected : installation = "REVOKED" \/ \E k \in RowsOf(f) : used[k]
===========================================================================
