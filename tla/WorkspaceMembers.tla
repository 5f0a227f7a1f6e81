--------------------------- MODULE WorkspaceMembers ---------------------------
(***************************************************************************)
(* The members of one workspace: AdminService.addMember, updateMember and  *)
(* removeMember, called by owners and administrators at the same time, and *)
(* the sessions of the workspace they revoke.                              *)
(*                                                                         *)
(* The role of the caller is read by authenticate, before the transaction  *)
(* of the call. Each statement of that transaction sees what is committed  *)
(* when it starts (READ COMMITTED); the call writes one membership, found  *)
(* again by its key, and commits.                                          *)
(***************************************************************************)
EXTENDS FiniteSets

CONSTANTS
    Users,
    Roles,   \* OWNER, ADMIN and roles that may not administer
    Calls,   \* administrative requests in flight
    None     \* no membership; as the new role of a call: removal

ASSUME RolesAssumption == {"OWNER", "ADMIN"} \subseteq Roles
ASSUME NoneAssumption == None \notin Users \cup Roles

VARIABLES
    role,        \* [Users -> role of the membership, or None]
    sessions,    \* users with a live session in the workspace
    entering,    \* users whose login or switch has read the membership
    pc,          \* [Calls -> next step]
    actor,       \* [Calls -> the authenticated user, until it is last looked at]
    asOwner,     \* [Calls -> BOOLEAN], the role that was read is OWNER
    target,      \* [Calls -> the user whose membership is changed]
    newRole,     \* [Calls -> the role it gets, None to remove it]
    overtaken,   \* history: calls in flight when the owners changed
    clash,       \* history: a call that was overtaken changed the owners
    late         \* history: users removed while they were entering

callVars == <<pc, actor, asOwner, target, newRole>>
sessionVars == <<sessions, entering, late>>
vars == <<role, sessionVars, callVars, overtaken, clash>>

TypeOK ==
    /\ role \in [Users -> Roles \cup {None}]
    /\ sessions \subseteq Users
    /\ entering \subseteq Users
    /\ pc \in [Calls -> {"idle", "read", "count", "write"}]
    /\ actor \in [Calls -> Users \cup {None}]
    /\ asOwner \in [Calls -> BOOLEAN]
    /\ target \in [Calls -> Users \cup {None}]
    /\ newRole \in [Calls -> Roles \cup {None}]
    /\ overtaken \subseteq Calls
    /\ clash \in BOOLEAN
    /\ late \subseteq Users

\* The workspace as register leaves it: its creator owns it.
Init ==
    /\ \E u \in Users :
        /\ role = [v \in Users |-> IF v = u THEN "OWNER" ELSE None]
        /\ sessions = {u}
    /\ entering = {} /\ late = {}
    /\ pc = [c \in Calls |-> "idle"]
    /\ actor = [c \in Calls |-> None]
    /\ asOwner = [c \in Calls |-> FALSE]
    /\ target = [c \in Calls |-> None]
    /\ newRole = [c \in Calls |-> None]
    /\ overtaken = {}
    /\ clash = FALSE

Owners == {u \in Users : role[u] = "OWNER"}
Member(u) == role[u] # None

---------------------------------------------------------------------------
(* Sessions of the workspace.                                              *)

\* login and switchTenant read the membership before they insert the session.
Enter(u) ==
    /\ Member(u)
    /\ entering' = entering \cup {u}
    /\ UNCHANGED <<role, sessions, late, callVars, overtaken, clash>>

CreateSession(u) ==
    /\ u \in entering
    /\ sessions' = sessions \cup {u}
    /\ entering' = entering \ {u}
    /\ UNCHANGED <<role, late, callVars, overtaken, clash>>

\* logout, revokeSession or the end of the session's life.
EndSession(u) ==
    /\ u \in sessions
    /\ sessions' = sessions \ {u}
    /\ UNCHANGED <<role, entering, late, callVars, overtaken, clash>>

---------------------------------------------------------------------------
(* Administrative calls.                                                   *)

Return(c) ==
    /\ pc' = [pc EXCEPT ![c] = "idle"]
    /\ actor' = [actor EXCEPT ![c] = None]
    /\ asOwner' = [asOwner EXCEPT ![c] = FALSE]
    /\ target' = [target EXCEPT ![c] = None]
    /\ newRole' = [newRole EXCEPT ![c] = None]

\* authenticate: the session is live and the membership gives the role. Only
\* owners and administrators go on (assertTenantAdmin).
Authenticate(c, u) ==
    /\ pc[c] = "idle"
    /\ u \in sessions
    /\ role[u] \in {"OWNER", "ADMIN"}
    /\ pc' = [pc EXCEPT ![c] = "read"]
    /\ actor' = [actor EXCEPT ![c] = u]
    /\ asOwner' = [asOwner EXCEPT ![c] = role[u] = "OWNER"]
    /\ UNCHANGED <<role, sessionVars, target, newRole, overtaken, clash>>

\* addMember inserts one membership: a second one violates the primary key.
AddMember(c, u, r) ==
    /\ pc[c] = "read"
    /\ r # "OWNER"
    /\ ~Member(u)
    /\ role' = [role EXCEPT ![u] = r]
    /\ Return(c)
    /\ overtaken' = overtaken \ {c}
    /\ UNCHANGED <<sessionVars, clash>>

\* Mutant: the owner check looks at the role that is asked for only.
MayChangeNewOnly(c, u, r) == r = "OWNER" => asOwner[c]

\* Only an owner may change the membership of an owner or make one.
MayChange(c, u, r) == "OWNER" \in {role[u], r} => asOwner[c]

\* The first statement of updateMember (r is a role) or removeMember (None).
ReadMembership(c, u, r) ==
    /\ pc[c] = "read"
    /\ Member(u)
    /\ r = None => u # actor[c]
    /\ MayChange(c, u, r)
    /\ target' = [target EXCEPT ![c] = u]
    /\ newRole' = [newRole EXCEPT ![c] = r]
    /\ pc' = [pc EXCEPT ![c] = IF role[u] = "OWNER" /\ r \notin {"OWNER", None}
                               THEN "count" ELSE "write"]
    /\ actor' = [actor EXCEPT ![c] = None]
    /\ UNCHANGED <<role, sessionVars, asOwner, overtaken, clash>>

\* Mutant: one owner is enough to demote an owner.
EnoughOwnersOne == \E u \in Owners : TRUE

EnoughOwners == \E u, v \in Owners : u # v

\* updateMember counts the owners before it demotes one.
CountOwners(c) ==
    /\ pc[c] = "count"
    /\ EnoughOwners
    /\ pc' = [pc EXCEPT ![c] = "write"]
    /\ UNCHANGED <<role, sessionVars, actor, asOwner, target, newRole, overtaken, clash>>

\* Mutant: the sessions of a removed member stay.
SessionsLeftAll(c) == sessions

\* Removal also revokes the sessions the member has in this workspace.
SessionsLeft(c) == IF newRole[c] = None THEN sessions \ {target[c]} ELSE sessions

RoleWritten(c) == newRole[c]

\* The membership is updated or deleted by its key, and the call commits.
WriteMembership(c) ==
    /\ pc[c] = "write"
    /\ Member(target[c])
    /\ role' = [role EXCEPT ![target[c]] = RoleWritten(c)]
    /\ sessions' = SessionsLeft(c)
    /\ late' = IF newRole[c] = None THEN late \cup (entering \cap {target[c]}) ELSE late
    /\ Return(c)
    /\ IF (role[target[c]] = "OWNER") = (newRole[c] = "OWNER")
       THEN /\ overtaken' = overtaken \ {c}
            /\ UNCHANGED clash
       ELSE /\ overtaken' = {d \in Calls \ {c} : pc[d] # "idle"}
            /\ clash' = (clash \/ c \in overtaken)
    /\ UNCHANGED entering

\* The call is refused, fails or dies; its transaction is rolled back.
Abort(c) ==
    /\ pc[c] # "idle"
    /\ Return(c)
    /\ overtaken' = overtaken \ {c}
    /\ UNCHANGED <<role, sessionVars, clash>>

---------------------------------------------------------------------------

Session(u) == Enter(u) \/ CreateSession(u) \/ EndSession(u)

Call(c) ==
    \/ \E u \in Users : Authenticate(c, u)
    \/ \E u \in Users, r \in Roles : AddMember(c, u, r)
    \/ \E u \in Users, r \in Roles \cup {None} : ReadMembership(c, u, r)
    \/ CountOwners(c)
    \/ WriteMembership(c)
    \/ Abort(c)

Next ==
    \/ \E u \in Users : Session(u)
    \/ \E c \in Calls : Call(c)

Spec == Init /\ [][Next]_vars

---------------------------------------------------------------------------
(* Properties.                                                             *)

\* A workspace keeps an owner ("A workspace must retain at least one owner.",
\* admin.service.ts 617), unless two calls that change the owners overlap:
\* neither the count nor the caller's role is read again when a call commits.
OwnerRemains == Owners # {} \/ clash

\* The membership of an owner is changed, or an owner made, only by a caller
\* that was one (lines 606-611 and 647), unless the call was overtaken.
OwnersActOnOwners ==
    [][\A u \in Users :
        (role[u] = "OWNER") # (role'[u] = "OWNER") =>
            \E c \in Calls :
                /\ pc[c] = "write" /\ target[c] = u
                /\ asOwner[c] \/ c \in overtaken]_vars

\* Who was removed has no session left in the workspace, and a later
\* readmission revives none, but for a login or a switch that had read the
\* membership when it was deleted (lines 649-655, auth.service.ts 167-187).
RemovedHaveNoSession == \A u \in sessions : Member(u) \/ u \in late
===========================================================================
