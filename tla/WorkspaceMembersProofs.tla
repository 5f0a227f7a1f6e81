------------------------ MODULE WorkspaceMembersProofs ------------------------
(***************************************************************************)
(* What holds of WorkspaceMembers for any users, roles and calls.          *)
(*                                                                         *)
(* OwnerRemains is not inductive: a call writes what it checked earlier.   *)
(* CheckedCalls says that a call no owner change has overtaken may still   *)
(* trust its checks when it writes.                                        *)
(***************************************************************************)
EXTENDS WorkspaceMembers, TLAPS

OtherOwner(u) == \E v \in Users : v # u /\ role[v] = "OWNER"

\* What a call that was not overtaken may trust.
Trust(c) ==
    /\ pc[c] = "read" => actor[c] \in Users /\ (asOwner[c] => role[actor[c]] = "OWNER")
    /\ pc[c] \in {"count", "write"} =>
        /\ target[c] \in Users
        /\ "OWNER" \in {role[target[c]], newRole[c]} => asOwner[c]
    /\ pc[c] = "write" /\ newRole[c] # "OWNER" /\ role[target[c]] = "OWNER" =>
        OtherOwner(target[c])
    /\ pc[c] = "count" => newRole[c] # None

CheckedCalls == \A c \in Calls \ overtaken : Trust(c)

\* Any call that is past its first read has a target.
Targeted == \A c \in Calls : pc[c] \in {"count", "write"} => target[c] \in Users

EnteringMember == \A u \in entering : Member(u) \/ u \in late

IInv ==
    /\ TypeOK
    /\ Targeted
    /\ CheckedCalls
    /\ OwnerRemains
    /\ EnteringMember
    /\ RemovedHaveNoSession

SameOwners == \A u \in Users : (role[u] = "OWNER") <=> (role'[u] = "OWNER")

LEMMA InitHolds == Init => IInv
<1> SUFFICES ASSUME Init PROVE IInv
  OBVIOUS
<1> USE RolesAssumption, NoneAssumption DEF Init
<1>1. PICK u \in Users :
        role = [v \in Users |-> IF v = u THEN "OWNER" ELSE None] /\ sessions = {u}
  OBVIOUS
<1>2. TypeOK
  BY <1>1 DEF TypeOK
<1>3. Targeted /\ CheckedCalls
  BY DEF Targeted, CheckedCalls, Trust
<1>4. u \in Owners /\ Member(u)
  BY <1>1 DEF Owners, Member
<1>5. QED
  BY <1>1, <1>2, <1>3, <1>4
  DEF IInv, OwnerRemains, EnteringMember, RemovedHaveNoSession

\* Types.
LEMMA TypeStep == ASSUME TypeOK, Targeted, [Next]_vars PROVE TypeOK' /\ Targeted'
<1> USE RolesAssumption, NoneAssumption DEF TypeOK, Targeted
<1>1. ASSUME NEW u \in Users, Session(u)
      PROVE  TypeOK' /\ Targeted'
  BY <1>1 DEF Session, Enter, CreateSession, EndSession, callVars
<1>2. ASSUME NEW c \in Calls, Call(c)
      PROVE  TypeOK' /\ Targeted'
  <2>1. ASSUME NEW u \in Users, Authenticate(c, u) PROVE TypeOK' /\ Targeted'
    BY <2>1 DEF Authenticate, sessionVars
  <2>2. ASSUME NEW u \in Users, NEW r \in Roles, AddMember(c, u, r) PROVE TypeOK' /\ Targeted'
    BY <2>2 DEF AddMember, Return, sessionVars
  <2>3. ASSUME NEW u \in Users, NEW r \in Roles \cup {None}, ReadMembership(c, u, r)
        PROVE  TypeOK' /\ Targeted'
    BY <2>3 DEF ReadMembership, sessionVars
  <2>4. CASE CountOwners(c)
    BY <2>4 DEF CountOwners, sessionVars
  <2>5. CASE WriteMembership(c)
    <3>1. role' \in [Users -> Roles \cup {None}]
      BY <2>5 DEF WriteMembership, RoleWritten
    <3>2. sessions' \subseteq Users /\ late' \subseteq Users /\ entering' \subseteq Users
      BY <2>5 DEF WriteMembership, SessionsLeft
    <3>3. overtaken' \subseteq Calls /\ clash' \in BOOLEAN
      BY <2>5 DEF WriteMembership
    <3>4. QED
      BY <2>5, <3>1, <3>2, <3>3 DEF WriteMembership, Return
  <2>6. CASE Abort(c)
    BY <2>6 DEF Abort, Return, sessionVars
  <2>7. QED
    BY <1>2, <2>1, <2>2, <2>3, <2>4, <2>5, <2>6 DEF Call
<1>3. CASE UNCHANGED vars
  BY <1>3 DEF vars, sessionVars, callVars
<1>4. QED
  BY <1>1, <1>2, <1>3 DEF Next

\* The checks of the calls other than c survive a step of c that leaves the
\* owners as they are.
LEMMA OthersKeepChecks ==
  ASSUME IInv, NEW c \in Calls, SameOwners, Calls \ overtaken' \subseteq (Calls \ overtaken) \cup {c},
         role' \in [Users -> Roles \cup {None}],
         \A d \in Calls \ {c} : /\ pc'[d] = pc[d] /\ actor'[d] = actor[d] /\ target'[d] = target[d]
                                /\ asOwner'[d] = asOwner[d] /\ newRole'[d] = newRole[d]
  PROVE  \A d \in Calls \ (overtaken' \cup {c}) : Trust(d)'
<1> SUFFICES ASSUME NEW d \in Calls \ (overtaken' \cup {c}) PROVE Trust(d)'
  OBVIOUS
<1>1. Trust(d)
  BY DEF IInv, CheckedCalls
<1>2. \A u \in Users : OtherOwner(u) => OtherOwner(u)'
  BY DEF OtherOwner, SameOwners
<1>3. QED
  BY <1>1, <1>2 DEF Trust, SameOwners

\* A call that was not overtaken and unmakes an owner leaves another one.
LEMMA WriteLeavesOwner ==
  ASSUME IInv, NEW c \in Calls, WriteMembership(c), c \notin overtaken
  PROVE  OwnerRemains'
<1> USE DEF IInv, TypeOK
<1>1. target[c] \in Users
  BY DEF Targeted, WriteMembership
<1>2. CASE newRole[c] = "OWNER"
  <2>1. role'[target[c]] = "OWNER"
    BY <1>1, <1>2 DEF WriteMembership, RoleWritten
  <2>2. QED
    BY <1>1, <2>1 DEF OwnerRemains, Owners
<1>3. CASE newRole[c] # "OWNER" /\ role[target[c]] = "OWNER"
  <2>1. PICK v \in Users : v # target[c] /\ role[v] = "OWNER"
    BY <1>3 DEF CheckedCalls, Trust, WriteMembership, OtherOwner
  <2>2. role'[v] = "OWNER"
    BY <2>1, <1>1 DEF WriteMembership
  <2>3. QED
    BY <2>2 DEF OwnerRemains, Owners
<1>4. CASE newRole[c] # "OWNER" /\ role[target[c]] # "OWNER"
  <2>1. clash' = clash
    BY <1>4 DEF WriteMembership
  <2>2. \A v \in Users : role[v] = "OWNER" => role'[v] = "OWNER"
    BY <1>4, <1>1 DEF WriteMembership, RoleWritten
  <2>3. QED
    BY <2>1, <2>2 DEF OwnerRemains, Owners
<1>5. QED
  BY <1>2, <1>3, <1>4

LEMMA ChecksStep == ASSUME IInv, [Next]_vars, TypeOK' PROVE CheckedCalls'
<1> USE DEF IInv
<1>1. ASSUME NEW u \in Users, Session(u)
      PROVE  CheckedCalls'
  BY <1>1 DEF Session, Enter, CreateSession, EndSession, callVars, CheckedCalls, Trust, OtherOwner
<1>2. ASSUME NEW c \in Calls, Call(c)
      PROVE  CheckedCalls'
  <2> USE DEF TypeOK
  <2>0. ASSUME SameOwners, Calls \ overtaken' \subseteq (Calls \ overtaken) \cup {c},
               \A d \in Calls \ {c} :
                 /\ pc'[d] = pc[d] /\ actor'[d] = actor[d] /\ target'[d] = target[d]
                 /\ asOwner'[d] = asOwner[d] /\ newRole'[d] = newRole[d],
               c \notin overtaken' => Trust(c)'
        PROVE  CheckedCalls'
    <3>1. role' \in [Users -> Roles \cup {None}]
      OBVIOUS
    <3>2. \A d \in Calls \ (overtaken' \cup {c}) : Trust(d)'
      BY <2>0, <3>1, OthersKeepChecks
    <3>3. QED
      BY <2>0, <3>2 DEF CheckedCalls, Trust
  <2>1. ASSUME NEW u \in Users, Authenticate(c, u) PROVE CheckedCalls'
    BY <2>1, <2>0 DEF Authenticate, SameOwners, Trust
  <2>2. ASSUME NEW u \in Users, NEW r \in Roles, AddMember(c, u, r) PROVE CheckedCalls'
    <3>1. SameOwners
      BY <2>2, NoneAssumption, RolesAssumption DEF AddMember, SameOwners, Member
    <3>2. QED
      BY <2>2, <3>1, <2>0 DEF AddMember, Return, Trust
  <2>3. ASSUME NEW u \in Users, NEW r \in Roles \cup {None}, ReadMembership(c, u, r)
        PROVE  CheckedCalls'
    <3>1. SameOwners
      BY <2>3 DEF ReadMembership, SameOwners
    <3>2. ASSUME c \notin overtaken PROVE Trust(c)'
      <4>1. pc[c] = "read" /\ target'[c] = u /\ newRole'[c] = r /\ role' = role
            /\ asOwner' = asOwner /\ pc'[c] \in {"count", "write"}
        BY <2>3 DEF ReadMembership
      <4>2. "OWNER" \in {role[u], r} => asOwner[c]
        BY <2>3 DEF ReadMembership, MayChange
      <4>3. ASSUME pc'[c] = "write", r # "OWNER", role[u] = "OWNER" PROVE OtherOwner(u)
        <5>1. r = None /\ u # actor[c]
          BY <2>3, <4>3 DEF ReadMembership
        <5>2. actor[c] \in Users /\ role[actor[c]] = "OWNER"
          BY <4>1, <4>2, <4>3, <3>2 DEF CheckedCalls, Trust
        <5>3. QED
          BY <5>1, <5>2 DEF OtherOwner
      <4>4. pc'[c] = "count" => r # None
        BY <2>3 DEF ReadMembership
      <4>5. QED
        BY <4>1, <4>2, <4>3, <4>4 DEF Trust, OtherOwner
    <3>3. QED
      BY <2>3, <3>1, <3>2, <2>0 DEF ReadMembership
  <2>4. CASE CountOwners(c)
    <3>1. SameOwners
      BY <2>4 DEF CountOwners, SameOwners
    <3>2. OtherOwner(target[c])
      BY <2>4 DEF CountOwners, EnoughOwners, Owners, OtherOwner
    <3>3. c \notin overtaken => Trust(c)'
      BY <2>4, <3>2 DEF CountOwners, CheckedCalls, Trust, OtherOwner
    <3>4. QED
      BY <2>4, <3>1, <3>3, <2>0 DEF CountOwners
  <2>5. CASE WriteMembership(c)
    <3>1. target[c] \in Users
      BY <2>5 DEF WriteMembership, Targeted
    <3>2. pc'[c] = "idle"
      BY <2>5 DEF WriteMembership, Return
    <3>3. CASE (role[target[c]] = "OWNER") = (newRole[c] = "OWNER")
      <4>1. SameOwners
        BY <2>5, <3>1, <3>3 DEF WriteMembership, RoleWritten, SameOwners
      <4>2. overtaken' = overtaken \ {c}
        BY <2>5, <3>3 DEF WriteMembership
      <4>3. QED
        BY <2>5, <3>2, <4>1, <4>2, <2>0 DEF WriteMembership, Return, Trust
    <3>4. CASE (role[target[c]] = "OWNER") # (newRole[c] = "OWNER")
      <4>1. overtaken' = {d \in Calls \ {c} : pc[d] # "idle"}
        BY <2>5, <3>4 DEF WriteMembership
      <4>2. \A d \in Calls \ overtaken' : pc'[d] = "idle"
        BY <2>5, <3>2, <4>1 DEF WriteMembership, Return
      <4>3. QED
        BY <4>2 DEF CheckedCalls, Trust
    <3>5. QED
      BY <3>3, <3>4
  <2>6. CASE Abort(c)
    <3>1. SameOwners
      BY <2>6 DEF Abort, SameOwners
    <3>2. QED
      BY <2>6, <3>1, <2>0 DEF Abort, Return, Trust
  <2>7. QED
    BY <1>2, <2>1, <2>2, <2>3, <2>4, <2>5, <2>6 DEF Call
<1>3. CASE UNCHANGED vars
  BY <1>3 DEF vars, sessionVars, callVars, CheckedCalls, Trust, OtherOwner
<1>4. QED
  BY <1>1, <1>2, <1>3 DEF Next

LEMMA OwnerStep == ASSUME IInv, [Next]_vars PROVE OwnerRemains'
<1> USE DEF IInv, TypeOK, OwnerRemains, Owners
<1>1. ASSUME NEW u \in Users, Session(u)
      PROVE  OwnerRemains'
  BY <1>1 DEF Session, Enter, CreateSession, EndSession
<1>2. ASSUME NEW c \in Calls, Call(c)
      PROVE  OwnerRemains'
  <2>1. ASSUME role' = role, clash' = clash PROVE OwnerRemains'
    BY <2>1
  <2>2. ASSUME NEW u \in Users, NEW r \in Roles, AddMember(c, u, r) PROVE OwnerRemains'
    BY <2>2, NoneAssumption, RolesAssumption DEF AddMember, Member
  <2>3. CASE WriteMembership(c)
    <3>1. CASE c \notin overtaken
      BY <2>3, <3>1, WriteLeavesOwner
    <3>2. CASE c \in overtaken /\ (role[target[c]] = "OWNER") = (newRole[c] = "OWNER")
      <4>1. clash' = clash
        BY <2>3, <3>2 DEF WriteMembership
      <4>2. \A v \in Users : role[v] = "OWNER" => role'[v] = "OWNER"
        BY <2>3, <3>2 DEF WriteMembership, RoleWritten, Targeted
      <4>3. QED
        BY <4>1, <4>2
    <3>3. CASE c \in overtaken /\ (role[target[c]] = "OWNER") # (newRole[c] = "OWNER")
      BY <2>3, <3>3 DEF WriteMembership
    <3>4. QED
      BY <3>1, <3>2, <3>3
  <2>4. QED
    BY <1>2, <2>1, <2>2, <2>3
    DEF Call, Authenticate, ReadMembership, CountOwners, Abort
<1>3. CASE UNCHANGED vars
  BY <1>3 DEF vars
<1>4. QED
  BY <1>1, <1>2, <1>3 DEF Next

LEMMA SessionStep ==
  ASSUME IInv, [Next]_vars PROVE EnteringMember' /\ RemovedHaveNoSession'
<1> USE DEF IInv, TypeOK, EnteringMember, RemovedHaveNoSession, Member
<1>1. ASSUME NEW u \in Users, Session(u)
      PROVE  EnteringMember' /\ RemovedHaveNoSession'
  BY <1>1 DEF Session, Enter, CreateSession, EndSession
<1>2. ASSUME NEW c \in Calls, Call(c)
      PROVE  EnteringMember' /\ RemovedHaveNoSession'
  <2>1. ASSUME role' = role, UNCHANGED sessionVars
        PROVE  EnteringMember' /\ RemovedHaveNoSession'
    BY <2>1 DEF sessionVars
  <2>2. ASSUME NEW u \in Users, NEW r \in Roles, AddMember(c, u, r)
        PROVE  EnteringMember' /\ RemovedHaveNoSession'
    BY <2>2, NoneAssumption DEF AddMember, sessionVars
  <2>3. CASE WriteMembership(c)
    <3>1. \A u \in Users : u # target[c] \/ newRole[c] # None =>
            (role[u] # None => role'[u] # None)
      BY <2>3 DEF WriteMembership, RoleWritten
    <3>2. CASE newRole[c] = None
      BY <2>3, <3>1, <3>2 DEF WriteMembership, SessionsLeft
    <3>3. CASE newRole[c] # None
      BY <2>3, <3>1, <3>3 DEF WriteMembership, SessionsLeft
    <3>4. QED
      BY <3>2, <3>3
  <2>4. QED
    BY <1>2, <2>1, <2>2, <2>3
    DEF Call, Authenticate, ReadMembership, CountOwners, Abort
<1>3. CASE UNCHANGED vars
  BY <1>3 DEF vars, sessionVars
<1>4. QED
  BY <1>1, <1>2, <1>3 DEF Next

LEMMA Step == IInv /\ [Next]_vars => IInv'
  BY TypeStep, ChecksStep, OwnerStep, SessionStep DEF IInv

THEOREM Invariance == Spec => []IInv
  BY InitHolds, Step, PTL DEF Spec

---------------------------------------------------------------------------

\* Every variable keeps its type.
THEOREM TypeCorrect == Spec => []TypeOK
  BY Invariance, PTL DEF IInv

\* A workspace loses its last owner only to calls that overlap.
THEOREM WorkspaceKeepsOwner == Spec => []OwnerRemains
  BY Invariance, PTL DEF IInv

\* Removal leaves no session but that of an overlapping login.
THEOREM RemovalEndsSessions == Spec => []RemovedHaveNoSession
  BY Invariance, PTL DEF IInv

\* Ownership changes in the hands of owners only, overlaps aside.
THEOREM OnlyOwnersMakeOwners == Spec => OwnersActOnOwners
<1> DEFINE ByOwner(u) ==
      \E c \in Calls : /\ pc[c] = "write" /\ target[c] = u
                       /\ asOwner[c] \/ c \in overtaken
<1>1. ASSUME IInv, [Next]_vars, NEW u \in Users, (role[u] = "OWNER") # (role'[u] = "OWNER")
      PROVE  ByOwner(u)
  <2> USE <1>1 DEF IInv, TypeOK
  <2>1. ASSUME NEW c \in Calls, WriteMembership(c) PROVE ByOwner(u)
    <3>1. target[c] = u /\ "OWNER" \in {role[u], newRole[c]}
      BY <2>1 DEF WriteMembership, RoleWritten, Targeted
    <3>2. c \notin overtaken => asOwner[c]
      BY <2>1, <3>1 DEF WriteMembership, CheckedCalls, Trust
    <3>3. QED
      BY <2>1, <3>1, <3>2 DEF WriteMembership
  <2>2. ASSUME NEW c \in Calls, NEW v \in Users, NEW r \in Roles, AddMember(c, v, r)
        PROVE  FALSE
    BY <2>2, NoneAssumption, RolesAssumption DEF AddMember, Member
  <2>3. QED
    BY <2>1, <2>2
    DEF Next, vars, Session, Enter, CreateSession, EndSession, Call, Authenticate,
        ReadMembership, CountOwners, Abort
<1>2. IInv /\ [Next]_vars =>
        [\A u \in Users : (role[u] = "OWNER") # (role'[u] = "OWNER") => ByOwner(u)]_vars
  BY <1>1
<1>3. QED
  BY <1>2, Invariance, PTL DEF Spec, OwnersActOnOwners, ByOwner
===========================================================================
