----------------------- MODULE ConnectorTokensProofs -----------------------
(***************************************************************************)
(* Proofs about the tokens of a connector, for any number of rows,         *)
(* families, requests and hooks: first the API's side alone                *)
(* (ConnectorCredentials), then its composition with the hooks             *)
(* (ConnectorTokens).                                                      *)
(*                                                                         *)
(* Of the API: refresh never leaves two current tokens in a family, keeps  *)
(* the used ones in one chain, and answers reuse only where a token was    *)
(* rotated. None of the three is inductive: a commit is safe because the   *)
(* row it rotates has been locked, unused and unrevoked since the claim,   *)
(* and a claim can fail only on a row that was used, or revoked for a      *)
(* reason.                                                                 *)
(***************************************************************************)
EXTENDS ConnectorTokens, TLAPS

\* A row is locked by the request that claimed it, and stays as it was claimed.
LockedByClaim ==
    \A h \in Refreshers :
        /\ \A k \in Credentials : lock[k] = h <=> pc[h] = "rotate" /\ presented[h] = k
        /\ pc[h] # "idle" => presented[h] \in Credentials /\ Exists(presented[h])
        /\ pc[h] = "rotate" => ~used[presented[h]] /\ ~revoked[presented[h]]

\* Nothing is recorded about a row that does not exist.
AbsentIsBlank ==
    /\ \A k \in Credentials :
        /\ ~Exists(k) => ~used[k] /\ ~revoked[k] /\ replacedBy[k] = None
        /\ used[k] => replacedBy[k] \in Credentials /\ Exists(replacedBy[k])
    /\ \A h \in Refreshers : \A k \in targets[h] : Exists(k) /\ family[k] = family[presented[h]]
    /\ \A h \in Refreshers : targets[h] # {} => pc[h] = "revoke"
    /\ admin # None => \A k \in admin : Exists(k)

\* A token of the family of k was rotated, or the connector was revoked.
Justified(k) ==
    installation = "REVOKED" \/ \E j \in Credentials : family[j] = family[k] /\ used[j]

\* A revoked row, and a request that found its row used, have a reason.
RevokedForReason ==
    /\ \A k \in Credentials : revoked[k] => Justified(k)
    /\ \A h \in Refreshers : pc[h] \in {"reuse", "revoke"} => Justified(presented[h])

Inv ==
    /\ TypeOK
    /\ LockedByClaim
    /\ AbsentIsBlank
    /\ RevokedForReason
    /\ OneCurrent
    /\ OneSuccessor
    /\ ReuseIsReal

-----------------------------------------------------------------------------

LEMMA InitInv == Init => Inv
  BY NoneAssumption
  DEF Init, Inv, TypeOK, LockedByClaim, AbsentIsBlank, RevokedForReason, OneCurrent,
      OneSuccessor, ReuseIsReal, Exists, Current

\* Issue: the first row of an empty family has nothing to share it with.
LEMMA IssueInv ==
  ASSUME Inv, NEW f \in Families, NEW k \in Credentials, Issue(f, k)
  PROVE  Inv'
  <1> USE NoneAssumption DEF Issue, Insert, Exists, rows, refreshVars
  <1>1. TypeOK'
    BY DEF Inv, TypeOK
  <1>2. LockedByClaim'
    BY DEF Inv, TypeOK, LockedByClaim
  <1>3. AbsentIsBlank'
    BY DEF Inv, TypeOK, AbsentIsBlank, LockedByClaim
  <1>4. RevokedForReason'
    BY DEF Inv, TypeOK, RevokedForReason, Justified, AbsentIsBlank, LockedByClaim
  <1>5. OneCurrent'
    BY DEF Inv, TypeOK, OneCurrent, Current, RowsOf
  <1>6. OneSuccessor'
    BY DEF Inv, TypeOK, OneSuccessor, AbsentIsBlank
  <1>7. ReuseIsReal'
    BY DEF Inv, TypeOK, ReuseIsReal, RowsOf, AbsentIsBlank
  <1>8. QED
    BY <1>1, <1>2, <1>3, <1>4, <1>5, <1>6, <1>7 DEF Inv

LEMMA RefreshReadInv ==
  ASSUME Inv, NEW h \in Refreshers, NEW k \in Credentials, RefreshRead(h, k)
  PROVE  Inv'
  <1> USE NoneAssumption DEF RefreshRead, Exists, rows, refreshVars
  <1>1. TypeOK'
    BY DEF Inv, TypeOK
  <1>2. LockedByClaim'
    BY DEF Inv, TypeOK, LockedByClaim
  <1>3. AbsentIsBlank'
    BY DEF Inv, TypeOK, AbsentIsBlank
  <1>4. RevokedForReason'
    BY DEF Inv, TypeOK, RevokedForReason, Justified
  <1>5. OneCurrent' /\ OneSuccessor' /\ ReuseIsReal'
    BY DEF Inv, OneCurrent, OneSuccessor, ReuseIsReal, Current, RowsOf
  <1>6. QED
    BY <1>1, <1>2, <1>3, <1>4, <1>5 DEF Inv

\* RefreshClaim: it locks a row that is unused and unrevoked, or finds a reason.
LEMMA RefreshClaimInv ==
  ASSUME Inv, NEW h \in Refreshers, RefreshClaim(h)
  PROVE  Inv'
  <1> USE NoneAssumption DEF RefreshClaim, Exists, rows, refreshVars
  <1>1. TypeOK'
    BY DEF Inv, TypeOK
  <1>2. LockedByClaim'
    BY DEF Inv, TypeOK, LockedByClaim, Claimable
  <1>3. AbsentIsBlank'
    BY DEF Inv, TypeOK, AbsentIsBlank
  <1>4. RevokedForReason'
    BY DEF Inv, TypeOK, RevokedForReason, Justified, Claimable, LockedByClaim
  <1>5. OneCurrent' /\ OneSuccessor' /\ ReuseIsReal'
    BY DEF Inv, OneCurrent, OneSuccessor, ReuseIsReal, Current, RowsOf
  <1>6. QED
    BY <1>1, <1>2, <1>3, <1>4, <1>5 DEF Inv

\* RefreshCommit: the successor takes the place of the one current token, the
\* presented one, which the lock has kept current since the claim.
LEMMA RefreshCommitInv ==
  ASSUME Inv, NEW h \in Refreshers, NEW k \in Credentials, RefreshCommit(h, k)
  PROVE  Inv'
  <1> USE NoneAssumption DEF RefreshCommit, Successor, Insert, Return, Exists
  <1> DEFINE p == presented[h]
  <1>a. /\ p \in Credentials /\ p # k /\ Exists(p) /\ ~Exists(k)
        /\ ~used[p] /\ ~revoked[p] /\ lock[p] = h
        /\ ~used[k] /\ ~revoked[k]
    BY DEF Inv, LockedByClaim, AbsentIsBlank
  <1>1. TypeOK'
    BY <1>a DEF Inv, TypeOK
  <1>2. LockedByClaim'
    BY <1>a DEF Inv, TypeOK, LockedByClaim
  <1>3. AbsentIsBlank'
    <2>1. (\A j \in Credentials :
            /\ ~Exists(j) => ~used[j] /\ ~revoked[j] /\ replacedBy[j] = None
            /\ used[j] => replacedBy[j] \in Credentials /\ Exists(replacedBy[j]))'
      BY <1>a DEF Inv, TypeOK, AbsentIsBlank
    <2>2. (\A g \in Refreshers : targets[g] # {} => pc[g] = "revoke")'
      BY DEF Inv, TypeOK, AbsentIsBlank
    <2>3. (\A g \in Refreshers : \A j \in targets[g] :
            Exists(j) /\ family[j] = family[presented[g]])'
      BY <1>a DEF Inv, TypeOK, AbsentIsBlank, LockedByClaim
    <2>4. (admin # None => \A j \in admin : Exists(j))'
      BY <1>a DEF Inv, TypeOK, AbsentIsBlank
    <2>5. QED
      BY <2>1, <2>2, <2>3, <2>4 DEF AbsentIsBlank
  <1>4. RevokedForReason'
    <2>1. ASSUME NEW j \in Credentials, Exists(j), Justified(j)
          PROVE  Justified(j)'
      BY <1>a, <2>1 DEF Inv, TypeOK, Justified
    <2>2. QED
      BY <1>a, <2>1 DEF Inv, TypeOK, RevokedForReason, LockedByClaim, AbsentIsBlank
  <1>5. OneCurrent'
    BY <1>a DEF Inv, TypeOK, OneCurrent, Current
  <1>6. OneSuccessor'
    BY <1>a DEF Inv, TypeOK, OneSuccessor, AbsentIsBlank
  <1>7. ReuseIsReal'
    BY <1>a DEF Inv, TypeOK, ReuseIsReal, RowsOf
  <1>8. QED
    BY <1>1, <1>2, <1>3, <1>4, <1>5, <1>6, <1>7 DEF Inv

LEMMA ReuseReadInv ==
  ASSUME Inv, NEW h \in Refreshers, ReuseRead(h)
  PROVE  Inv'
  <1> USE NoneAssumption DEF ReuseRead, Revocable, Unrevoked, RowsOf, Exists, rows, refreshVars
  <1>1. TypeOK'
    BY DEF Inv, TypeOK
  <1>2. LockedByClaim'
    BY DEF Inv, TypeOK, LockedByClaim
  <1>3. AbsentIsBlank'
    BY DEF Inv, TypeOK, AbsentIsBlank, LockedByClaim
  <1>4. RevokedForReason'
    BY DEF Inv, TypeOK, RevokedForReason, Justified
  <1>5. OneCurrent' /\ OneSuccessor' /\ ReuseIsReal'
    BY DEF Inv, OneCurrent, OneSuccessor, ReuseIsReal, Current
  <1>6. QED
    BY <1>1, <1>2, <1>3, <1>4, <1>5 DEF Inv

\* ReuseCommit: it revokes rows of a family that has a reason, none of them locked.
LEMMA ReuseCommitInv ==
  ASSUME Inv, NEW h \in Refreshers, ReuseCommit(h)
  PROVE  Inv'
  <1> USE NoneAssumption DEF ReuseCommit, Revoke, Return, Exists
  <1>1. TypeOK'
    BY DEF Inv, TypeOK, LockedByClaim
  <1>2. LockedByClaim'
    BY DEF Inv, TypeOK, LockedByClaim
  <1>3. AbsentIsBlank'
    BY DEF Inv, TypeOK, AbsentIsBlank
  <1>4. RevokedForReason'
    BY DEF Inv, TypeOK, RevokedForReason, Justified, AbsentIsBlank
  <1>5. OneCurrent' /\ OneSuccessor'
    BY DEF Inv, TypeOK, OneCurrent, OneSuccessor, Current
  <1>6. ReuseIsReal'
    BY DEF Inv, TypeOK, ReuseIsReal, RowsOf, RevokedForReason, Justified
  <1>7. QED
    BY <1>1, <1>2, <1>3, <1>4, <1>5, <1>6 DEF Inv

LEMMA RefreshAbortInv ==
  ASSUME Inv, NEW h \in Refreshers, RefreshAbort(h)
  PROVE  Inv'
  <1> USE NoneAssumption DEF RefreshAbort, Return, Exists, rows
  <1>1. TypeOK'
    BY DEF Inv, TypeOK
  <1>2. LockedByClaim'
    BY DEF Inv, TypeOK, LockedByClaim
  <1>3. AbsentIsBlank'
    BY DEF Inv, TypeOK, AbsentIsBlank
  <1>4. RevokedForReason'
    BY DEF Inv, TypeOK, RevokedForReason, Justified
  <1>5. OneCurrent' /\ OneSuccessor' /\ ReuseIsReal'
    BY DEF Inv, OneCurrent, OneSuccessor, ReuseIsReal, Current, RowsOf
  <1>6. QED
    BY <1>1, <1>2, <1>3, <1>4, <1>5 DEF Inv

LEMMA AdminReadInv == ASSUME Inv, AdminRead PROVE Inv'
  <1> USE NoneAssumption DEF AdminRead, Unrevoked, Exists, rows, refreshVars
  <1>1. TypeOK'
    BY DEF Inv, TypeOK
  <1>2. LockedByClaim' /\ AbsentIsBlank'
    BY DEF Inv, TypeOK, LockedByClaim, AbsentIsBlank
  <1>3. RevokedForReason'
    BY DEF Inv, RevokedForReason, Justified
  <1>4. OneCurrent' /\ OneSuccessor' /\ ReuseIsReal'
    BY DEF Inv, OneCurrent, OneSuccessor, ReuseIsReal, Current, RowsOf
  <1>5. QED
    BY <1>1, <1>2, <1>3, <1>4 DEF Inv

LEMMA AdminCommitInv == ASSUME Inv, AdminCommit PROVE Inv'
  <1> USE NoneAssumption DEF AdminCommit, Revoke, Exists, refreshVars
  <1>1. TypeOK'
    BY DEF Inv, TypeOK
  <1>2. LockedByClaim' /\ AbsentIsBlank'
    BY DEF Inv, TypeOK, LockedByClaim, AbsentIsBlank
  <1>3. RevokedForReason'
    BY DEF Inv, RevokedForReason, Justified
  <1>4. OneCurrent' /\ OneSuccessor' /\ ReuseIsReal'
    BY DEF Inv, TypeOK, OneCurrent, OneSuccessor, ReuseIsReal, Current
  <1>5. QED
    BY <1>1, <1>2, <1>3, <1>4 DEF Inv

LEMMA ExpireRefreshInv ==
  ASSUME Inv, NEW k \in Credentials, ExpireRefresh(k)
  PROVE  Inv'
  <1> USE DEF ExpireRefresh, Exists, refreshVars
  <1>1. TypeOK'
    BY DEF Inv, TypeOK
  <1>2. LockedByClaim' /\ AbsentIsBlank' /\ RevokedForReason'
    BY DEF Inv, LockedByClaim, AbsentIsBlank, RevokedForReason, Justified
  <1>3. OneCurrent' /\ OneSuccessor' /\ ReuseIsReal'
    BY DEF Inv, OneCurrent, OneSuccessor, ReuseIsReal, Current, RowsOf
  <1>4. QED
    BY <1>1, <1>2, <1>3 DEF Inv

LEMMA StutterInv == ASSUME Inv, UNCHANGED vars PROVE Inv'
  BY DEF vars, rows, refreshVars, Inv, TypeOK, LockedByClaim, AbsentIsBlank, RevokedForReason,
         Justified, OneCurrent, OneSuccessor, ReuseIsReal, Current, RowsOf, Exists

-----------------------------------------------------------------------------

LEMMA NextInv == ASSUME Inv, [Next]_vars PROVE Inv'
  <1>1. CASE \E f \in Families, k \in Credentials : Issue(f, k)
    BY <1>1, IssueInv
  <1>2. CASE \E h \in Refreshers : Refresh(h)
    BY <1>2, RefreshReadInv, RefreshClaimInv, RefreshCommitInv, ReuseReadInv,
       ReuseCommitInv, RefreshAbortInv DEF Refresh
  <1>3. CASE AdminRead \/ AdminCommit
    BY <1>3, AdminReadInv, AdminCommitInv
  <1>4. CASE \E k \in Credentials : ExpireRefresh(k)
    BY <1>4, ExpireRefreshInv
  <1>5. CASE UNCHANGED vars
    BY <1>5, StutterInv
  <1>6. QED
    BY <1>1, <1>2, <1>3, <1>4, <1>5 DEF Next

\* The strengthened invariant holds in every reachable state.
THEOREM Invariance == Spec => []Inv
  <1>1. Inv /\ [Next]_vars => Inv'
    BY NextInv
  <1>2. QED
    BY InitInv, <1>1, PTL DEF Spec

\* Every variable of the credentials keeps its type.
THEOREM TypeCorrect == Spec => []TypeOK
  <1>1. Inv => TypeOK BY DEF Inv
  <1>2. QED BY Invariance, <1>1, PTL

\* However many requests present the tokens of a family at once, at most one
\* token of it can still be rotated (the claim, lines 228-231).
THEOREM RotationIsExclusive == Spec => []OneCurrent
  <1>1. Inv => OneCurrent BY DEF Inv
  <1>2. QED BY Invariance, <1>1, PTL

\* The used tokens of a family form one chain (lines 239-253).
THEOREM FamilyIsAChain == Spec => []OneSuccessor
  <1>1. Inv => OneSuccessor BY DEF Inv
  <1>2. QED BY Invariance, <1>1, PTL

\* A family is answered as reused only when one of its tokens was rotated or
\* its connector was revoked (lines 228-238).
THEOREM NoFalseReuse == Spec => []ReuseIsReal
  <1>1. Inv => ReuseIsReal BY DEF Inv
  <1>2. QED BY Invariance, <1>1, PTL

-----------------------------------------------------------------------------
(* The composition with the hooks.                                         *)

\* A hook holds a row while it is busy, and waits for a request that presented it.
\* No two hooks wait for one request.
Calls ==
    /\ \A h \in Hooks :
        /\ task[h] = "idle" <=> holds[h] = None
        /\ holds[h] # None => Exists(holds[h])
        /\ task[h] = "called" <=> call[h] # None
        /\ call[h] # None => pc[call[h]] # "idle" /\ presented[call[h]] = holds[h]
    /\ \A g, h \in Hooks : call[g] # None /\ call[g] = call[h] => g = h
    /\ keyring # None => Exists(keyring)

\* A token that was or will be refused cannot be refreshed any more.
RefusedIsDead ==
    /\ \A r \in Refreshers :
        pc[r] \in {"reuse", "revoke"} => used[presented[r]] \/ revoked[presented[r]]
    /\ \A h \in Hooks : task[h] = "refused" => used[holds[h]] \/ ~Acceptable(holds[h])

\* A revocation under way has seen what there is to revoke, and there was something.
RevocationSees ==
    /\ \A r \in Refreshers :
        pc[r] = "revoke" /\ family[presented[r]] \notin raced =>
            Unrevoked(RowsOf(family[presented[r]])) \subseteq targets[r]
    /\ \A f \in detected : RowsOf(f) # {}

Spoiled(k) == family[k] \in spoiled

\* Unless hooks overlap or lose an answer, one hook at a time has tokens of a family, and
\* what the keyring holds of it meanwhile is what that hook has read.
HeldByOne ==
    /\ \A g, h \in Hooks :
        holds[g] # None /\ holds[h] # None /\ family[holds[g]] = family[holds[h]]
            => g = h \/ Spoiled(holds[h])
    /\ \A h \in Hooks :
        task[h] \in {"loaded", "called", "refused"} /\ keyring # None
                /\ family[keyring] = family[holds[h]]
            => keyring = holds[h] \/ Spoiled(keyring)

\* While the connector is not revoked and its hooks neither overlap nor lose an answer:
\* the tokens a hook has are the newest of their family, the requests in flight are that
\* hook's, and what the keyring holds is the newest unless it is being replaced.
Honest ==
    /\ detected \subseteq spoiled
    /\ \A k \in Credentials : revoked[k] => family[k] \in detected
    /\ \A r \in Refreshers : pc[r] \in {"reuse", "revoke"} => Spoiled(presented[r])
    /\ \A r \in Refreshers : pc[r] # "idle" => Spoiled(presented[r]) \/ Called(r)
    /\ \A h \in Hooks :
        task[h] \in {"loaded", "called", "got"} => ~used[holds[h]] \/ Spoiled(holds[h])
    /\ keyring # None =>
        \/ ~used[keyring]
        \/ Spoiled(keyring)
        \/ \E h \in Hooks : task[h] = "got" /\ family[holds[h]] = family[keyring]

TokensInv ==
    /\ Inv
    /\ TokensTypeOK
    /\ Calls
    /\ RefusedIsDead
    /\ RevocationSees
    /\ ReuseEndsFamily
    /\ HeldByOne
    /\ installation = "REVOKED" \/ Honest


\* Every step of the composition is one of the API, or hidden from it.
LEMMA StepIsHiddenOrApi ==
  ASSUME TokensTypeOK, Calls, TokensNext
  PROVE  [Next]_vars
  <1>1. ASSUME NEW h \in Hooks, Load(h) \/ Save(h) \/ Clear(h) \/ Lose(h)
        PROVE  UNCHANGED vars
    BY <1>1 DEF Load, Save, Clear, Lose
  <1>2. ASSUME NEW h \in Hooks, NEW r \in Refreshers, Present(h, r)
        PROVE  UNCHANGED vars \/ RefreshRead(r, holds[h])
    BY <1>2 DEF Present
  <1>3. ASSUME NEW h \in Hooks, NEW r \in Refreshers, Present(h, r), RefreshRead(r, holds[h])
        PROVE  Next
    <2>1. holds[h] \in Credentials
      BY <1>3 DEF Present, Calls, TokensTypeOK
    <2>2. QED
      BY <1>3, <2>1 DEF Next, Refresh
  <1>4. ASSUME NEW h \in Hooks, NEW f \in Families, NEW k \in Credentials, Connect(h, f, k)
        PROVE  Next
    BY <1>4 DEF Connect, Next
  <1>5. ASSUME NEW r \in Refreshers,
               Reused(r) \/ Failed(r) \/ \E k \in Credentials : Rotated(r, k)
        PROVE  Next
    BY <1>5 DEF Reused, Failed, Rotated, Next, Refresh
  <1>6. CASE Quiet
    BY <1>6 DEF Quiet, Next, Refresh
  <1>7. QED
    BY <1>1, <1>2, <1>3, <1>4, <1>5, <1>6 DEF TokensNext

-----------------------------------------------------------------------------

LEMMA InitTokensInv == TokensInit => TokensInv
  <1> SUFFICES ASSUME TokensInit PROVE TokensInv
    OBVIOUS
  <1>1. Inv
    BY InitInv DEF TokensInit
  <1>2. HeldByOne
    BY DEF TokensInit, HeldByOne
  <1>3. QED
    BY <1>1, <1>2, NoneAssumption
    DEF TokensInit, Init, TokensInv, Inv, TokensTypeOK, Calls, RefusedIsDead, RevocationSees,
        ReuseEndsFamily, Honest

LEMMA TokensTypeStep == ASSUME TokensInv, TokensNext PROVE TokensTypeOK'
  <1>1. TypeOK'
    BY NextInv, StepIsHiddenOrApi DEF TokensInv, Inv
  <1> USE DEF TokensInv, TokensTypeOK, Hook, Rest, Spoil, hookVars
  <1>2. ASSUME NEW h \in Hooks, NEW f \in Families, NEW k \in Credentials, Connect(h, f, k)
        PROVE  TokensTypeOK'
    BY <1>1, <1>2 DEF Connect
  <1>3. ASSUME NEW h \in Hooks, Load(h) \/ Save(h) \/ Clear(h) \/ Lose(h)
        PROVE  TokensTypeOK'
    <2>1. CASE Load(h)
      <3>1. keyring \in Credentials /\ family[keyring] \in Families
        BY <2>1 DEF Load, Calls, Exists, TypeOK
      <3>2. QED
        BY <1>1, <2>1, <3>1 DEF Load
    <2>2. CASE Lose(h)
      <3>1. task[h] \in {"called", "got"} => family[holds[h]] \in Families
        BY <2>2, NoneAssumption DEF Calls, Exists, TypeOK
      <3>2. QED
        BY <1>1, <2>2, <3>1 DEF Lose
    <2>3. CASE Save(h)
      BY <1>1, <2>3 DEF Save, Written
    <2>4. CASE Clear(h)
      BY <1>1, <2>4 DEF Clear
    <2>5. QED
      BY <1>3, <2>1, <2>2, <2>3, <2>4
  <1>4. ASSUME NEW h \in Hooks, NEW r \in Refreshers, Present(h, r)
        PROVE  TokensTypeOK'
    BY <1>1, <1>4 DEF Present
  <1>5. ASSUME NEW r \in Refreshers, NEW k \in Credentials, Rotated(r, k)
        PROVE  TokensTypeOK'
    <2>1. family[presented[r]] \in Families
      BY <1>5 DEF Rotated, RefreshCommit, Inv, LockedByClaim, Exists, TypeOK
    <2>2. QED
      BY <1>1, <1>5, <2>1 DEF Rotated, AfterError
  <1>6. ASSUME NEW r \in Refreshers, Reused(r) \/ Failed(r)
        PROVE  TokensTypeOK'
    BY <1>1, <1>6 DEF Reused, Failed, AfterError
  <1>7. CASE Quiet
    BY <1>1, <1>7 DEF Quiet
  <1>8. QED
    BY <1>2, <1>3, <1>4, <1>5, <1>6, <1>7 DEF TokensNext

\* Rows stay in their family; the API changes only the request it works on.
LEMMA ApiSteps ==
  ASSUME Inv, [Next]_vars
  PROVE  /\ \A k \in Credentials : Exists(k) => family'[k] = family[k]
         /\ \A k \in Credentials : used[k] => used'[k]
         /\ \A k \in Credentials : revoked[k] => revoked'[k]
         /\ \A k \in Credentials : Exists(k) /\ ~refreshLive[k] => ~refreshLive'[k]
  <1> USE NoneAssumption DEF Inv, TypeOK, Exists, rows, refreshVars
  <1>1. ASSUME NEW f \in Families, NEW k \in Credentials, Issue(f, k)
        PROVE  /\ \A j \in Credentials : Exists(j) => family'[j] = family[j]
               /\ \A j \in Credentials : Exists(j) /\ ~refreshLive[j] => ~refreshLive'[j]
               /\ used' = used /\ revoked' = revoked
    BY <1>1 DEF Issue, Insert
  <1>2. ASSUME NEW r \in Refreshers, NEW k \in Credentials, RefreshCommit(r, k)
        PROVE  /\ \A j \in Credentials : Exists(j) => family'[j] = family[j]
               /\ \A j \in Credentials : Exists(j) /\ ~refreshLive[j] => ~refreshLive'[j]
               /\ \A j \in Credentials : used[j] => used'[j]
               /\ revoked' = revoked
    BY <1>2 DEF RefreshCommit, Successor, Insert
  <1>3. ASSUME NEW k \in Credentials, ExpireRefresh(k)
        PROVE  /\ family' = family /\ used' = used /\ revoked' = revoked
               /\ \A j \in Credentials : ~refreshLive[j] => ~refreshLive'[j]
    BY <1>3 DEF ExpireRefresh
  <1>4. ASSUME \/ AdminRead \/ AdminCommit
               \/ \E r \in Refreshers : RefreshClaim(r) \/ ReuseRead(r) \/ ReuseCommit(r)
                                        \/ RefreshAbort(r) \/ \E k \in Credentials : RefreshRead(r, k)
        PROVE  /\ family' = family /\ used' = used /\ refreshLive' = refreshLive
               /\ \A j \in Credentials : revoked[j] => revoked'[j]
    BY <1>4 DEF AdminRead, AdminCommit, RefreshClaim, ReuseRead, ReuseCommit, RefreshAbort,
                RefreshRead, Revoke
  <1>5. CASE UNCHANGED vars
    BY <1>5 DEF vars
  <1>6. QED
    BY <1>1, <1>2, <1>3, <1>4, <1>5 DEF Next, Refresh


LEMMA CallsStep == ASSUME TokensInv, TokensNext PROVE Calls'
  <1>a. Inv /\ [Next]_vars
    BY StepIsHiddenOrApi DEF TokensInv
  <1>b. \A k \in Credentials : Exists(k) => Exists(k)'
    BY <1>a, ApiSteps, NoneAssumption DEF Exists, Inv, TypeOK
  <1>c. TypeOK
    BY <1>a DEF Inv
  <1>d. \A h \in Hooks : holds[h] # None => holds[h] \in Credentials /\ Exists(holds[h])
    BY DEF TokensInv, TokensTypeOK, Calls
  <1>e. keyring # None => keyring \in Credentials /\ Exists(keyring)
    BY DEF TokensInv, TokensTypeOK, Calls
  <1> USE NoneAssumption DEF TokensInv, TokensTypeOK, TypeOK, Calls, Hook, Rest
  <1>1. ASSUME NEW h \in Hooks, NEW f \in Families, NEW k \in Credentials, Connect(h, f, k)
        PROVE  Calls'
    <2>1. Exists(k)' /\ UNCHANGED <<pc, presented>>
      BY <1>1, <1>c DEF Connect, Issue, Insert, Exists, refreshVars
    <2>2. QED
      BY <1>1, <1>b, <1>c, <1>d, <1>e, <2>1 DEF Connect
  <1>2. ASSUME NEW h \in Hooks, Load(h) \/ Save(h) \/ Clear(h) \/ Lose(h)
        PROVE  Calls'
    <2>1. UNCHANGED <<pc, presented, family>>
      BY <1>2 DEF Load, Save, Clear, Lose, vars, refreshVars, rows
    <2>2. CASE Load(h)
      BY <1>b, <1>d, <1>e, <2>1, <2>2 DEF Load
    <2>3. CASE Save(h)
      BY <1>b, <1>d, <1>e, <2>1, <2>3 DEF Save, Written
    <2>4. CASE Clear(h) \/ Lose(h)
      BY <1>b, <1>d, <1>e, <2>1, <2>4 DEF Clear, Lose
    <2>5. QED
      BY <1>2, <2>2, <2>3, <2>4
  <1>3. ASSUME NEW h \in Hooks, NEW r \in Refreshers, Present(h, r)
        PROVE  Calls'
    <2>1. CASE RefreshRead(r, holds[h])
      <3>1. /\ \A q \in Refreshers : q # r => pc'[q] = pc[q] /\ presented'[q] = presented[q]
            /\ pc[r] = "idle" /\ pc'[r] = "claim" /\ presented'[r] = holds[h]
        BY <1>c, <2>1 DEF RefreshRead
      <3>2. \A g \in Hooks : call[g] # r
        BY <3>1
      <3>3. task[h] = "loaded" /\ holds[h] # None /\ call[h] = None
        BY <1>3 DEF Present
      <3>4. Hook(h, "called", holds[h], r) /\ UNCHANGED keyring
        BY <1>3, <2>1, <3>1, <3>2 DEF Present, vars, refreshVars
      <3>5. QED
        BY <1>b, <1>d, <1>e, <3>1, <3>2, <3>3, <3>4
    <2>2. CASE ~RefreshRead(r, holds[h])
      BY <1>3, <1>b, <1>d, <1>e, <2>2 DEF Present, vars, refreshVars
    <2>3. QED
      BY <2>1, <2>2
  <1>4. ASSUME NEW r \in Refreshers, NEW k \in Credentials, Rotated(r, k)
        PROVE  Calls'
    <2>1. /\ Exists(k)'
          /\ \A q \in Refreshers : q # r => pc'[q] = pc[q] /\ presented'[q] = presented[q]
      <3>1. family[presented[r]] # None
        BY <1>4, <1>a DEF Rotated, RefreshCommit, Inv, LockedByClaim, Exists
      <3>2. QED
        BY <1>4, <1>c, <3>1 DEF Rotated, RefreshCommit, Successor, Insert, Return, Exists
    <2>2. QED
      BY <1>4, <1>b, <1>d, <1>e, <2>1 DEF Rotated, AfterError, Called
  <1>5. ASSUME NEW r \in Refreshers, Reused(r) \/ Failed(r)
        PROVE  Calls'
    <2>1. \A q \in Refreshers : q # r => pc'[q] = pc[q] /\ presented'[q] = presented[q]
      BY <1>5, <1>c DEF Reused, Failed, ReuseCommit, RefreshAbort, Return
    <2>2. CASE Reused(r)
      BY <1>b, <1>d, <1>e, <2>1, <2>2 DEF Reused, AfterError, Called
    <2>3. CASE Failed(r)
      BY <1>b, <1>d, <1>e, <2>1, <2>3 DEF Failed, AfterError, Called
    <2>4. QED
      BY <1>5, <2>2, <2>3
  <1>6. CASE Quiet
    <2>1. /\ presented' = presented
          /\ \A r \in Refreshers : pc[r] # "idle" => pc'[r] # "idle"
      BY <1>6, <1>c DEF Quiet, RefreshClaim, ReuseRead, AdminRead, AdminCommit, ExpireRefresh,
                        refreshVars
    <2>2. QED
      BY <1>6, <1>b, <1>d, <1>e, <2>1 DEF Quiet, hookVars
  <1>7. QED
    BY <1>1, <1>2, <1>3, <1>4, <1>5, <1>6 DEF TokensNext

LEMMA RefusedIsDeadStep == ASSUME TokensInv, TokensNext PROVE RefusedIsDead'
  <1>a. Inv /\ TypeOK /\ [Next]_vars
    BY StepIsHiddenOrApi DEF TokensInv, Inv
  <1>b. \A k \in Credentials : Exists(k) /\ (used[k] \/ ~Acceptable(k))
                               => (used[k] \/ ~Acceptable(k))'
    BY <1>a, ApiSteps DEF Acceptable, TypeOK
  <1>c. \A r \in Refreshers :
          pc[r] # "idle" => presented[r] \in Credentials /\ Exists(presented[r])
    BY <1>a DEF Inv, LockedByClaim
  <1>d. \A h \in Hooks : task[h] # "idle" => holds[h] \in Credentials /\ Exists(holds[h])
    BY DEF TokensInv, TokensTypeOK, Calls
  <1>1. \A r \in Refreshers :
          pc'[r] \in {"reuse", "revoke"} => used'[presented'[r]] \/ revoked'[presented'[r]]
    <2> SUFFICES ASSUME NEW r \in Refreshers, pc'[r] \in {"reuse", "revoke"}
                 PROVE  used'[presented'[r]] \/ revoked'[presented'[r]]
      OBVIOUS
    <2>1. ASSUME pc[r] \in {"reuse", "revoke"}, presented'[r] = presented[r]
          PROVE  used'[presented'[r]] \/ revoked'[presented'[r]]
      BY <1>a, <1>c, <2>1, ApiSteps DEF TokensInv, RefusedIsDead
    <2>2. CASE Quiet
      <3>1. CASE RefreshClaim(r)
        BY <1>a, <3>1 DEF RefreshClaim, Claimable, TypeOK, rows
      <3>2. CASE ~RefreshClaim(r)
        BY <1>a, <2>1, <2>2, <3>2
        DEF Quiet, RefreshClaim, ReuseRead, AdminRead, AdminCommit, ExpireRefresh, refreshVars,
            TypeOK
      <3>3. QED
        BY <3>1, <3>2
    <2>3. CASE ~Quiet
      <3>1. pc[r] = pc'[r] /\ presented'[r] = presented[r]
        BY <1>a, <2>3
        DEF TokensNext, Load, Save, Clear, Lose, Present, Connect, Issue, Reused, Failed, Rotated,
            RefreshRead, RefreshCommit, ReuseCommit, RefreshAbort, Return, vars, refreshVars,
            TypeOK
      <3>2. QED
        BY <2>1, <3>1
    <2>4. QED
      BY <2>2, <2>3
  <1>2. \A h \in Hooks : task'[h] = "refused" => (used[holds[h]] \/ ~Acceptable(holds[h]))'
    <2> SUFFICES ASSUME NEW h \in Hooks, task'[h] = "refused"
                 PROVE  (used[holds[h]] \/ ~Acceptable(holds[h]))'
      OBVIOUS
    <2>1. CASE task[h] = "refused" /\ holds'[h] = holds[h]
      BY <1>b, <1>d, <2>1 DEF TokensInv, RefusedIsDead
    <2>2. ASSUME NEW r \in Refreshers, Present(h, r)
          PROVE  (used[holds[h]] \/ ~Acceptable(holds[h]))'
      <3>1. task[h] = "loaded" /\ holds'[h] = holds[h] /\ ~Acceptable(holds[h])
        BY <2>2 DEF Present, Hook, TokensInv, TokensTypeOK
      <3>2. QED
        BY <1>b, <1>d, <3>1
    <2>3. ASSUME NEW r \in Refreshers, Reused(r), call[h] = r
          PROVE  (used[holds[h]] \/ ~Acceptable(holds[h]))'
      <3>1. holds'[h] = holds[h] /\ holds[h] = presented[r] /\ pc[r] = "revoke"
        BY <2>3, NoneAssumption
        DEF Reused, ReuseCommit, Hook, Rest, AfterError, TokensInv, TokensTypeOK, Calls
      <3>2. used[holds[h]] \/ ~Acceptable(holds[h])
        BY <3>1 DEF TokensInv, RefusedIsDead, Acceptable
      <3>3. QED
        BY <1>b, <1>c, <3>1, <3>2
    <2>4. CASE /\ \A r \in Refreshers : ~Present(h, r) /\ ~(Reused(r) /\ call[h] = r)
               /\ ~(task[h] = "refused" /\ holds'[h] = holds[h])
      BY <2>4
      DEF TokensNext, Load, Save, Clear, Lose, Present, Connect, Reused, Failed, AfterError,
          Rotated, Quiet, Hook, Rest, hookVars, TokensInv, TokensTypeOK
    <2>5. QED
      BY <2>1, <2>2, <2>3, <2>4
  <1>3. QED
    BY <1>1, <1>2 DEF RefusedIsDead

\* A row that appears in a family after its revocation was answered, or after a
\* revocation of it saw its rows, came from a rotation that raced with the revocation.
LEMMA RevocationStep == ASSUME TokensInv, TokensNext PROVE RevocationSees' /\ ReuseEndsFamily'
  <1>a. Inv /\ TypeOK
    BY DEF TokensInv, Inv
  <1>b. /\ \A k \in Credentials : Exists(k) => family'[k] = family[k]
        /\ \A k \in Credentials : revoked[k] => revoked'[k]
    BY <1>a, StepIsHiddenOrApi, ApiSteps DEF TokensInv
  <1>c. \A r \in Refreshers :
          pc[r] # "idle" => presented[r] \in Credentials /\ Exists(presented[r])
    BY <1>a DEF Inv, LockedByClaim
  <1> DEFINE Same == family' = family /\ detected' = detected /\ raced' = raced
             Waits(r) == /\ pc'[r] = "revoke" => pc[r] = "revoke"
                         /\ pc[r] = "revoke" /\ pc'[r] = "revoke" =>
                                presented'[r] = presented[r] /\ targets'[r] = targets[r]
  <1> USE DEF RowsOf, Unrevoked
  <1>1. ASSUME Same, \A r \in Refreshers : Waits(r)
        PROVE  RevocationSees' /\ ReuseEndsFamily'
    BY <1>1, <1>b DEF TokensInv, RevocationSees, ReuseEndsFamily
  <1>2. ASSUME NEW h \in Hooks, NEW f \in Families, NEW k \in Credentials, Connect(h, f, k)
        PROVE  RevocationSees' /\ ReuseEndsFamily'
    <2>1. /\ \A j \in Credentials : family[j] # f
          /\ family' = [family EXCEPT ![k] = f] /\ ~Exists(k)
          /\ UNCHANGED <<revoked, pc, presented, targets, detected, raced>>
      BY <1>2 DEF Connect, Issue, Insert, refreshVars
    <2>2. f \notin detected
      BY <2>1 DEF TokensInv, RevocationSees
    <2>3. ReuseEndsFamily'
      BY <1>a, <2>1, <2>2 DEF TokensInv, ReuseEndsFamily, TypeOK
    <2>4. \A g \in detected : RowsOf(g)' # {}
      BY <1>b, <2>1, NoneAssumption, <1>a DEF TokensInv, RevocationSees, Exists, TypeOK
    <2>5. QED
      BY <1>a, <1>c, <2>1, <2>3, <2>4 DEF TokensInv, RevocationSees, TypeOK
  <1>3. ASSUME NEW r \in Refreshers, NEW k \in Credentials, Rotated(r, k)
        PROVE  RevocationSees' /\ ReuseEndsFamily'
    <2> DEFINE f == family[presented[r]]
    <2>1. /\ family' = [family EXCEPT ![k] = f] /\ ~Exists(k)
          /\ UNCHANGED <<revoked, detected>>
          /\ pc[r] = "rotate" /\ pc'[r] = "idle"
          /\ \A q \in Refreshers \ {r} :
                pc'[q] = pc[q] /\ presented'[q] = presented[q] /\ targets'[q] = targets[q]
          /\ raced \subseteq raced'
          /\ \A q \in Refreshers : pc[q] = "revoke" /\ family[presented[q]] = f => f \in raced'
      <3>1. f \in Families
        BY <1>3, <1>a, <1>c DEF Rotated, RefreshCommit, Exists, TypeOK
      <3>2. QED
        BY <1>3, <1>a, <3>1 DEF Rotated, RefreshCommit, Successor, Insert, Return, TypeOK
    <2>2. presented[r] \in RowsOf(f) /\ ~revoked[presented[r]]
      BY <1>a, <2>1 DEF Inv, LockedByClaim
    <2>3. ReuseEndsFamily'
      BY <1>a, <2>1, <2>2 DEF TokensInv, ReuseEndsFamily, TypeOK
    <2>4. \A g \in detected : RowsOf(g)' # {}
      BY <1>b, <2>1, NoneAssumption, <1>a DEF TokensInv, RevocationSees, Exists, TypeOK
    <2>5. ASSUME NEW q \in Refreshers, pc'[q] = "revoke", family'[presented'[q]] \notin raced'
          PROVE  Unrevoked(RowsOf(family[presented[q]]))' \subseteq targets'[q]
      <3>1. q # r /\ presented'[q] = presented[q] /\ family[presented[q]] # f
            /\ family'[presented[q]] = family[presented[q]] /\ pc[q] = "revoke"
        BY <1>b, <1>c, <2>1, <2>5
      <3>2. QED
        BY <1>a, <2>1, <2>5, <3>1 DEF TokensInv, RevocationSees, TypeOK
    <2>6. QED
      BY <2>1, <2>3, <2>4, <2>5 DEF RevocationSees
  <1>4. ASSUME NEW r \in Refreshers, Reused(r)
        PROVE  RevocationSees' /\ ReuseEndsFamily'
    <2> DEFINE f == family[presented[r]]
    <2>1. /\ UNCHANGED <<family, raced>> /\ detected' = detected \cup {f}
          /\ \A k \in Credentials : revoked'[k] = (revoked[k] \/ k \in targets[r])
          /\ pc[r] = "revoke" /\ pc'[r] = "idle"
          /\ \A q \in Refreshers \ {r} :
                pc'[q] = pc[q] /\ presented'[q] = presented[q] /\ targets'[q] = targets[q]
      BY <1>4, <1>a DEF Reused, ReuseCommit, Revoke, Return, TypeOK
    <2>2. presented[r] \in RowsOf(f)
      BY <1>c, <2>1
    <2>3. ASSUME NEW g \in detected' \ raced', NEW k \in Credentials, family'[k] = g
          PROVE  revoked'[k]
      <3>1. CASE g = f
        BY <2>1, <2>3, <3>1 DEF TokensInv, RevocationSees
      <3>2. CASE g \in detected
        BY <2>1, <2>3, <3>2 DEF TokensInv, ReuseEndsFamily
      <3>3. QED
        BY <2>1, <2>3, <3>1, <3>2
    <2>4. ReuseEndsFamily'
      BY <2>3 DEF ReuseEndsFamily
    <2>5. ASSUME NEW q \in Refreshers, pc'[q] = "revoke", family'[presented'[q]] \notin raced'
          PROVE  Unrevoked(RowsOf(family[presented[q]]))' \subseteq targets'[q]
      BY <1>b, <2>1, <2>5 DEF TokensInv, RevocationSees
    <2>6. \A g \in detected' : RowsOf(g)' # {}
      BY <2>1, <2>2 DEF TokensInv, RevocationSees
    <2>7. QED
      BY <2>4, <2>5, <2>6 DEF RevocationSees
  <1>5. ASSUME NEW r \in Refreshers, ReuseRead(r), Quiet
        PROVE  RevocationSees' /\ ReuseEndsFamily'
    <2>1. /\ Same /\ revoked' = revoked /\ presented' = presented
          /\ targets'[r] = Unrevoked(RowsOf(family[presented[r]]))
          /\ \A q \in Refreshers \ {r} : Waits(q)
      BY <1>5, <1>a DEF ReuseRead, Revocable, Quiet, rows, TypeOK
    <2>2. QED
      BY <2>1 DEF TokensInv, RevocationSees, ReuseEndsFamily
  <1>6. CASE /\ \A r \in Refreshers : ~(ReuseRead(r) /\ Quiet) /\ ~Reused(r)
                                      /\ \A k \in Credentials : ~Rotated(r, k)
             /\ \A h \in Hooks, f \in Families, k \in Credentials : ~Connect(h, f, k)
    <2>1. ASSUME NEW h \in Hooks,
                 \/ Load(h) \/ Save(h) \/ Clear(h) \/ Lose(h)
                 \/ \E r \in Refreshers : Present(h, r)
          PROVE  Same /\ \A r \in Refreshers : Waits(r)
      BY <2>1, <1>a DEF Load, Save, Clear, Lose, Present, RefreshRead, vars, refreshVars, rows,
                        TypeOK
    <2>2. ASSUME NEW r \in Refreshers, Failed(r)
          PROVE  Same /\ \A q \in Refreshers : Waits(q)
      BY <2>2, <1>a DEF Failed, RefreshAbort, Return, rows, TypeOK
    <2>3. ASSUME Quiet
          PROVE  Same /\ \A r \in Refreshers : Waits(r)
      BY <2>3, <1>6, <1>a DEF Quiet, RefreshClaim, AdminRead, AdminCommit, ExpireRefresh,
                              refreshVars, rows, TypeOK
    <2>4. QED
      BY <1>1, <1>6, <2>1, <2>2, <2>3 DEF TokensNext
  <1>7. QED
    BY <1>2, <1>3, <1>4, <1>5, <1>6

\* What the steps below share: the rows in use exist, and stay in their
\* family, spoiled or not.
LEMMA HonestFacts ==
  ASSUME TokensInv, TokensNext
  PROVE  /\ TypeOK
         /\ \A h \in Hooks : holds[h] # None => holds[h] \in Credentials /\ Exists(holds[h])
         /\ \A h \in Hooks : task[h] = "idle" <=> holds[h] = None
         /\ \A r \in Refreshers :
                pc[r] # "idle" => presented[r] \in Credentials /\ Exists(presented[r])
         /\ keyring # None => keyring \in Credentials /\ Exists(keyring)
         /\ \A k \in Credentials : Exists(k) => family'[k] = family[k]
         /\ \A k \in Credentials : revoked[k] => Exists(k)
         /\ \A k \in Credentials : Exists(k) /\ Spoiled(k) => Spoiled(k)'
  <1>1. \A k \in Credentials : Exists(k) => family'[k] = family[k]
    BY StepIsHiddenOrApi, ApiSteps DEF TokensInv
  <1>2. spoiled \subseteq spoiled'
    BY DEF TokensNext, Load, Save, Clear, Lose, Present, Connect, Rotated, Reused, Failed, Quiet,
           Spoil
  <1>3. QED
    BY <1>1, <1>2
    DEF Spoiled, TokensInv, TokensTypeOK, Calls, Inv, LockedByClaim, AbsentIsBlank

\* A hook that reads tokens another hook holds spoils the family; the tokens of a new
\* family, and those of a rotation, go to one hook.
LEMMA HeldByOneStep == ASSUME TokensInv, TokensNext PROVE HeldByOne'
  <1> USE HonestFacts, NoneAssumption DEF TokensInv, TokensTypeOK
  <1>1. ASSUME keyring' = keyring,
               \A g \in Hooks :
                  \/ holds'[g] = None /\ task'[g] = "idle"
                  \/ /\ holds'[g] = holds[g]
                     /\ task'[g] \in {"loaded", "called", "refused"}
                           => task[g] \in {"loaded", "called", "refused"}
        PROVE  HeldByOne'
    <2>1. ASSUME NEW g \in Hooks, NEW h \in Hooks, holds'[g] # None, holds'[h] # None,
                 family'[holds'[g]] = family'[holds'[h]], g # h
          PROVE  Spoiled(holds[h])'
      BY <1>1, <2>1 DEF HeldByOne
    <2>2. ASSUME NEW h \in Hooks, task'[h] \in {"loaded", "called", "refused"},
                 keyring # None, family'[keyring] = family'[holds'[h]]
          PROVE  keyring = holds'[h] \/ Spoiled(keyring)'
      BY <1>1, <2>2 DEF HeldByOne
    <2>3. QED
      BY <1>1, <2>1, <2>2 DEF HeldByOne
  <1>2. ASSUME NEW h \in Hooks, Load(h)
        PROVE  HeldByOne'
    <2>1. /\ \A g \in Hooks \ {h} : task'[g] = task[g] /\ holds'[g] = holds[g]
          /\ task[h] = "idle" /\ holds'[h] = keyring /\ keyring' = keyring /\ keyring # None
          /\ family' = family
          /\ (\E g \in Hooks : holds[g] # None /\ family[holds[g]] = family[keyring])
                => family[keyring] \in spoiled'
      BY <1>2 DEF Load, Hook, Spoil, Spoiled, vars, rows
    <2>2. QED
      BY <2>1 DEF HeldByOne, Spoiled
  <1>3. ASSUME NEW h \in Hooks, Save(h) \/ Clear(h)
        PROVE  HeldByOne'
    <2>1. /\ \A g \in Hooks \ {h} : task'[g] = task[g] /\ holds'[g] = holds[g]
          /\ task[h] # "idle" /\ task'[h] = "idle" /\ holds'[h] = None
          /\ keyring' = holds[h] \/ keyring' = None
          /\ UNCHANGED <<family, spoiled>>
      BY <1>3 DEF Save, Clear, Written, Hook, Rest, vars, rows
    <2>2. ASSUME NEW e \in Hooks, NEW g \in Hooks, holds'[e] # None, holds'[g] # None,
                 family'[holds'[e]] = family'[holds'[g]], e # g
          PROVE  Spoiled(holds[g])'
      BY <2>1, <2>2 DEF HeldByOne, Spoiled
    <2>3. ASSUME NEW g \in Hooks, task'[g] \in {"loaded", "called", "refused"},
                 keyring' # None, family'[keyring'] = family'[holds'[g]]
          PROVE  Spoiled(keyring)'
      <3>1. g # h /\ holds[g] # None /\ holds[h] # None /\ family[holds[h]] = family[holds[g]]
        BY <2>1, <2>3
      <3>2. QED
        BY <2>1, <2>3, <3>1 DEF HeldByOne, Spoiled
    <2>4. QED
      BY <2>2, <2>3 DEF HeldByOne
  <1>4. ASSUME NEW h \in Hooks, NEW f \in Families, NEW k \in Credentials, Connect(h, f, k)
        PROVE  HeldByOne'
    <2>1. /\ \A j \in Credentials : Exists(j) => family'[j] # f
          /\ family'[k] = f
          /\ \A g \in Hooks \ {h} : task'[g] = task[g] /\ holds'[g] = holds[g]
          /\ task'[h] = "got" /\ holds'[h] = k /\ keyring' = keyring
      BY <1>4 DEF Connect, Issue, Insert, RowsOf, Hook, TypeOK, Exists
    <2>2. ASSUME NEW e \in Hooks, NEW g \in Hooks, holds'[e] # None, holds'[g] # None,
                 family'[holds'[e]] = family'[holds'[g]], e # g
          PROVE  Spoiled(holds[g])'
      <3>1. e # h /\ g # h
        BY <2>1, <2>2
      <3>2. QED
        BY <2>1, <2>2, <3>1 DEF HeldByOne
    <2>3. ASSUME NEW g \in Hooks, task'[g] \in {"loaded", "called", "refused"},
                 keyring # None, family'[keyring] = family'[holds'[g]]
          PROVE  keyring = holds'[g] \/ Spoiled(keyring)'
      <3>1. g # h /\ holds[g] # None /\ task'[g] = task[g] /\ holds'[g] = holds[g]
        BY <2>1, <2>3
      <3>2. QED
        BY <2>1, <2>3, <3>1 DEF HeldByOne
    <2>4. QED
      BY <2>1, <2>2, <2>3 DEF HeldByOne
  <1>5. ASSUME NEW r \in Refreshers, NEW k \in Credentials, Rotated(r, k)
        PROVE  HeldByOne'
    <2>1. /\ ~Exists(k) /\ family'[k] = family[presented[r]] /\ keyring' = keyring
          /\ pc[r] # "idle"
      BY <1>5 DEF Rotated, RefreshCommit, Successor, Insert, Exists, TypeOK
    <2>2. CASE \E h \in Hooks : call[h] = r /\ Hook(h, "got", k, None)
      <3>1. PICK h \in Hooks : call[h] = r /\ Hook(h, "got", k, None)
        BY <2>2
      <3>2. /\ \A g \in Hooks \ {h} : task'[g] = task[g] /\ holds'[g] = holds[g]
            /\ task'[h] = "got" /\ holds'[h] = k
            /\ holds[h] # None /\ family'[k] = family[holds[h]]
        BY <2>1, <3>1 DEF Hook, Calls
      <3>3. \A g \in Hooks \ {h} :
              holds[g] # None /\ family[holds[g]] = family[holds[h]]
                  => Spoiled(holds[g])' /\ family'[k] \in spoiled'
        BY <3>2 DEF HeldByOne, Spoiled
      <3>4. ASSUME NEW e \in Hooks, NEW g \in Hooks, holds'[e] # None, holds'[g] # None,
                   family'[holds'[e]] = family'[holds'[g]], e # g
            PROVE  Spoiled(holds[g])'
        <4>1. CASE g = h
          BY <3>2, <3>3, <3>4, <4>1 DEF Spoiled
        <4>2. CASE e = h
          BY <3>2, <3>3, <3>4, <4>2
        <4>3. CASE e # h /\ g # h
          BY <3>2, <3>4, <4>3 DEF HeldByOne
        <4>4. QED
          BY <4>1, <4>2, <4>3
      <3>5. ASSUME NEW g \in Hooks, task'[g] \in {"loaded", "called", "refused"},
                   keyring # None, family'[keyring] = family'[holds'[g]]
            PROVE  keyring = holds'[g] \/ Spoiled(keyring)'
        <4>1. g # h /\ holds[g] # None /\ task'[g] = task[g] /\ holds'[g] = holds[g]
          BY <3>2, <3>5
        <4>2. QED
          BY <2>1, <3>5, <4>1 DEF HeldByOne
      <3>6. QED
        BY <2>1, <3>4, <3>5 DEF HeldByOne
    <2>3. CASE ~\E h \in Hooks : call[h] = r /\ Hook(h, "got", k, None)
      BY <1>1, <1>5, <2>1, <2>3 DEF Rotated, AfterError, Hook, Rest
    <2>4. QED
      BY <2>2, <2>3
  <1>6. ASSUME NEW r \in Refreshers, Reused(r) \/ Failed(r)
        PROVE  HeldByOne'
    BY <1>1, <1>6 DEF Reused, Failed, AfterError, Hook, Rest, Calls
  <1>7. ASSUME NEW h \in Hooks, Lose(h) \/ \E r \in Refreshers : Present(h, r)
        PROVE  HeldByOne'
    BY <1>1, <1>7 DEF Lose, Present, Hook, Rest
  <1>8. CASE Quiet
    BY <1>1, <1>8 DEF Quiet, hookVars
  <1>9. QED
    BY <1>2, <1>3, <1>4, <1>5, <1>6, <1>7, <1>8 DEF TokensNext

\* What a hook does alone leaves the API as it is.
LEMMA HonestHookStep ==
  ASSUME TokensInv, TokensNext, Honest, NEW h \in Hooks,
         Load(h) \/ Save(h) \/ Clear(h) \/ Lose(h)
  PROVE  Honest'
  <1> USE HonestFacts, NoneAssumption DEF Hook, Rest, Spoil, TokensInv, TokensTypeOK
  <1>1. UNCHANGED <<family, used, revoked, pc, presented, detected>>
    BY DEF Load, Save, Clear, Lose, vars, refreshVars, rows
  <1>2. spoiled \subseteq spoiled'
    BY DEF Load, Save, Clear, Lose
  <1>3. (detected \subseteq spoiled)' /\ (\A k \in Credentials : revoked[k] => family[k] \in detected)'
    BY <1>1, <1>2 DEF Honest
  <1>4. (\A r \in Refreshers : pc[r] \in {"reuse", "revoke"} => Spoiled(presented[r]))'
    BY <1>1, <1>2 DEF Honest, Spoiled
  <1>5. CASE Load(h)
    <2>1. /\ \A g \in Hooks \ {h} : /\ task'[g] = task[g] /\ holds'[g] = holds[g]
                                    /\ call'[g] = call[g]
          /\ task[h] = "idle" /\ call[h] = None
          /\ task'[h] = "loaded" /\ holds'[h] = keyring /\ keyring' = keyring /\ keyring # None
          /\ (\E g \in Hooks : holds[g] # None /\ family[holds[g]] = family[keyring])
                => Spoiled(keyring)'
      BY <1>1, <1>5 DEF Load, Calls, Spoiled
    <2>2. (\A r \in Refreshers : pc[r] # "idle" => Spoiled(presented[r]) \/ Called(r))'
      BY <1>1, <1>2, <2>1 DEF Honest, Spoiled, Called
    <2>3. ~used[keyring] \/ Spoiled(keyring)'
      BY <1>1, <1>2, <2>1 DEF Honest, Spoiled, Calls
    <2>4. (\A g \in Hooks :
            task[g] \in {"loaded", "called", "got"} => ~used[holds[g]] \/ Spoiled(holds[g]))'
      BY <1>1, <1>2, <2>1, <2>3 DEF Honest, Spoiled
    <2>5. QED
      BY <1>1, <1>3, <1>4, <2>1, <2>2, <2>3, <2>4 DEF Honest
  <1>6. CASE Save(h) \/ Clear(h) \/ Lose(h)
    <2>1. /\ \A g \in Hooks \ {h} : /\ task'[g] = task[g] /\ holds'[g] = holds[g]
                                    /\ call'[g] = call[g]
          /\ task'[h] = "idle" /\ holds'[h] = None /\ call'[h] = None
      BY <1>6 DEF Save, Clear, Lose
    <2>2. task[h] \in {"called", "got"} =>
            (task[h] = "got" /\ keyring' = holds[h]) \/ family[holds[h]] \in spoiled'
      BY <1>1, <1>6 DEF Save, Clear, Lose, Written, Spoiled
    <2>3. (\A r \in Refreshers : pc[r] # "idle" => Spoiled(presented[r]) \/ Called(r))'
      <3> SUFFICES ASSUME NEW r \in Refreshers, pc[r] # "idle", ~Spoiled(presented[r])
                   PROVE  Spoiled(presented[r])' \/ Called(r)'
        BY <1>1, <1>2 DEF Spoiled
      <3>1. PICK g \in Hooks : call[g] = r
        BY DEF Honest, Called
      <3>2. CASE g = h
        BY <1>1, <2>2, <3>1, <3>2 DEF Calls, Spoiled
      <3>3. QED
        BY <2>1, <3>1, <3>2 DEF Called
    <2>4. (\A g \in Hooks :
            task[g] \in {"loaded", "called", "got"} => ~used[holds[g]] \/ Spoiled(holds[g]))'
      BY <1>1, <1>2, <2>1 DEF Honest, Spoiled
    <2>5. (keyring # None =>
            \/ ~used[keyring] \/ Spoiled(keyring)
            \/ \E g \in Hooks : task[g] = "got" /\ family[holds[g]] = family[keyring])'
      <3>1. CASE keyring' = None
        BY <3>1
      <3>2. CASE task[h] = "got" /\ keyring' = holds[h]
        BY <1>1, <1>2, <3>2 DEF Honest, Spoiled
      <3>3. CASE keyring' = keyring /\ keyring # None
        <4>1. CASE ~used[keyring] \/ Spoiled(keyring)
          BY <1>1, <1>2, <3>3, <4>1 DEF Spoiled
        <4>2. ASSUME NEW g \in Hooks, task[g] = "got", family[holds[g]] = family[keyring]
              PROVE  \/ ~used'[keyring] \/ Spoiled(keyring)'
                     \/ \E f \in Hooks : task'[f] = "got" /\ family'[holds'[f]] = family'[keyring]
          <5>1. CASE g # h
            BY <1>1, <2>1, <4>2, <5>1
          <5>2. CASE g = h /\ keyring' = holds[h]
            BY <1>1, <1>2, <3>3, <4>2, <5>2 DEF Honest, Spoiled
          <5>3. CASE g = h /\ family[holds[h]] \in spoiled'
            BY <1>1, <3>3, <4>2, <5>3 DEF Spoiled
          <5>4. QED
            BY <2>2, <4>2, <5>1, <5>2, <5>3
        <4>3. QED
          BY <3>3, <4>1, <4>2 DEF Honest
      <3>4. QED
        BY <1>6, <3>1, <3>2, <3>3 DEF Save, Clear, Lose, Written
    <2>6. QED
      BY <1>3, <1>4, <2>3, <2>4, <2>5 DEF Honest
  <1>7. QED
    BY <1>5, <1>6

\* The rows of a new family are nobody else's.
LEMMA HonestConnectStep ==
  ASSUME TokensInv, TokensNext, Honest,
         NEW h \in Hooks, NEW f \in Families, NEW k \in Credentials, Connect(h, f, k)
  PROVE  Honest'
  <1> USE HonestFacts, NoneAssumption DEF TokensInv, TokensTypeOK
  <1>1. /\ \A j \in Credentials : family[j] # f
        /\ family' = [family EXCEPT ![k] = f] /\ ~Exists(k)
        /\ UNCHANGED <<used, revoked, pc, presented, detected, keyring, spoiled>>
        /\ task[h] = "idle" /\ call[h] = None
        /\ task'[h] = "got" /\ holds'[h] = k /\ call'[h] = None
        /\ \A g \in Hooks \ {h} : task'[g] = task[g] /\ holds'[g] = holds[g] /\ call'[g] = call[g]
    BY DEF Connect, Issue, Insert, RowsOf, refreshVars, Hook, Calls
  <1>2. ~used[k]
    BY <1>1 DEF Inv, AbsentIsBlank
  <1>3. \A j \in Credentials : Exists(j) => family'[j] # f /\ (Spoiled(j) => Spoiled(j)')
    BY <1>1
  <1>4. (detected \subseteq spoiled)' /\ (\A j \in Credentials : revoked[j] => family[j] \in detected)'
    BY <1>1 DEF Honest
  <1>5. (\A r \in Refreshers : pc[r] # "idle" =>
          /\ pc[r] \in {"reuse", "revoke"} => Spoiled(presented[r])
          /\ Spoiled(presented[r]) \/ Called(r))'
    BY <1>1, <1>3 DEF Honest, Called
  <1>6. (\A g \in Hooks :
          task[g] \in {"loaded", "called", "got"} => ~used[holds[g]] \/ Spoiled(holds[g]))'
    BY <1>1, <1>2, <1>3 DEF Honest
  <1>7. (keyring # None =>
          \/ ~used[keyring] \/ Spoiled(keyring)
          \/ \E g \in Hooks : task[g] = "got" /\ family[holds[g]] = family[keyring])'
    <2>1. ASSUME NEW g \in Hooks, task[g] = "got"
          PROVE  g # h /\ task'[g] = "got" /\ family'[holds'[g]] = family[holds[g]]
      BY <1>1, <2>1
    <2>2. QED
      BY <1>1, <2>1 DEF Honest
  <1>8. QED
    BY <1>4, <1>5, <1>6, <1>7 DEF Honest

LEMMA HonestPresentStep ==
  ASSUME TokensInv, TokensNext, Honest, NEW h \in Hooks, NEW r \in Refreshers, Present(h, r)
  PROVE  Honest'
  <1> USE HonestFacts, NoneAssumption DEF TokensInv, TokensTypeOK
  <1>1. /\ UNCHANGED <<family, used, revoked, detected, keyring, spoiled, holds>>
        /\ task[h] = "loaded" /\ call[h] = None
        /\ task'[h] # "got" /\ task'[h] # "loaded"
        /\ \A g \in Hooks \ {h} : task'[g] = task[g] /\ call'[g] = call[g]
        /\ \A q \in Refreshers \ {r} : pc'[q] = pc[q] /\ presented'[q] = presented[q]
        /\ \/ pc'[r] = pc[r] /\ presented'[r] = presented[r]
           \/ pc'[r] = "claim" /\ call'[h] = r
    BY DEF Present, RefreshRead, Hook, vars, rows, refreshVars, Calls, TypeOK
  <1>2. (\A q \in Refreshers : pc[q] # "idle" =>
          /\ pc[q] \in {"reuse", "revoke"} => Spoiled(presented[q])
          /\ Spoiled(presented[q]) \/ Called(q))'
    BY <1>1 DEF Honest, Called, Spoiled
  <1>3. (\A g \in Hooks :
          task[g] \in {"loaded", "called", "got"} => ~used[holds[g]] \/ Spoiled(holds[g]))'
    BY <1>1 DEF Honest, Spoiled
  <1>4. QED
    BY <1>1, <1>2, <1>3 DEF Honest, Spoiled

\* An answer that arrives makes the hook's token the newest; one that is lost
\* spoils the family.
LEMMA HonestRotatedStep ==
  ASSUME TokensInv, TokensNext, Honest, NEW r \in Refreshers, NEW k \in Credentials, Rotated(r, k)
  PROVE  Honest'
  <1> USE HonestFacts, NoneAssumption DEF TokensInv, TokensTypeOK
  <1> DEFINE p == presented[r]
             f == family[p]
  <1>1. /\ p \in Credentials /\ Exists(p) /\ f \in Families
        /\ family' = [family EXCEPT ![k] = f] /\ ~Exists(k)
        /\ used' = [used EXCEPT ![p] = TRUE]
        /\ UNCHANGED <<revoked, detected, keyring>>
        /\ pc[r] = "rotate" /\ pc'[r] = "idle"
        /\ \A q \in Refreshers \ {r} : pc'[q] = pc[q] /\ presented'[q] = presented[q]
    BY DEF Rotated, RefreshCommit, Successor, Insert, Return, Exists, TypeOK
  <1>2. ~used[k] /\ k # p /\ family'[k] = f /\ ~used'[k]
    BY <1>1 DEF Inv, AbsentIsBlank, TypeOK
  <1>3. spoiled \subseteq spoiled'
    BY DEF Rotated, Spoil
  <1>4. (detected \subseteq spoiled)' /\ (\A j \in Credentials : revoked[j] => family[j] \in detected)'
    BY <1>1, <1>3 DEF Honest
  <1>5. (\A q \in Refreshers : pc[q] \in {"reuse", "revoke"} => Spoiled(presented[q]))'
    BY <1>1 DEF Honest
  <1>6. CASE f \in spoiled'
    <2>1. ASSUME NEW j \in Credentials, Exists(j)
          PROVE  used'[j] = used[j] \/ Spoiled(j)'
      BY <1>1, <1>6, <2>1 DEF Spoiled, TypeOK
    <2>2. \A g \in Hooks : \/ /\ task'[g] = task[g] /\ holds'[g] = holds[g]
                               /\ call'[g] = call[g]
                            \/ /\ holds'[g] = k /\ call'[g] = None /\ call[g] = r
                               /\ task'[g] = "got" /\ task[g] # "got"
                            \/ /\ holds'[g] = None /\ call'[g] = None /\ call[g] = r
                               /\ task'[g] = "idle" /\ task[g] # "got"
      BY DEF Rotated, Hook, Rest, AfterError, Calls
    <2>3. Spoiled(k)'
      BY <1>1, <1>2, <1>6 DEF Spoiled
    <2>4. (\A q \in Refreshers : pc[q] # "idle" => Spoiled(presented[q]) \/ Called(q))'
      BY <1>1, <2>2 DEF Honest, Called
    <2>5. (\A g \in Hooks :
            task[g] \in {"loaded", "called", "got"} => ~used[holds[g]] \/ Spoiled(holds[g]))'
      BY <2>1, <2>2, <2>3 DEF Honest
    <2>6. (keyring # None =>
            \/ ~used[keyring] \/ Spoiled(keyring)
            \/ \E g \in Hooks : task[g] = "got" /\ family[holds[g]] = family[keyring])'
      <3>1. ASSUME NEW g \in Hooks, task[g] = "got"
            PROVE  task'[g] = "got" /\ family'[holds'[g]] = family[holds[g]]
        BY <2>2, <3>1
      <3>2. CASE keyring # None /\ (~used[keyring] \/ Spoiled(keyring))
        BY <1>1, <2>1, <3>2
      <3>3. CASE \E g \in Hooks : task[g] = "got" /\ family[holds[g]] = family[keyring]
        BY <1>1, <3>1, <3>3
      <3>4. QED
        BY <1>1, <3>2, <3>3 DEF Honest
    <2>7. QED
      BY <1>4, <1>5, <2>4, <2>5, <2>6 DEF Honest
  <1>7. CASE f \notin spoiled'
    <2>1. PICK h \in Hooks : call[h] = r /\ Hook(h, "got", k, None) /\ UNCHANGED spoiled
      BY <1>1, <1>7 DEF Rotated, Spoil
    <2>2. /\ task'[h] = "got" /\ holds'[h] = k /\ call'[h] = None
          /\ \A g \in Hooks \ {h} : task'[g] = task[g] /\ holds'[g] = holds[g] /\ call'[g] = call[g]
          /\ holds[h] = p /\ task[h] = "called"
      BY <2>1 DEF Hook, Calls
    <2>3. ~Spoiled(p)
      BY <1>3, <1>7 DEF Spoiled
    <2>4. \A g \in Hooks \ {h} : holds[g] # None => family[holds[g]] # f /\ holds[g] # p
      BY <1>1, <2>2, <2>3 DEF HeldByOne, Spoiled
    <2>5. (\A q \in Refreshers : pc[q] # "idle" => Spoiled(presented[q]) \/ Called(q))'
      <3> SUFFICES ASSUME NEW q \in Refreshers, pc'[q] # "idle", ~Spoiled(presented[q])'
                   PROVE  Called(q)'
        OBVIOUS
      <3>1. q # r /\ pc[q] # "idle" /\ ~Spoiled(presented[q])
        BY <1>1
      <3>2. PICK g \in Hooks : call[g] = q
        BY <3>1 DEF Honest, Called
      <3>3. QED
        BY <2>1, <2>2, <3>1, <3>2 DEF Called
    <2>6. (\A g \in Hooks :
            task[g] \in {"loaded", "called", "got"} => ~used[holds[g]] \/ Spoiled(holds[g]))'
      <3>1. \A g \in Hooks \ {h} : holds[g] # None => used'[holds[g]] = used[holds[g]]
        BY <1>1, <2>4 DEF TypeOK
      <3>2. QED
        BY <1>2, <2>2, <3>1 DEF Honest
    <2>7. (keyring # None =>
            \/ ~used[keyring] \/ Spoiled(keyring)
            \/ \E g \in Hooks : task[g] = "got" /\ family[holds[g]] = family[keyring])'
      <3>1. ASSUME keyring # None, family[keyring] = f
            PROVE  task'[h] = "got" /\ family'[holds'[h]] = family'[keyring]
        BY <1>2, <2>2, <3>1
      <3>2. ASSUME NEW g \in Hooks, task[g] = "got"
            PROVE  task'[g] = "got" /\ family'[holds'[g]] = family[holds[g]]
        BY <2>2, <3>2
      <3>3. QED
        BY <1>1, <3>1, <3>2 DEF Honest
    <2>8. QED
      BY <1>4, <1>5, <2>5, <2>6, <2>7 DEF Honest
  <1>8. QED
    BY <1>6, <1>7

\* Reuse is answered for a spoiled family, and revokes rows of it alone.
LEMMA HonestErrorStep ==
  ASSUME TokensInv, TokensNext, Honest, NEW r \in Refreshers, Reused(r) \/ Failed(r)
  PROVE  Honest'
  <1> USE HonestFacts, NoneAssumption DEF TokensInv, TokensTypeOK
  <1>1. /\ UNCHANGED <<family, used, keyring, spoiled>>
        /\ pc[r] # "idle" /\ pc'[r] = "idle"
        /\ \A q \in Refreshers \ {r} : pc'[q] = pc[q] /\ presented'[q] = presented[q]
    BY DEF Reused, Failed, ReuseCommit, RefreshAbort, Return, rows, TypeOK
  <1>2. (detected \subseteq spoiled)' /\ (\A j \in Credentials : revoked[j] => family[j] \in detected)'
    <2>1. CASE Reused(r)
      <3>1. /\ pc[r] = "revoke" /\ detected' = detected \cup {family[presented[r]]}
            /\ \A j \in Credentials : revoked'[j] = (revoked[j] \/ j \in targets[r])
        BY <2>1 DEF Reused, ReuseCommit, Revoke, TypeOK
      <3>2. \A j \in targets[r] : family[j] = family[presented[r]]
        BY DEF Inv, AbsentIsBlank
      <3>3. family[presented[r]] \in spoiled
        BY <3>1 DEF Honest, Spoiled
      <3>4. QED
        BY <1>1, <3>1, <3>2, <3>3 DEF Honest
    <2>2. CASE Failed(r)
      BY <1>1, <2>2 DEF Failed, RefreshAbort, rows, Honest
    <2>3. QED
      BY <2>1, <2>2
  <1>3. /\ \A h \in Hooks : call[h] # r =>
              task'[h] = task[h] /\ holds'[h] = holds[h] /\ call'[h] = call[h]
        /\ \A h \in Hooks : call[h] = r =>
              /\ task[h] = "called" /\ task'[h] \in {"idle", "refused"}
              /\ holds'[h] \in {holds[h], None}
    BY DEF Reused, Failed, AfterError, Called, Hook, Rest, Calls
  <1>4. (\A q \in Refreshers : pc[q] # "idle" =>
          /\ pc[q] \in {"reuse", "revoke"} => Spoiled(presented[q])
          /\ Spoiled(presented[q]) \/ Called(q))'
    BY <1>1, <1>3 DEF Honest, Called, Spoiled
  <1>5. (\A g \in Hooks :
          task[g] \in {"loaded", "called", "got"} => ~used[holds[g]] \/ Spoiled(holds[g]))'
    BY <1>1, <1>3 DEF Honest, Spoiled
  <1>6. (keyring # None =>
          \/ ~used[keyring] \/ Spoiled(keyring)
          \/ \E g \in Hooks : task[g] = "got" /\ family[holds[g]] = family[keyring])'
    <2>1. ASSUME NEW g \in Hooks, task[g] = "got"
          PROVE  task'[g] = "got" /\ holds'[g] = holds[g]
      BY <1>3, <2>1
    <2>2. QED
      BY <1>1, <2>1 DEF Honest, Spoiled
  <1>7. QED
    BY <1>2, <1>4, <1>5, <1>6 DEF Honest

\* A claim fails on a token that was used, which spoiled its family, or revoked.
LEMMA HonestQuietStep ==
  ASSUME TokensInv, TokensNext, Honest, Quiet
  PROVE  (installation = "REVOKED" \/ Honest)'
  <1> USE HonestFacts, NoneAssumption DEF TokensInv, TokensTypeOK
  <1>1. UNCHANGED <<task, holds, call, keyring, spoiled>>
    BY DEF Quiet, hookVars
  <1>2. ASSUME NEW r \in Refreshers, RefreshClaim(r) \/ ReuseRead(r)
        PROVE  Honest'
    <2>1. /\ UNCHANGED <<family, used, revoked, detected, presented>>
          /\ pc[r] # "idle"
          /\ \A q \in Refreshers \ {r} : pc'[q] = pc[q]
          /\ pc'[r] = "reuse" => pc[r] = "claim" /\ ~Claimable(presented[r])
          /\ pc'[r] = "revoke" => pc[r] = "reuse"
      BY <1>2 DEF RefreshClaim, ReuseRead, rows, TypeOK
    <2>2. ASSUME pc[r] = "claim", ~Claimable(presented[r])
          PROVE  Spoiled(presented[r])
      <3>1. CASE revoked[presented[r]]
        BY <2>2, <3>1 DEF Honest, Spoiled
      <3>2. CASE used[presented[r]] /\ Called(r)
        BY <2>2, <3>2 DEF Honest, Called, Calls, Spoiled
      <3>3. CASE ~Called(r)
        BY <2>2, <3>3 DEF Honest
      <3>4. QED
        BY <2>2, <3>1, <3>2, <3>3 DEF Claimable
    <2>3. (\A q \in Refreshers : pc[q] # "idle" =>
            /\ pc[q] \in {"reuse", "revoke"} => Spoiled(presented[q])
            /\ Spoiled(presented[q]) \/ Called(q))'
      BY <1>1, <2>1, <2>2 DEF Honest, Called, Spoiled
    <2>4. QED
      BY <1>1, <2>1, <2>3 DEF Honest, Spoiled
  <1>3. CASE AdminCommit
    BY <1>3 DEF AdminCommit
  <1>4. CASE AdminRead \/ \E k \in Credentials : ExpireRefresh(k)
    <2>1. UNCHANGED <<family, used, revoked, detected, pc, presented>>
      BY <1>4 DEF AdminRead, ExpireRefresh, rows, refreshVars
    <2>2. QED
      BY <1>1, <2>1 DEF Honest, Spoiled, Called
  <1>5. QED
    BY <1>2, <1>3, <1>4 DEF Quiet

LEMMA HonestStep ==
  ASSUME TokensInv, TokensNext
  PROVE  (installation = "REVOKED" \/ Honest)'
  <1>1. CASE installation = "REVOKED"
    BY <1>1
    DEF TokensNext, Load, Save, Clear, Lose, Present, Connect, Rotated, Reused, Failed, Quiet,
        Issue, RefreshRead, RefreshClaim, RefreshCommit, ReuseRead, ReuseCommit, RefreshAbort,
        AdminRead, AdminCommit, ExpireRefresh, vars
  <1>2. CASE Honest
    BY <1>2, HonestHookStep, HonestConnectStep, HonestPresentStep, HonestRotatedStep,
       HonestErrorStep, HonestQuietStep DEF TokensNext
  <1>3. QED
    BY <1>1, <1>2 DEF TokensInv

LEMMA TokensStutter == ASSUME TokensInv, UNCHANGED tokenVars PROVE TokensInv'
  <1> USE DEF tokenVars, vars, hookVars, rows, refreshVars, Exists, RowsOf, Unrevoked
  <1>1. Inv'
    BY NextInv DEF TokensInv
  <1>2. TokensTypeOK'
    BY <1>1 DEF TokensInv, TokensTypeOK, Inv
  <1>3. Calls' /\ RefusedIsDead'
    BY DEF TokensInv, Calls, RefusedIsDead, Acceptable
  <1>4. RevocationSees' /\ ReuseEndsFamily'
    BY DEF TokensInv, RevocationSees, ReuseEndsFamily
  <1>5. HeldByOne' /\ (installation' = "REVOKED" \/ Honest')
    BY DEF TokensInv, HeldByOne, Honest, Spoiled, Called
  <1>6. QED
    BY <1>1, <1>2, <1>3, <1>4, <1>5 DEF TokensInv

-----------------------------------------------------------------------------

\* The strengthened invariant of the composition holds in every reachable state.
THEOREM TokensInvariance == TokensSpec => []TokensInv
  <1>1. ASSUME TokensInv, TokensNext PROVE TokensInv'
    BY <1>1, NextInv, StepIsHiddenOrApi, TokensTypeStep, CallsStep, RefusedIsDeadStep,
       RevocationStep, HeldByOneStep, HonestStep DEF TokensInv
  <1>2. TokensInv /\ [TokensNext]_tokenVars => TokensInv'
    BY <1>1, TokensStutter
  <1>3. QED
    BY InitTokensInv, <1>2, PTL DEF TokensSpec

\* Every variable of the composition keeps its type.
THEOREM TokensTypeCorrect == TokensSpec => []TokensTypeOK
  <1>1. TokensInv => TokensTypeOK BY DEF TokensInv
  <1>2. QED BY TokensInvariance, <1>1, PTL

\* The composition implements the API alone, so what is proved of the API holds
\* of it: one current token in a family, one chain of used ones, no reuse
\* without a reason.
THEOREM ImplementsCredentials == TokensSpec => Spec
  <1>1. TokensInit => Init
    BY DEF TokensInit
  <1>2. TokensInv /\ [TokensNext]_tokenVars => [Next]_vars
    BY StepIsHiddenOrApi DEF TokensInv, tokenVars
  <1>3. QED
    BY <1>1, <1>2, TokensInvariance, PTL DEF TokensSpec, Spec

\* Rotation alone never has a connector refused for reuse: its hooks overlapped
\* or lost an answer, or it was revoked (SDK 212-231, service 215-238).
THEOREM HonestNotLockedOut == TokensSpec => []NoFalseAlarm
  <1>1. TokensInv => NoFalseAlarm BY DEF TokensInv, Honest, NoFalseAlarm
  <1>2. QED BY TokensInvariance, <1>1, PTL

\* After reuse was answered nothing of the family is left unrevoked, unless a
\* rotation of it committed while the revocation was running (service 232-238).
THEOREM ReuseEndsTheFamily == TokensSpec => []ReuseEndsFamily
  <1>1. TokensInv => ReuseEndsFamily BY DEF TokensInv
  <1>2. QED BY TokensInvariance, <1>1, PTL

\* What a refused hook deletes from the keyring can be refreshed no more, unless the
\* user connected again, or the hooks overlapped or lost an answer and newer tokens
\* than its own were stored (SDK 218).
THEOREM OnlyDeadCleared == TokensSpec => ClearedAreDead
  <1> DEFINE Allowed(h) ==
        \/ used[keyring] \/ ~Acceptable(keyring)
        \/ family[keyring] # family[holds[h]]
        \/ keyring # holds[h] /\ family[keyring] \in spoiled
  <1>1. TokensInv => \A h \in Hooks : task[h] = "refused" /\ keyring # None => Allowed(h)
    BY DEF TokensInv, RefusedIsDead, HeldByOne, Spoiled
  <1>2. TokensInv => [\A h \in Hooks :
          task[h] = "refused" /\ keyring # None /\ keyring' = None => Allowed(h)]_tokenVars
    BY <1>1
  <1>3. QED
    BY <1>2, TokensInvariance, PTL DEF ClearedAreDead

=============================================================================
