--------------------- MODULE DeviceAuthorizationProofs ---------------------
(***************************************************************************)
(* Proofs that a device code never yields more credential families than    *)
(* approvals, for any number of concurrent requests, and that a code is    *)
(* consumed exactly when its family is issued, as long as one approval was *)
(* committed.                                                              *)
(*                                                                         *)
(* The first needs that an approve request commits once, so each write     *)
(* adds an installation; the second that the installation a poll read is   *)
(* still the code's when it claims, which a second approval undoes.        *)
(***************************************************************************)
EXTENDS DeviceAuthorization, TLAPS, FiniteSetTheorems

\* An approval is committed once, and a poll that claims has seen one.
CommittedOnce ==
    /\ \A a \in installations : approver[a] = "done"
    /\ \A p \in Pollers : poller[p] = "claim" => seen[p] # None

Single == \A a, b \in installations : a = b

\* Until a second approval is committed the code points to the installation
\* of the first, once there is one.
InstallationStays ==
    /\ status \in {"APPROVED", "CONSUMED"} <=> installation # None
    /\ installations = IF installation = None THEN {} ELSE {installation}
    /\ \A p \in Pollers : poller[p] = "claim" => seen[p] = installation

Base == TypeOK /\ CommittedOnce /\ FamiliesWithinApprovals

Inv == Base /\ (Single => InstallationStays) /\ ConsumedIsIssued

---------------------------------------------------------------------------

LEMMA InstallationsAreFinite ==
  ASSUME Base
  PROVE  IsFiniteSet(installations) /\ Cardinality(installations) \in Nat
  BY FiniteAssumption, FS_Subset, FS_CardinalityType DEF Base, TypeOK

LEMMA InitBase == Init => Base
  <1> SUFFICES ASSUME Init PROVE Base
    OBVIOUS
  <1>1. Cardinality(installations) = 0
    BY FS_EmptySet DEF Init
  <1>2. TypeOK /\ CommittedOnce
    <2>1. issued \in Seq(Approvers)
      BY DEF Init
    <2>2. TypeOK
      BY <2>1 DEF Init, TypeOK
    <2>3. CommittedOnce
      BY DEF Init, CommittedOnce
    <2>4. QED
      BY <2>2, <2>3
  <1>3. FamiliesWithinApprovals
    BY <1>1 DEF Init, FamiliesWithinApprovals
  <1>4. QED
    BY <1>2, <1>3 DEF Base

\* ApproveWrite: the installation is a new one, so the code may be approved.
LEMMA ApproveWriteBase ==
  ASSUME Base, NEW a \in Approvers, ApproveWrite(a)
  PROVE  Base'
  <1>1. a \notin installations
    BY DEF Base, CommittedOnce, ApproveWrite
  <1>2. Cardinality(installations') = Cardinality(installations) + 1
    BY <1>1, InstallationsAreFinite, FS_AddElement DEF ApproveWrite
  <1>3. TypeOK' /\ CommittedOnce'
    BY DEF Base, TypeOK, CommittedOnce, ApproveWrite, PointAt
  <1>4. FamiliesWithinApprovals'
    <2>1. Len(issued) \in Nat /\ issued' = issued
      BY DEF Base, TypeOK, ApproveWrite
    <2>2. Len(issued) <= Cardinality(installations)
      BY <2>1, InstallationsAreFinite DEF Base, FamiliesWithinApprovals
    <2>3. QED
      BY <1>2, <2>1, <2>2, InstallationsAreFinite DEF FamiliesWithinApprovals
  <1>5. QED
    BY <1>3, <1>4 DEF Base

\* PollClaim: the family issued takes the place of the approval it uses up.
LEMMA PollClaimBase ==
  ASSUME Base, NEW p \in Pollers, PollClaim(p)
  PROVE  Base'
  <1>1. seen[p] \in Approvers
    BY DEF Base, TypeOK, CommittedOnce, PollClaim
  <1>2. TypeOK' /\ CommittedOnce'
    <2>1. issued' \in Seq(Approvers)
      <3>1. issued \in Seq(Approvers)
        BY DEF Base, TypeOK
      <3>2. Append(issued, seen[p]) \in Seq(Approvers)
        BY <1>1, <3>1
      <3>3. QED
        BY <3>1, <3>2 DEF PollClaim, Consume
    <2>2. TypeOK'
      BY <2>1 DEF Base, TypeOK, PollClaim, PollReturn, LoopEnds, Consume
    <2>3. CommittedOnce'
      BY DEF Base, TypeOK, CommittedOnce, PollClaim, PollReturn
    <2>4. QED
      BY <2>2, <2>3
  <1>3. FamiliesWithinApprovals'
    <2>1. CASE Claimable
      <3>1. Len(issued') = Len(issued) + 1 /\ status' = "CONSUMED" /\ Len(issued) \in Nat
        BY <2>1, <1>1 DEF Base, TypeOK, PollClaim, Consume
      <3>2. QED
        BY <2>1, <3>1, InstallationsAreFinite
        DEF Base, FamiliesWithinApprovals, PollClaim, Claimable
    <2>2. CASE ~Claimable
      BY <2>2 DEF Base, FamiliesWithinApprovals, PollClaim
    <2>3. QED
      BY <2>1, <2>2
  <1>4. QED
    BY <1>2, <1>3 DEF Base

\* The steps that neither approve nor issue.
LEMMA OtherBase ==
  ASSUME Base,
         \/ \E a \in Approvers : ApproveRead(a) \/ ApproveAbort(a)
         \/ \E p \in Pollers : PollRead(p) \/ PollDenied(p) \/ PollExpire(p) \/ PollPending(p)
         \/ \E p \in Pollers : PollFails(p)
         \/ Expire \/ IntervalEnds \/ UNCHANGED vars
  PROVE  Base'
  <1>1. TypeOK' /\ CommittedOnce'
    <2>1. CASE \E a \in Approvers : ApproveRead(a) \/ ApproveAbort(a)
      BY <2>1 DEF Base, TypeOK, CommittedOnce, ApproveRead, ApproveAbort, codeVars
    <2>2. ASSUME NEW p \in Pollers, PollRead(p)
          PROVE  TypeOK' /\ CommittedOnce'
      <3>1. PollDecision = "claim" => installation # None
        BY DEF PollDecision
      <3>2. TypeOK'
        BY <2>2 DEF Base, TypeOK, PollRead, codeVars
      <3>3. CommittedOnce'
        BY <2>2, <3>1 DEF Base, TypeOK, CommittedOnce, PollRead
      <3>4. QED
        BY <3>2, <3>3
    <2>3. ASSUME NEW p \in Pollers, PollExpire(p) \/ PollPending(p)
          PROVE  TypeOK' /\ CommittedOnce'
      BY <2>3 DEF Base, TypeOK, CommittedOnce, PollExpire, PollPending, PollReturn, LoopEnds
    <2>4. ASSUME NEW p \in Pollers, PollDenied(p) \/ PollFails(p)
          PROVE  TypeOK' /\ CommittedOnce'
      BY <2>4
      DEF Base, TypeOK, CommittedOnce, PollDenied, PollFails, PollAbort, PollLost, PollReturn,
          LoopEnds, codeVars
    <2>5. CASE Expire \/ IntervalEnds \/ UNCHANGED vars
      BY <2>5 DEF Base, TypeOK, CommittedOnce, Expire, IntervalEnds, vars, codeVars
    <2>6. QED
      BY <2>1, <2>2, <2>3, <2>4, <2>5
  <1>2. /\ issued' = issued /\ installations' = installations
        /\ status' = "APPROVED" => status = "APPROVED"
    BY DEF ApproveRead, ApproveAbort, PollRead, PollDenied, PollExpire, PollPending, PollFails,
           PollAbort, PollLost, Expire, IntervalEnds, vars, codeVars
  <1>3. FamiliesWithinApprovals'
    <2>1. Len(issued) \in Nat
      BY DEF Base, TypeOK
    <2>2. QED
      BY <1>2, <2>1, InstallationsAreFinite DEF Base, FamiliesWithinApprovals
  <1>4. QED
    BY <1>1, <1>3 DEF Base

LEMMA NextBase == ASSUME Base, [Next]_vars PROVE Base'
  BY ApproveWriteBase, PollClaimBase, OtherBase DEF Next, Approve, Poll

---------------------------------------------------------------------------

LEMMA NextInv == ASSUME Inv, [Next]_vars PROVE Inv'
  <1> USE NoneAssumption DEF Inv
  <1>1. Base'
    BY NextBase
  <1> SUFFICES ASSUME Single'
               PROVE  InstallationStays' /\ ConsumedIsIssued'
    BY <1>1 DEF Single, ConsumedIsIssued
  <1>2. installations \subseteq installations'
    BY DEF Next, Approve, ApproveRead, ApproveWrite, ApproveAbort, Poll, PollRead, PollDenied,
           PollExpire, PollPending, PollClaim, PollFails, PollAbort, PollLost, Expire,
           IntervalEnds, vars
  <1>3. Single
    BY <1>2 DEF Single
  <1>4. /\ InstallationStays
        /\ status = "CONSUMED" <=> issued # <<>>
        /\ issued # <<>> => issued = <<installation>>
    BY <1>3 DEF ConsumedIsIssued, Single
  <1> USE DEF InstallationStays, ConsumedIsIssued
  <1>5. ASSUME NEW a \in Approvers, Approve(a)
        PROVE  InstallationStays' /\ ConsumedIsIssued'
    <2>1. CASE ApproveRead(a) \/ ApproveAbort(a)
      BY <1>4, <2>1 DEF Base, TypeOK, ApproveRead, ApproveAbort, codeVars
    <2>2. CASE ApproveWrite(a)
      <3>1. installations = {} /\ installation = None
        BY <1>4, <2>2 DEF Base, TypeOK, CommittedOnce, ApproveWrite, Single
      <3>2. /\ status \notin {"APPROVED", "CONSUMED"} /\ issued = <<>>
            /\ \A p \in Pollers : poller[p] # "claim"
        BY <1>4, <3>1 DEF Base, CommittedOnce
      <3>3. a # None
        OBVIOUS
      <3>4. QED
        BY <2>2, <3>1, <3>2, <3>3 DEF ApproveWrite, PointAt
    <2>3. QED
      BY <1>5, <2>1, <2>2 DEF Approve
  <1>6. ASSUME NEW p \in Pollers, PollRead(p) \/ PollExpire(p) \/ PollPending(p)
        PROVE  InstallationStays' /\ ConsumedIsIssued'
    BY <1>4, <1>6
    DEF Base, TypeOK, PollRead, PollDecision, PollExpire, PollPending, PollReturn, codeVars
  <1>7. ASSUME NEW p \in Pollers, PollClaim(p)
        PROVE  InstallationStays' /\ ConsumedIsIssued'
    <2>1. CASE Claimable
      <3>1. issued = <<>> /\ status = "APPROVED" /\ seen[p] = installation
        BY <1>4, <1>7, <2>1 DEF PollClaim, Claimable
      <3>2. issued' = <<installation>>
        BY <1>7, <2>1, <3>1 DEF PollClaim, Consume, Claimable
      <3>3. QED
        BY <1>4, <1>7, <2>1, <3>1, <3>2
        DEF Base, TypeOK, PollClaim, Consume, Claimable, PollReturn
    <2>2. CASE ~Claimable
      BY <1>4, <1>7, <2>2 DEF Base, TypeOK, PollClaim, PollReturn
    <2>3. QED
      BY <2>1, <2>2
  <1>8. ASSUME NEW p \in Pollers, PollDenied(p) \/ PollFails(p)
        PROVE  InstallationStays' /\ ConsumedIsIssued'
    BY <1>4, <1>8
    DEF Base, TypeOK, PollDenied, PollFails, PollAbort, PollLost, PollReturn, codeVars
  <1>9. CASE Expire \/ IntervalEnds \/ UNCHANGED vars
    <2>1. UNCHANGED <<status, installation, installations, issued, poller, seen>>
      BY <1>9 DEF Expire, IntervalEnds, vars, codeVars
    <2>2. QED
      BY <1>4, <2>1
  <1>10. QED
    BY <1>5, <1>6, <1>7, <1>8, <1>9 DEF Next, Poll

LEMMA InitInv == Init => Inv
  BY InitBase DEF Inv, Init, InstallationStays, ConsumedIsIssued

---------------------------------------------------------------------------

\* The strengthened invariant holds in every reachable state.
THEOREM Invariance == Spec => []Inv
  BY InitInv, NextInv, PTL DEF Spec

\* Every variable of the device authorization keeps its type.
THEOREM TypeCorrect == Spec => []TypeOK
  <1>1. Inv => TypeOK BY DEF Inv, Base
  <1>2. QED BY Invariance, <1>1, PTL

\* No device code yields more credential families than approvals, whatever
\* polls and approvals overlap (the claim, lines 173-177).
THEOREM ApprovalPerFamily == Spec => []FamiliesWithinApprovals
  <1>1. Inv => FamiliesWithinApprovals BY DEF Inv, Base
  <1>2. QED BY Invariance, <1>1, PTL

\* As long as one approval was committed, the code is consumed exactly when
\* the one family, of the code's installation, is issued (lines 173-194).
THEOREM ApprovalIssuesOnce == Spec => []ConsumedIsIssued
  <1>1. Inv => ConsumedIsIssued BY DEF Inv
  <1>2. QED BY Invariance, <1>1, PTL
===========================================================================
