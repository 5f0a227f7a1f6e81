------------------------ MODULE DeviceAuthorization ------------------------
(***************************************************************************)
(* One device code: users approve it with its user code, the connector     *)
(* polls it with its device code, and the first poll to find it approved   *)
(* consumes it and gets the first credential of a new family.              *)
(*                                                                         *)
(* Every request reads the row first and updates it in a later statement   *)
(* of the same READ COMMITTED transaction, so requests interleave between  *)
(* the two. From the update to the commit the row is locked: that part is  *)
(* one action.                                                             *)
(*                                                                         *)
(* A poller is the loop of connect: it has one request in flight, polls    *)
(* again after authorization_pending and slow_down, and ends for good on   *)
(* any other answer, an error or a broken connection, as nothing catches   *)
(* what pollAuthorization throws.                                          *)
(***************************************************************************)
EXTENDS Naturals, Sequences, FiniteSets

CONSTANTS
    Approvers,  \* approve requests; each commits at most one installation
    Pollers,    \* loops that poll the code, each with one request in flight
    None

ASSUME NoneAssumption == None \notin Approvers \cup Pollers
ASSUME FiniteAssumption == IsFiniteSet(Approvers)

VARIABLES
    status,         \* status of the device authorization
    installation,   \* its installation_id: the approval that created it, or None
    expired,        \* its time is over
    recent,         \* it was polled less than an interval ago
    installations,  \* installations created for it
    issued,         \* installations for which a credential family was issued
    approver,       \* [Approvers -> next step of approve]
    poller,         \* [Pollers -> next step of poll]
    seen,           \* [Pollers -> installation_id in the row the poll read]
    loop            \* [Pollers -> the loop is polling, or how it ended]

codeVars == <<status, installation, expired, recent>>
vars == <<codeVars, installations, issued, approver, poller, seen, loop>>

TypeOK ==
    /\ status \in {"PENDING", "APPROVED", "CONSUMED", "EXPIRED"}
    /\ installation \in Approvers \cup {None}
    /\ expired \in BOOLEAN
    /\ recent \in BOOLEAN
    /\ installations \subseteq Approvers
    /\ issued \in Seq(Approvers)
    /\ approver \in [Approvers -> {"idle", "write", "done"}]
    /\ poller \in [Pollers -> {"idle", "expire", "pending", "claim"}]
    /\ seen \in [Pollers -> Approvers \cup {None}]
    /\ loop \in [Pollers -> {"polling", "answered", "failed"}]

\* The code has just been created.
Init ==
    /\ status = "PENDING"
    /\ installation = None
    /\ expired = FALSE
    /\ recent = FALSE
    /\ installations = {}
    /\ issued = <<>>
    /\ approver = [a \in Approvers |-> "idle"]
    /\ poller = [p \in Pollers |-> "idle"]
    /\ seen = [p \in Pollers |-> None]
    /\ loop = [p \in Pollers |-> "polling"]

---------------------------------------------------------------------------
(* approve.                                                                *)

\* The code is read and found pending and in time. (A late approval writes
\* EXPIRED and then throws, which rolls the write back: nothing changes.)
ApproveRead(a) ==
    /\ approver[a] = "idle"
    /\ status = "PENDING" /\ ~expired
    /\ approver' = [approver EXCEPT ![a] = "write"]
    /\ UNCHANGED <<codeVars, installations, issued, poller, seen, loop>>

\* Mutant: the code is not pointed at its installation.
PointAtNothing(a) == status' = "APPROVED" /\ UNCHANGED installation

\* The update names the row by its id only, whatever its status is by now.
PointAt(a) == status' = "APPROVED" /\ installation' = a

\* The installation is created, the code is updated, the transaction commits.
ApproveWrite(a) ==
    /\ approver[a] = "write"
    /\ approver' = [approver EXCEPT ![a] = "done"]
    /\ installations' = installations \cup {a}
    /\ PointAt(a)
    /\ UNCHANGED <<expired, recent, issued, poller, seen, loop>>

\* The project is not active, or the transaction fails and is rolled back.
ApproveAbort(a) ==
    /\ approver[a] = "write"
    /\ approver' = [approver EXCEPT ![a] = "done"]
    /\ UNCHANGED <<codeVars, installations, issued, poller, seen, loop>>

---------------------------------------------------------------------------
(* poll.                                                                   *)

\* What a poll that reads the row will do next; "slow_down" and
\* "access_denied": it only answers so.
PollDecision ==
    CASE expired -> "expire"
      [] ~expired /\ recent -> "slow_down"
      [] ~expired /\ ~recent /\ status = "PENDING" -> "pending"
      [] ~expired /\ ~recent /\ status = "APPROVED" /\ installation # None -> "claim"
      [] OTHER -> "access_denied"

PollRead(p) ==
    /\ loop[p] = "polling" /\ poller[p] = "idle"
    /\ PollDecision \in {"expire", "pending", "claim"}
    /\ poller' = [poller EXCEPT ![p] = PollDecision]
    /\ seen' = [seen EXCEPT ![p] = installation]
    /\ UNCHANGED <<codeVars, installations, issued, approver, loop>>

\* The loop of p ends, if it has not ended before.
LoopEnds(p, how) == loop' = [loop EXCEPT ![p] = IF @ = "polling" THEN how ELSE @]

PollDenied(p) ==
    /\ loop[p] = "polling" /\ poller[p] = "idle"
    /\ PollDecision = "access_denied"
    /\ LoopEnds(p, "answered")
    /\ UNCHANGED <<codeVars, installations, issued, approver, poller, seen>>

PollReturn(p) ==
    /\ poller' = [poller EXCEPT ![p] = "idle"]
    /\ seen' = [seen EXCEPT ![p] = None]

\* A code still pending is marked as expired.
PollExpire(p) ==
    /\ poller[p] = "expire"
    /\ status' = IF status = "PENDING" THEN "EXPIRED" ELSE status
    /\ PollReturn(p) /\ LoopEnds(p, "answered")
    /\ UNCHANGED <<installation, expired, recent, installations, issued, approver>>

PollPending(p) ==
    /\ poller[p] = "pending"
    /\ recent' = TRUE
    /\ PollReturn(p)
    /\ UNCHANGED <<status, installation, expired, installations, issued, approver, loop>>

\* Mutant: the claim does not ask for the status to be APPROVED still.
ClaimableRead == status # "EXPIRED"

Claimable == status = "APPROVED"

\* Mutant: the credential and the status are not written together.
ConsumeLater(p) ==
    /\ issued' = Append(issued, seen[p])
    /\ UNCHANGED status

\* The credential is issued for the installation the poll read.
Consume(p) ==
    /\ issued' = Append(issued, seen[p])
    /\ status' = "CONSUMED"

\* The conditional update that consumes the code, and the credential.
PollClaim(p) ==
    /\ poller[p] = "claim"
    /\ \/ /\ Claimable
          /\ Consume(p)
          /\ recent' = TRUE
       \/ /\ ~Claimable
          /\ UNCHANGED <<status, issued, recent>>
    /\ PollReturn(p) /\ LoopEnds(p, "answered")
    /\ UNCHANGED <<installation, expired, installations, approver>>

\* The transaction fails and is rolled back; the answer is an error.
PollAbort(p) ==
    /\ poller[p] # "idle"
    /\ PollReturn(p) /\ LoopEnds(p, "failed")
    /\ UNCHANGED <<codeVars, installations, issued, approver>>

\* The connection breaks, or the user ends the connector. A request in flight
\* is served all the same, and what it commits is never received.
PollLost(p) ==
    /\ loop[p] = "polling"
    /\ LoopEnds(p, "failed")
    /\ UNCHANGED <<codeVars, installations, issued, approver, poller, seen>>

---------------------------------------------------------------------------
(* Time.                                                                   *)

Expire ==
    /\ ~expired
    /\ expired' = TRUE
    /\ UNCHANGED <<status, installation, recent, installations, issued, approver, poller, seen, loop>>

IntervalEnds ==
    /\ recent
    /\ recent' = FALSE
    /\ UNCHANGED <<status, installation, expired, installations, issued, approver, poller, seen, loop>>

---------------------------------------------------------------------------

Approve(a) == ApproveRead(a) \/ ApproveWrite(a) \/ ApproveAbort(a)
Poll(p) == PollRead(p) \/ PollDenied(p) \/ PollExpire(p) \/ PollPending(p) \/ PollClaim(p)
PollFails(p) == PollAbort(p) \/ PollLost(p)

Next ==
    \/ \E a \in Approvers : Approve(a)
    \/ \E p \in Pollers : Poll(p) \/ PollFails(p)
    \/ Expire
    \/ IntervalEnds

Spec == Init /\ [][Next]_vars

\* A loop that has not ended polls again, what it asks for is answered if it
\* does not fail, and time passes.
FairSpec == Spec /\ WF_vars(IntervalEnds) /\ \A p \in Pollers : WF_vars(Poll(p))

---------------------------------------------------------------------------
(* Properties.                                                             *)

\* However approvals and polls overlap, no more families are issued than
\* installations were approved: a claim uses an approval up (lines 173-177).
FamiliesWithinApprovals ==
    Len(issued) + (IF status = "APPROVED" THEN 1 ELSE 0) <= Cardinality(installations)

\* As long as one approval was committed, the code is consumed exactly when its
\* one family was issued, for the installation it points to: never a consumed
\* code without a credential, nor a second one for a repeated poll (173-194).
ConsumedIsIssued ==
    (\A a, b \in installations : a = b) =>
        /\ status = "CONSUMED" <=> issued # <<>>
        /\ issued # <<>> => issued = <<installation>>

\* A code approved once is consumed if it does not expire first, unless every
\* loop that polls it fails: overlapping polls, slow_down answers and the errors
\* of other loops never starve it (lines 132-177). One error ends the only loop
\* there is (cli.ts 34-40), and a second approval may come when all have ended:
\* then the code stays approved.
ApprovedIsConsumed ==
    status = "APPROVED" ~>
        \/ status = "CONSUMED" \/ expired
        \/ \A p \in Pollers : loop[p] = "failed"
        \/ Cardinality(installations) > 1
===========================================================================
