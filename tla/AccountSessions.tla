---------------------------- MODULE AccountSessions ----------------------------
(***************************************************************************)
(* One account: its password, its sessions in several workspaces and the   *)
(* tokens that are mailed to its owner. Calls of AuthService and           *)
(* AdminService.updateUserStatus overlap; each statement sees what is      *)
(* committed when it starts (READ COMMITTED), and a call acts on what it   *)
(* has read before.                                                        *)
(*                                                                         *)
(* A password is a number that grows with every change. Whether the user   *)
(* is a member of a workspace is left to WorkspaceMembers: here a login or *)
(* a switch may fail for want of it.                                       *)
(***************************************************************************)
EXTENDS Naturals, FiniteSets

CONSTANTS
    Sessions,      \* rows of sessions
    Tenants,
    Home,          \* workspace of the oldest membership, where a login leads
    Tokens,        \* rows of auth_tokens
    Calls,         \* requests in flight
    None

ASSUME HomeAssumption == Home \in Tenants
ASSUME NoneAssumption == None \notin Sessions \cup Tokens \cup Tenants

VARIABLES
    status,    \* users.status
    verified,  \* users.email_verified_at is set
    password,  \* users.password_hash
    session,   \* [Sessions -> "absent", "live" or "ended" (revoked or expired)]
    tenantOf,  \* [Sessions -> tenant_id]
    secret,    \* [Sessions -> password its login was verified with]
    parent,    \* [Sessions -> session it was switched from, or None]
    token,     \* [Tokens -> "absent", "live" or "used"]
    purpose,   \* [Tokens -> purpose]
    pending,   \* tenants whose sessions a suspension has still to revoke
    pc,        \* [Calls -> next step]
    known,     \* [Calls -> password a login was verified with]
    held,      \* [Calls -> session or token that was presented]
    targets,   \* [Calls -> rows an open transaction is going to update]
    overtaken, \* history: calls whose check has been invalidated since
    escaped,   \* history: sessions that outran an invalidation, and what came of them
    parallel,  \* history: tokens of requests that overlapped another
    spent      \* history: [Tokens -> changes of the password made with it]

userVars == <<status, verified, password>>
sessionVars == <<session, tenantOf, secret, parent, escaped>>
tokenVars == <<token, purpose, parallel, spent>>
callVars == <<pc, known, held, targets>>
vars == <<userVars, sessionVars, tokenVars, pending, callVars, overtaken>>

Purposes == {"PASSWORD_RESET", "EMAIL_VERIFICATION"}
Steps == {"idle", "login", "switch", "reset", "commit", "verify"} \cup Purposes

TypeOK ==
    /\ status \in {"ACTIVE", "SUSPENDED"}
    /\ verified \in BOOLEAN
    /\ password \in Nat
    /\ session \in [Sessions -> {"absent", "live", "ended"}]
    /\ tenantOf \in [Sessions -> Tenants \cup {None}]
    /\ secret \in [Sessions -> Nat]
    /\ parent \in [Sessions -> Sessions \cup {None}]
    /\ token \in [Tokens -> {"absent", "live", "used"}]
    /\ purpose \in [Tokens -> Purposes \cup {None}]
    /\ pending \subseteq Tenants
    /\ pc \in [Calls -> Steps]
    /\ known \in [Calls -> Nat]
    /\ held \in [Calls -> Sessions \cup Tokens \cup {None}]
    /\ targets \in [Calls -> SUBSET (Sessions \cup Tokens)]
    /\ overtaken \subseteq Calls
    /\ escaped \subseteq Sessions
    /\ parallel \subseteq Tokens
    /\ spent \in [Tokens -> Nat]

\* The account as register leaves it: a session, and a token in the mail when
\* the address has to be verified.
Init ==
    /\ status = "ACTIVE" /\ password = 0
    /\ \E s \in Sessions :
        /\ session = [x \in Sessions |-> IF x = s THEN "live" ELSE "absent"]
        /\ tenantOf = [x \in Sessions |-> IF x = s THEN Home ELSE None]
    /\ secret = [s \in Sessions |-> 0]
    /\ parent = [s \in Sessions |-> None]
    /\ \/ /\ verified = TRUE
          /\ token = [k \in Tokens |-> "absent"]
          /\ purpose = [k \in Tokens |-> None]
       \/ /\ verified = FALSE
          /\ \E m \in Tokens :
              /\ token = [k \in Tokens |-> IF k = m THEN "live" ELSE "absent"]
              /\ purpose = [k \in Tokens |-> IF k = m THEN "EMAIL_VERIFICATION" ELSE None]
    /\ pending = {}
    /\ pc = [c \in Calls |-> "idle"]
    /\ known = [c \in Calls |-> 0]
    /\ held = [c \in Calls |-> None]
    /\ targets = [c \in Calls |-> {}]
    /\ overtaken = {} /\ escaped = {} /\ parallel = {}
    /\ spent = [k \in Tokens |-> 0]

Live(s) == session[s] = "live"
LiveTokens(p) == {k \in Tokens : token[k] = "live" /\ purpose[k] = p}

Ended(S) == session' = [s \in Sessions |-> IF s \in S THEN "ended" ELSE session[s]]

Start(c, step, row, pw) ==
    /\ pc[c] = "idle"
    /\ pc' = [pc EXCEPT ![c] = step]
    /\ held' = [held EXCEPT ![c] = row]
    /\ known' = [known EXCEPT ![c] = pw]

Return(c) ==
    /\ pc' = [pc EXCEPT ![c] = "idle"]
    /\ held' = [held EXCEPT ![c] = None]
    /\ known' = [known EXCEPT ![c] = 0]
    /\ targets' = [targets EXCEPT ![c] = {}]

\* The calls in S other than c go on with what is no longer so.
Overtake(c, S) == overtaken' = (overtaken \cup S) \ {c}

InFlight(steps) == {d \in Calls : pc[d] \in steps}

\* A reset has written the password and not committed: the row is locked.
Resetting == InFlight({"commit"}) # {}

\* INSERT of session s by call c, which also revokes the session it came from.
Insert(c, s, t, pw, from) ==
    /\ session[s] = "absent"
    /\ session' = [x \in Sessions |-> IF x = s THEN "live"
                                      ELSE IF x = from THEN "ended" ELSE session[x]]
    /\ tenantOf' = [tenantOf EXCEPT ![s] = t]
    /\ secret' = [secret EXCEPT ![s] = pw]
    /\ parent' = [parent EXCEPT ![s] = held[c]]
    /\ escaped' = IF c \in overtaken \/ Resetting \/ held[c] \in escaped
                  THEN escaped \cup {s} ELSE escaped

---------------------------------------------------------------------------
(* login, switchTenant, logout.                                            *)

\* The user is read and the password, as it is now, verified.
LoginVerify(c) ==
    /\ status = "ACTIVE" /\ verified
    /\ Start(c, "login", None, password)
    /\ UNCHANGED <<userVars, sessionVars, tokenVars, pending, targets, overtaken>>

LoginCreate(c, s) ==
    /\ pc[c] = "login"
    /\ Insert(c, s, Home, known[c], None)
    /\ Return(c)
    /\ Overtake(c, {})
    /\ UNCHANGED <<userVars, tokenVars, pending>>

\* authenticate, outside the transaction of switchTenant.
SwitchAuthenticate(c, s) ==
    /\ status = "ACTIVE" /\ Live(s)
    /\ Start(c, "switch", s, 0)
    /\ UNCHANGED <<userVars, sessionVars, tokenVars, pending, targets, overtaken>>

\* Mutant: the session that is left stays.
LeftNone(s) == None

Left(s) == s

\* The old session is revoked by its id, live or not, and a new one inserted.
SwitchCommit(c, s, t) ==
    /\ pc[c] = "switch"
    /\ Insert(c, s, t, secret[held[c]], Left(held[c]))
    /\ Return(c)
    /\ Overtake(c, {d \in InFlight({"switch"}) : held[d] = held[c]})
    /\ UNCHANGED <<userVars, tokenVars, pending>>

\* logout, revokeSession, or the session expires.
EndSession(s) ==
    /\ Live(s)
    /\ Ended({s})
    /\ overtaken' = overtaken \cup {d \in InFlight({"switch"}) : held[d] = s}
    /\ UNCHANGED <<userVars, tenantOf, secret, parent, escaped, tokenVars, pending, callVars>>

---------------------------------------------------------------------------
(* requestPasswordReset and resendVerification.                            *)

\* The user is read, and the transaction sees the unused tokens.
RequestRead(c, p) ==
    /\ status = "ACTIVE"
    /\ p = "EMAIL_VERIFICATION" => ~verified
    /\ Start(c, p, None, 0)
    /\ targets' = [targets EXCEPT ![c] = LiveTokens(p)]
    /\ UNCHANGED <<userVars, sessionVars, tokenVars, pending, overtaken>>

\* Mutant: the older tokens stay valid.
SupersededNone(c) == {}

Superseded(c) == targets[c]

\* The tokens it saw are used up and a new one is inserted and mailed. It
\* waits for a token that a reset has claimed.
RequestCommit(c, k) ==
    /\ pc[c] \in Purposes
    /\ \A d \in InFlight({"commit"}) : held[d] \notin targets[c]
    /\ token[k] = "absent"
    /\ token' = [x \in Tokens |-> IF x = k THEN "live"
                                  ELSE IF x \in Superseded(c) THEN "used" ELSE token[x]]
    /\ purpose' = [purpose EXCEPT ![k] = pc[c]]
    /\ parallel' = IF c \in overtaken THEN parallel \cup {k} ELSE parallel
    /\ Return(c)
    /\ Overtake(c, InFlight({pc[c]}))
    /\ UNCHANGED <<userVars, sessionVars, pending, spent>>

---------------------------------------------------------------------------
(* resetPassword and verifyEmail.                                          *)

\* The token is read; the time against which it is compared is taken here. A
\* token that has expired is one that no call reads any more.
TokenRead(c, k) ==
    /\ token[k] = "live"
    /\ \E step \in {"reset", "verify"} :
        /\ purpose[k] = IF step = "reset" THEN "PASSWORD_RESET" ELSE "EMAIL_VERIFICATION"
        /\ Start(c, step, k, 0)
    /\ UNCHANGED <<userVars, sessionVars, tokenVars, pending, targets, overtaken>>

\* Mutant: the claim trusts the read.
ClaimableRead(k) == TRUE

\* The conditional update of the transaction.
Claimable(k) == token[k] # "used"

\* The token is claimed, the password written, and the transaction sees the
\* sessions it is going to revoke. Another reset waits for the user's row.
ResetClaim(c) ==
    /\ pc[c] = "reset"
    /\ ~Resetting
    /\ Claimable(held[c])
    /\ pc' = [pc EXCEPT ![c] = "commit"]
    /\ targets' = [targets EXCEPT ![c] = {s \in Sessions : Live(s)}]
    /\ UNCHANGED <<userVars, sessionVars, tokenVars, pending, known, held, overtaken>>

\* Mutant: the password changes and the sessions stay.
RevokedNone(c) == {}

Revoked(c) == targets[c] \cap Sessions

ResetCommit(c) ==
    /\ pc[c] = "commit"
    /\ token' = [token EXCEPT ![held[c]] = "used"]
    /\ spent' = [spent EXCEPT ![held[c]] = @ + 1]
    /\ password' = password + 1
    /\ Ended(Revoked(c))
    /\ Return(c)
    /\ Overtake(c, InFlight({"login", "switch"}))
    /\ UNCHANGED <<status, verified, tenantOf, secret, parent, escaped, purpose, parallel, pending>>

VerifyCommit(c) ==
    /\ pc[c] = "verify"
    /\ ~Resetting
    /\ Claimable(held[c])
    /\ token' = [token EXCEPT ![held[c]] = "used"]
    /\ verified' = TRUE
    /\ Return(c)
    /\ Overtake(c, {})
    /\ UNCHANGED <<status, password, sessionVars, purpose, parallel, spent, pending>>

\* A call is refused, fails or dies; its transaction is rolled back.
Abort(c) ==
    /\ pc[c] # "idle"
    /\ Return(c)
    /\ Overtake(c, {})
    /\ UNCHANGED <<userVars, sessionVars, tokenVars, pending>>

---------------------------------------------------------------------------
(* AdminService.updateUserStatus: the status, then one transaction for the *)
(* sessions of each workspace.                                             *)

Suspend ==
    /\ ~Resetting
    /\ status' = "SUSPENDED"
    /\ pending' = Tenants
    /\ overtaken' = overtaken \cup InFlight({"login", "switch"})
    /\ UNCHANGED <<verified, password, sessionVars, tokenVars, callVars>>

Activate ==
    /\ ~Resetting
    /\ status' = "ACTIVE"
    /\ UNCHANGED <<verified, password, sessionVars, tokenVars, pending, callVars, overtaken>>

SessionsIn(t) == {s \in Sessions : Live(s) /\ tenantOf[s] = t}

RevokeTenant(t) ==
    /\ t \in pending
    /\ pending' = pending \ {t}
    /\ Ended(SessionsIn(t))
    /\ overtaken' = overtaken \cup {d \in InFlight({"switch"}) : held[d] \in SessionsIn(t)}
    /\ UNCHANGED <<userVars, tenantOf, secret, parent, escaped, tokenVars, callVars>>

\* One of the transactions fails: its sessions stay.
RevokeFails(t) ==
    /\ t \in pending
    /\ pending' = pending \ {t}
    /\ escaped' = escaped \cup SessionsIn(t)
    /\ UNCHANGED <<userVars, session, tenantOf, secret, parent, tokenVars, callVars, overtaken>>

---------------------------------------------------------------------------

Call(c) ==
    \/ LoginVerify(c)
    \/ \E s \in Sessions : LoginCreate(c, s) \/ SwitchAuthenticate(c, s)
    \/ \E s \in Sessions, t \in Tenants : SwitchCommit(c, s, t)
    \/ \E p \in Purposes : RequestRead(c, p)
    \/ \E k \in Tokens : RequestCommit(c, k) \/ TokenRead(c, k)
    \/ ResetClaim(c) \/ ResetCommit(c) \/ VerifyCommit(c)
    \/ Abort(c)

Next ==
    \/ \E c \in Calls : Call(c)
    \/ \E s \in Sessions : EndSession(s)
    \/ Suspend \/ Activate
    \/ \E t \in Tenants : RevokeTenant(t) \/ RevokeFails(t)

Spec == Init /\ [][Next]_vars

---------------------------------------------------------------------------
(* Properties.                                                             *)

\* Every live session was opened with the present password of an account that
\* is not suspended, or a suspension is about to revoke it. Only a login or a
\* switch that overlaps the reset or the suspension gets round it, or a
\* revocation that failed (resetPassword 448-455, updateUserStatus 118-133).
SessionIsEntitled ==
    \A s \in Sessions : Live(s) /\ s \notin escaped =>
        /\ secret[s] = password
        /\ status = "ACTIVE" \/ tenantOf[s] \in pending

\* A session that was switched lives on in one session only, and not beside
\* it, unless two switches or a logout and a switch overlap (lines 304-330).
SwitchMovesSession ==
    \A s \in Sessions : Live(s) /\ s \notin escaped /\ parent[s] # None =>
        /\ ~Live(parent[s])
        /\ \A x \in Sessions : Live(x) /\ x \notin escaped /\ parent[x] = parent[s] => x = s

\* A mailed token changes the password once, however often the link is
\* followed at the same time (the claim, lines 443-447).
TokenSpentOnce ==
    \A k \in Tokens : spent[k] <= 1 /\ (spent[k] = 1 => token[k] = "used")

\* The last mail is the only one that works, unless two requests overlap
\* (lines 381-388 and 408-411).
LastTokenOnly ==
    \A j, k \in Tokens :
        /\ token[j] = "live" /\ token[k] = "live" /\ purpose[j] = purpose[k]
        /\ {j, k} \cap parallel = {}
        => j = k
===========================================================================
