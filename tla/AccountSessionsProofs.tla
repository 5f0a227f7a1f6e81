------------------------- MODULE AccountSessionsProofs -------------------------
(***************************************************************************)
(* What holds of AccountSessions for any sessions, tokens and calls.       *)
(*                                                                         *)
(* The properties are not inductive: a call acts on what it has read.      *)
(* Checked says what a call that was not overtaken may still trust, Doomed *)
(* that a reset about to commit has seen every session there is to revoke. *)
(***************************************************************************)
EXTENDS AccountSessions, TLAPS

\* What a call in flight holds.
HeldRows ==
    \A c \in Calls :
        /\ pc[c] = "switch" => held[c] \in Sessions /\ session[held[c]] # "absent"
        /\ pc[c] \in {"reset", "commit"} =>
            /\ held[c] \in Tokens /\ token[held[c]] # "absent"
            /\ purpose[held[c]] = "PASSWORD_RESET"
        /\ pc[c] = "verify" =>
            /\ held[c] \in Tokens /\ token[held[c]] # "absent"
            /\ purpose[held[c]] = "EMAIL_VERIFICATION"
        /\ pc[c] = "commit" => token[held[c]] = "live"
        /\ pc[c] \in Purposes \cup {"idle", "login"} => held[c] = None

OneCommit == \A c, d \in Calls : pc[c] = "commit" /\ pc[d] = "commit" => c = d

SpentUsed == \A k \in Tokens : spent[k] <= 1 /\ (token[k] # "used" => spent[k] = 0)

Checked ==
    \A c \in Calls \ overtaken :
        /\ pc[c] = "login" => known[c] = password /\ status = "ACTIVE"
        /\ pc[c] = "switch" => Live(held[c]) /\ status = "ACTIVE"
        /\ pc[c] \in Purposes =>
            \A k \in Tokens : token[k] = "live" /\ purpose[k] = pc[c] => k \in targets[c]

Doomed ==
    \A c \in Calls : pc[c] = "commit" =>
        \A s \in Sessions : Live(s) /\ s \notin escaped => s \in targets[c]

Placed == \A s \in Sessions : Live(s) => tenantOf[s] \in Tenants

Parents ==
    \A s \in Sessions : parent[s] # None =>
        session[s] # "absent" /\ session[parent[s]] = "ended"

OneChild ==
    \A s, x \in Sessions :
        /\ Live(s) /\ Live(x) /\ {s, x} \cap escaped = {}
        /\ parent[s] # None /\ parent[s] = parent[x]
        => s = x

IInv ==
    /\ TypeOK /\ HeldRows /\ OneCommit
    /\ SpentUsed
    /\ Checked /\ Doomed
    /\ SessionIsEntitled
    /\ Placed /\ Parents /\ OneChild
    /\ LastTokenOnly

LEMMA InitHolds == Init => IInv
<1> SUFFICES ASSUME Init PROVE IInv
  OBVIOUS
<1> USE NoneAssumption, HomeAssumption DEF Init, Live
<1>1. TypeOK
  BY DEF TypeOK, Purposes, Steps
<1>2. HeldRows /\ OneCommit /\ SpentUsed
  BY DEF HeldRows, OneCommit, SpentUsed, Purposes
<1>3. Checked /\ Doomed
  BY DEF Checked, Doomed, Purposes
<1>4. SessionIsEntitled /\ Placed /\ Parents /\ OneChild
  BY DEF SessionIsEntitled, Placed, Parents, OneChild
<1>5. LastTokenOnly
  BY DEF LastTokenOnly
<1>6. QED
  BY <1>1, <1>2, <1>3, <1>4, <1>5 DEF IInv

\* Types.
LEMMA TypeStep == ASSUME TypeOK, HeldRows, [Next]_vars PROVE TypeOK'
<1> USE NoneAssumption, HomeAssumption DEF TypeOK, HeldRows, Purposes, Steps, InFlight,
        SessionsIn, LiveTokens, Claimable
<1>1. ASSUME NEW c \in Calls, LoginVerify(c) PROVE TypeOK'
  BY <1>1 DEF LoginVerify, Start, userVars, sessionVars, tokenVars, callVars
<1>2. ASSUME NEW c \in Calls, NEW s \in Sessions, LoginCreate(c, s) PROVE TypeOK'
  BY <1>2 DEF LoginCreate, Insert, Return, Overtake, userVars, sessionVars, tokenVars,
     callVars
<1>3. ASSUME NEW c \in Calls, NEW s \in Sessions, SwitchAuthenticate(c, s) PROVE TypeOK'
  BY <1>3 DEF SwitchAuthenticate, Start, userVars, sessionVars, tokenVars, callVars
<1>4. ASSUME NEW c \in Calls, NEW s \in Sessions, NEW t \in Tenants, SwitchCommit(c, s, t)
      PROVE  TypeOK'
  BY <1>4 DEF SwitchCommit, Insert, Return, Overtake, Left, userVars, sessionVars,
     tokenVars, callVars
<1>5. ASSUME NEW c \in Calls, NEW p \in Purposes, RequestRead(c, p) PROVE TypeOK'
  BY <1>5 DEF RequestRead, Start, userVars, sessionVars, tokenVars, callVars
<1>6. ASSUME NEW c \in Calls, NEW k \in Tokens, RequestCommit(c, k) PROVE TypeOK'
  BY <1>6 DEF RequestCommit, Return, Overtake, Superseded, userVars, sessionVars,
     tokenVars, callVars
<1>7. ASSUME NEW c \in Calls, NEW k \in Tokens, TokenRead(c, k) PROVE TypeOK'
  BY <1>7 DEF TokenRead, Start, userVars, sessionVars, tokenVars, callVars
<1>8. ASSUME NEW c \in Calls, ResetClaim(c) PROVE TypeOK'
  BY <1>8 DEF ResetClaim, userVars, sessionVars, tokenVars, callVars
<1>9. ASSUME NEW c \in Calls, ResetCommit(c) PROVE TypeOK'
  BY <1>9 DEF ResetCommit, Return, Overtake, Ended, Revoked, userVars, sessionVars,
     tokenVars, callVars
<1>10. ASSUME NEW c \in Calls, VerifyCommit(c) PROVE TypeOK'
  BY <1>10 DEF VerifyCommit, Return, Overtake, userVars, sessionVars, tokenVars,
     callVars
<1>11. ASSUME NEW c \in Calls, Abort(c) PROVE TypeOK'
  BY <1>11 DEF Abort, Return, Overtake, userVars, sessionVars, tokenVars, callVars
<1>12. ASSUME NEW s \in Sessions, EndSession(s) PROVE TypeOK'
  BY <1>12 DEF EndSession, Ended, userVars, sessionVars, tokenVars, callVars
<1>13. CASE Suspend
  BY <1>13 DEF Suspend, userVars, sessionVars, tokenVars, callVars
<1>14. CASE Activate
  BY <1>14 DEF Activate, userVars, sessionVars, tokenVars, callVars
<1>15. ASSUME NEW t \in Tenants, RevokeTenant(t) PROVE TypeOK'
  BY <1>15 DEF RevokeTenant, Ended, userVars, sessionVars, tokenVars, callVars
<1>16. ASSUME NEW t \in Tenants, RevokeFails(t) PROVE TypeOK'
  BY <1>16 DEF RevokeFails, userVars, sessionVars, tokenVars, callVars
<1>17. CASE UNCHANGED vars
  BY <1>17 DEF vars, userVars, sessionVars, tokenVars, callVars
<1>18. QED
  BY <1>1, <1>2, <1>3, <1>4, <1>5, <1>6, <1>7, <1>8, <1>9, <1>10, <1>11, <1>12, <1>13,
     <1>14, <1>15, <1>16, <1>17 DEF Next, Call

\* What calls hold stays; one reset at a time passes its claim.
LEMMA HeldStep == ASSUME IInv, [Next]_vars PROVE HeldRows' /\ OneCommit'
<1> USE NoneAssumption DEF IInv, TypeOK, HeldRows, OneCommit, Purposes, InFlight, Live,
        Resetting, Claimable
<1>1. ASSUME NEW c \in Calls, LoginVerify(c) PROVE HeldRows' /\ OneCommit'
  BY <1>1 DEF LoginVerify, Start, userVars, sessionVars, tokenVars, callVars
<1>2. ASSUME NEW c \in Calls, NEW s \in Sessions, LoginCreate(c, s)
      PROVE  HeldRows' /\ OneCommit'
  BY <1>2 DEF LoginCreate, Insert, Return, Overtake, userVars, sessionVars, tokenVars,
     callVars
<1>3. ASSUME NEW c \in Calls, NEW s \in Sessions, SwitchAuthenticate(c, s)
      PROVE  HeldRows' /\ OneCommit'
  BY <1>3 DEF SwitchAuthenticate, Start, userVars, sessionVars, tokenVars, callVars
<1>4. ASSUME NEW c \in Calls, NEW s \in Sessions, NEW t \in Tenants, SwitchCommit(c, s, t)
      PROVE  HeldRows' /\ OneCommit'
  BY <1>4 DEF SwitchCommit, Insert, Return, Overtake, Left, userVars, sessionVars,
     tokenVars, callVars
<1>5. ASSUME NEW c \in Calls, NEW p \in Purposes, RequestRead(c, p)
      PROVE  HeldRows' /\ OneCommit'
  BY <1>5 DEF RequestRead, Start, userVars, sessionVars, tokenVars, callVars
<1>6. ASSUME NEW c \in Calls, NEW k \in Tokens, RequestCommit(c, k)
      PROVE  HeldRows' /\ OneCommit'
  BY <1>6 DEF RequestCommit, Return, Overtake, Superseded, userVars, sessionVars,
     tokenVars, callVars
<1>7. ASSUME NEW c \in Calls, NEW k \in Tokens, TokenRead(c, k)
      PROVE  HeldRows' /\ OneCommit'
  BY <1>7 DEF TokenRead, Start, userVars, sessionVars, tokenVars, callVars
<1>8. ASSUME NEW c \in Calls, ResetClaim(c) PROVE HeldRows' /\ OneCommit'
  BY <1>8 DEF ResetClaim, userVars, sessionVars, tokenVars, callVars
<1>9. ASSUME NEW c \in Calls, ResetCommit(c) PROVE HeldRows' /\ OneCommit'
  BY <1>9 DEF ResetCommit, Return, Overtake, Ended, Revoked, userVars, sessionVars,
     tokenVars, callVars
<1>10. ASSUME NEW c \in Calls, VerifyCommit(c) PROVE HeldRows' /\ OneCommit'
  BY <1>10 DEF VerifyCommit, Return, Overtake, userVars, sessionVars, tokenVars,
     callVars
<1>11. ASSUME NEW c \in Calls, Abort(c) PROVE HeldRows' /\ OneCommit'
  BY <1>11 DEF Abort, Return, Overtake, userVars, sessionVars, tokenVars, callVars
<1>12. ASSUME NEW s \in Sessions, EndSession(s) PROVE HeldRows' /\ OneCommit'
  BY <1>12 DEF EndSession, Ended, userVars, sessionVars, tokenVars, callVars
<1>13. CASE Suspend
  BY <1>13 DEF Suspend, userVars, sessionVars, tokenVars, callVars
<1>14. CASE Activate
  BY <1>14 DEF Activate, userVars, sessionVars, tokenVars, callVars
<1>15. ASSUME NEW t \in Tenants, RevokeTenant(t) PROVE HeldRows' /\ OneCommit'
  BY <1>15 DEF RevokeTenant, Ended, userVars, sessionVars, tokenVars, callVars
<1>16. ASSUME NEW t \in Tenants, RevokeFails(t) PROVE HeldRows' /\ OneCommit'
  BY <1>16 DEF RevokeFails, userVars, sessionVars, tokenVars, callVars
<1>17. CASE UNCHANGED vars
  BY <1>17 DEF vars, userVars, sessionVars, tokenVars, callVars
<1>18. QED
  BY <1>1, <1>2, <1>3, <1>4, <1>5, <1>6, <1>7, <1>8, <1>9, <1>10, <1>11, <1>12, <1>13,
     <1>14, <1>15, <1>16, <1>17 DEF Next, Call

\* A claimed token is not used up by anyone else.
LEMMA SpentStep == ASSUME IInv, [Next]_vars PROVE SpentUsed'
<1> USE DEF IInv, TypeOK, HeldRows, OneCommit, SpentUsed, Purposes, InFlight, Resetting,
        Claimable
<1>1. ASSUME NEW c \in Calls, LoginVerify(c) PROVE SpentUsed'
  BY <1>1 DEF LoginVerify, Start, userVars, sessionVars, tokenVars, callVars
<1>2. ASSUME NEW c \in Calls, NEW s \in Sessions, LoginCreate(c, s) PROVE SpentUsed'
  BY <1>2 DEF LoginCreate, Insert, Return, Overtake, userVars, sessionVars, tokenVars,
     callVars
<1>3. ASSUME NEW c \in Calls, NEW s \in Sessions, SwitchAuthenticate(c, s)
      PROVE  SpentUsed'
  BY <1>3 DEF SwitchAuthenticate, Start, userVars, sessionVars, tokenVars, callVars
<1>4. ASSUME NEW c \in Calls, NEW s \in Sessions, NEW t \in Tenants, SwitchCommit(c, s, t)
      PROVE  SpentUsed'
  BY <1>4 DEF SwitchCommit, Insert, Return, Overtake, Left, userVars, sessionVars,
     tokenVars, callVars
<1>5. ASSUME NEW c \in Calls, NEW p \in Purposes, RequestRead(c, p) PROVE SpentUsed'
  BY <1>5 DEF RequestRead, Start, userVars, sessionVars, tokenVars, callVars
<1>6. ASSUME NEW c \in Calls, NEW k \in Tokens, RequestCommit(c, k) PROVE SpentUsed'
  BY <1>6 DEF RequestCommit, Return, Overtake, Superseded, userVars, sessionVars,
     tokenVars, callVars
<1>7. ASSUME NEW c \in Calls, NEW k \in Tokens, TokenRead(c, k) PROVE SpentUsed'
  BY <1>7 DEF TokenRead, Start, userVars, sessionVars, tokenVars, callVars
<1>8. ASSUME NEW c \in Calls, ResetClaim(c) PROVE SpentUsed'
  BY <1>8 DEF ResetClaim, userVars, sessionVars, tokenVars, callVars
<1>9. ASSUME NEW c \in Calls, ResetCommit(c) PROVE SpentUsed'
  BY <1>9 DEF ResetCommit, Return, Overtake, Ended, Revoked, userVars, sessionVars,
     tokenVars, callVars
<1>10. ASSUME NEW c \in Calls, VerifyCommit(c) PROVE SpentUsed'
  BY <1>10 DEF VerifyCommit, Return, Overtake, userVars, sessionVars, tokenVars,
     callVars
<1>11. ASSUME NEW c \in Calls, Abort(c) PROVE SpentUsed'
  BY <1>11 DEF Abort, Return, Overtake, userVars, sessionVars, tokenVars, callVars
<1>12. ASSUME NEW s \in Sessions, EndSession(s) PROVE SpentUsed'
  BY <1>12 DEF EndSession, Ended, userVars, sessionVars, tokenVars, callVars
<1>13. CASE Suspend
  BY <1>13 DEF Suspend, userVars, sessionVars, tokenVars, callVars
<1>14. CASE Activate
  BY <1>14 DEF Activate, userVars, sessionVars, tokenVars, callVars
<1>15. ASSUME NEW t \in Tenants, RevokeTenant(t) PROVE SpentUsed'
  BY <1>15 DEF RevokeTenant, Ended, userVars, sessionVars, tokenVars, callVars
<1>16. ASSUME NEW t \in Tenants, RevokeFails(t) PROVE SpentUsed'
  BY <1>16 DEF RevokeFails, userVars, sessionVars, tokenVars, callVars
<1>17. CASE UNCHANGED vars
  BY <1>17 DEF vars, userVars, sessionVars, tokenVars, callVars
<1>18. QED
  BY <1>1, <1>2, <1>3, <1>4, <1>5, <1>6, <1>7, <1>8, <1>9, <1>10, <1>11, <1>12, <1>13,
     <1>14, <1>15, <1>16, <1>17 DEF Next, Call

\* A call that is not overtaken keeps what it has checked.
LEMMA CheckedStep == ASSUME IInv, [Next]_vars PROVE Checked'
<1> USE NoneAssumption DEF IInv, TypeOK, HeldRows, OneCommit, Checked, Purposes,
        InFlight, Live, LiveTokens, SessionsIn, Claimable
<1>1. ASSUME NEW c \in Calls, LoginVerify(c) PROVE Checked'
  BY <1>1 DEF LoginVerify, Start, userVars, sessionVars, tokenVars, callVars
<1>2. ASSUME NEW c \in Calls, NEW s \in Sessions, LoginCreate(c, s) PROVE Checked'
  BY <1>2 DEF LoginCreate, Insert, Return, Overtake, userVars, sessionVars, tokenVars,
     callVars
<1>3. ASSUME NEW c \in Calls, NEW s \in Sessions, SwitchAuthenticate(c, s) PROVE Checked'
  BY <1>3 DEF SwitchAuthenticate, Start, userVars, sessionVars, tokenVars, callVars
<1>4. ASSUME NEW c \in Calls, NEW s \in Sessions, NEW t \in Tenants, SwitchCommit(c, s, t)
      PROVE  Checked'
  BY <1>4 DEF SwitchCommit, Insert, Return, Overtake, Left, userVars, sessionVars,
     tokenVars, callVars
<1>5. ASSUME NEW c \in Calls, NEW p \in Purposes, RequestRead(c, p) PROVE Checked'
  BY <1>5 DEF RequestRead, Start, userVars, sessionVars, tokenVars, callVars
<1>6. ASSUME NEW c \in Calls, NEW k \in Tokens, RequestCommit(c, k) PROVE Checked'
  BY <1>6 DEF RequestCommit, Return, Overtake, Superseded, userVars, sessionVars,
     tokenVars, callVars
<1>7. ASSUME NEW c \in Calls, NEW k \in Tokens, TokenRead(c, k) PROVE Checked'
  BY <1>7 DEF TokenRead, Start, userVars, sessionVars, tokenVars, callVars
<1>8. ASSUME NEW c \in Calls, ResetClaim(c) PROVE Checked'
  BY <1>8 DEF ResetClaim, userVars, sessionVars, tokenVars, callVars
<1>9. ASSUME NEW c \in Calls, ResetCommit(c) PROVE Checked'
  BY <1>9 DEF ResetCommit, Return, Overtake, Ended, Revoked, userVars, sessionVars,
     tokenVars, callVars
<1>10. ASSUME NEW c \in Calls, VerifyCommit(c) PROVE Checked'
  BY <1>10 DEF VerifyCommit, Return, Overtake, userVars, sessionVars, tokenVars,
     callVars
<1>11. ASSUME NEW c \in Calls, Abort(c) PROVE Checked'
  BY <1>11 DEF Abort, Return, Overtake, userVars, sessionVars, tokenVars, callVars
<1>12. ASSUME NEW s \in Sessions, EndSession(s) PROVE Checked'
  BY <1>12 DEF EndSession, Ended, userVars, sessionVars, tokenVars, callVars
<1>13. CASE Suspend
  <2>1. \A c \in Calls \ overtaken' : c \notin overtaken /\ pc[c] \notin {"login", "switch"}
    BY <1>13 DEF Suspend
  <2>2. pc' = pc /\ token' = token /\ purpose' = purpose /\ targets' = targets
    BY <1>13 DEF Suspend, tokenVars, callVars
  <2>3. QED
    BY <2>1, <2>2
<1>14. CASE Activate
  BY <1>14 DEF Activate, userVars, sessionVars, tokenVars, callVars
<1>15. ASSUME NEW t \in Tenants, RevokeTenant(t) PROVE Checked'
  BY <1>15 DEF RevokeTenant, Ended, userVars, sessionVars, tokenVars, callVars
<1>16. ASSUME NEW t \in Tenants, RevokeFails(t) PROVE Checked'
  BY <1>16 DEF RevokeFails, userVars, sessionVars, tokenVars, callVars
<1>17. CASE UNCHANGED vars
  BY <1>17 DEF vars, userVars, sessionVars, tokenVars, callVars
<1>18. QED
  BY <1>1, <1>2, <1>3, <1>4, <1>5, <1>6, <1>7, <1>8, <1>9, <1>10, <1>11, <1>12, <1>13,
     <1>14, <1>15, <1>16, <1>17 DEF Next, Call

\* A reset past its claim has seen all sessions that do not escape it.
LEMMA DoomedStep == ASSUME IInv, [Next]_vars PROVE Doomed'
<1> USE DEF IInv, TypeOK, HeldRows, OneCommit, Doomed, Purposes, InFlight, Live,
        Resetting, SessionsIn
<1>1. ASSUME NEW c \in Calls, LoginVerify(c) PROVE Doomed'
  BY <1>1 DEF LoginVerify, Start, userVars, sessionVars, tokenVars, callVars
<1>2. ASSUME NEW c \in Calls, NEW s \in Sessions, LoginCreate(c, s) PROVE Doomed'
  BY <1>2 DEF LoginCreate, Insert, Return, Overtake, userVars, sessionVars, tokenVars,
     callVars
<1>3. ASSUME NEW c \in Calls, NEW s \in Sessions, SwitchAuthenticate(c, s) PROVE Doomed'
  BY <1>3 DEF SwitchAuthenticate, Start, userVars, sessionVars, tokenVars, callVars
<1>4. ASSUME NEW c \in Calls, NEW s \in Sessions, NEW t \in Tenants, SwitchCommit(c, s, t)
      PROVE  Doomed'
  <2>1. SUFFICES ASSUME NEW d \in Calls, pc'[d] = "commit",
                        NEW x \in Sessions, session'[x] = "live", x \notin escaped'
                 PROVE  x \in targets'[d]
    OBVIOUS
  <2>2. pc[d] = "commit" /\ targets'[d] = targets[d]
    BY <1>4, <2>1 DEF SwitchCommit, Return
  <2>3. x \notin escaped /\ x # s
    BY <1>4, <2>1, <2>2 DEF SwitchCommit, Insert
  <2>4. session[x] = "live"
    BY <1>4, <2>1, <2>3 DEF SwitchCommit, Insert
  <2>5. QED
    BY <2>2, <2>3, <2>4
<1>5. ASSUME NEW c \in Calls, NEW p \in Purposes, RequestRead(c, p) PROVE Doomed'
  BY <1>5 DEF RequestRead, Start, userVars, sessionVars, tokenVars, callVars
<1>6. ASSUME NEW c \in Calls, NEW k \in Tokens, RequestCommit(c, k) PROVE Doomed'
  BY <1>6 DEF RequestCommit, Return, Overtake, Superseded, userVars, sessionVars,
     tokenVars, callVars
<1>7. ASSUME NEW c \in Calls, NEW k \in Tokens, TokenRead(c, k) PROVE Doomed'
  BY <1>7 DEF TokenRead, Start, userVars, sessionVars, tokenVars, callVars
<1>8. ASSUME NEW c \in Calls, ResetClaim(c) PROVE Doomed'
  BY <1>8 DEF ResetClaim, userVars, sessionVars, tokenVars, callVars
<1>9. ASSUME NEW c \in Calls, ResetCommit(c) PROVE Doomed'
  BY <1>9 DEF ResetCommit, Return, Overtake, Ended, Revoked, userVars, sessionVars,
     tokenVars, callVars
<1>10. ASSUME NEW c \in Calls, VerifyCommit(c) PROVE Doomed'
  BY <1>10 DEF VerifyCommit, Return, Overtake, userVars, sessionVars, tokenVars,
     callVars
<1>11. ASSUME NEW c \in Calls, Abort(c) PROVE Doomed'
  BY <1>11 DEF Abort, Return, Overtake, userVars, sessionVars, tokenVars, callVars
<1>12. ASSUME NEW s \in Sessions, EndSession(s) PROVE Doomed'
  BY <1>12 DEF EndSession, Ended, userVars, sessionVars, tokenVars, callVars
<1>13. CASE Suspend
  BY <1>13 DEF Suspend, userVars, sessionVars, tokenVars, callVars
<1>14. CASE Activate
  BY <1>14 DEF Activate, userVars, sessionVars, tokenVars, callVars
<1>15. ASSUME NEW t \in Tenants, RevokeTenant(t) PROVE Doomed'
  BY <1>15 DEF RevokeTenant, Ended, userVars, sessionVars, tokenVars, callVars
<1>16. ASSUME NEW t \in Tenants, RevokeFails(t) PROVE Doomed'
  BY <1>16 DEF RevokeFails, userVars, sessionVars, tokenVars, callVars
<1>17. CASE UNCHANGED vars
  BY <1>17 DEF vars, userVars, sessionVars, tokenVars, callVars
<1>18. QED
  BY <1>1, <1>2, <1>3, <1>4, <1>5, <1>6, <1>7, <1>8, <1>9, <1>10, <1>11, <1>12, <1>13,
     <1>14, <1>15, <1>16, <1>17 DEF Next, Call

\* Entitlement.
LEMMA EntitledStep == ASSUME IInv, [Next]_vars PROVE SessionIsEntitled'
<1> USE NoneAssumption DEF IInv, TypeOK, HeldRows, OneCommit, Checked, Doomed, Placed,
        SessionIsEntitled, InFlight, Live, Resetting, SessionsIn
<1>1. ASSUME NEW c \in Calls, LoginVerify(c) PROVE SessionIsEntitled'
  BY <1>1 DEF LoginVerify, Start, userVars, sessionVars, tokenVars, callVars
<1>2. ASSUME NEW c \in Calls, NEW s \in Sessions, LoginCreate(c, s)
      PROVE  SessionIsEntitled'
  BY <1>2 DEF LoginCreate, Insert, Return, Overtake, userVars, sessionVars, tokenVars,
     callVars
<1>3. ASSUME NEW c \in Calls, NEW s \in Sessions, SwitchAuthenticate(c, s)
      PROVE  SessionIsEntitled'
  BY <1>3 DEF SwitchAuthenticate, Start, userVars, sessionVars, tokenVars, callVars
<1>4. ASSUME NEW c \in Calls, NEW s \in Sessions, NEW t \in Tenants, SwitchCommit(c, s, t)
      PROVE  SessionIsEntitled'
  BY <1>4 DEF SwitchCommit, Insert, Return, Overtake, Left, userVars, sessionVars,
     tokenVars, callVars
<1>5. ASSUME NEW c \in Calls, NEW p \in Purposes, RequestRead(c, p)
      PROVE  SessionIsEntitled'
  BY <1>5 DEF RequestRead, Start, userVars, sessionVars, tokenVars, callVars
<1>6. ASSUME NEW c \in Calls, NEW k \in Tokens, RequestCommit(c, k)
      PROVE  SessionIsEntitled'
  BY <1>6 DEF RequestCommit, Return, Overtake, Superseded, userVars, sessionVars,
     tokenVars, callVars
<1>7. ASSUME NEW c \in Calls, NEW k \in Tokens, TokenRead(c, k) PROVE SessionIsEntitled'
  BY <1>7 DEF TokenRead, Start, userVars, sessionVars, tokenVars, callVars
<1>8. ASSUME NEW c \in Calls, ResetClaim(c) PROVE SessionIsEntitled'
  BY <1>8 DEF ResetClaim, userVars, sessionVars, tokenVars, callVars
<1>9. ASSUME NEW c \in Calls, ResetCommit(c) PROVE SessionIsEntitled'
  BY <1>9 DEF ResetCommit, Return, Overtake, Ended, Revoked, userVars, sessionVars,
     tokenVars, callVars
<1>10. ASSUME NEW c \in Calls, VerifyCommit(c) PROVE SessionIsEntitled'
  BY <1>10 DEF VerifyCommit, Return, Overtake, userVars, sessionVars, tokenVars,
     callVars
<1>11. ASSUME NEW c \in Calls, Abort(c) PROVE SessionIsEntitled'
  BY <1>11 DEF Abort, Return, Overtake, userVars, sessionVars, tokenVars, callVars
<1>12. ASSUME NEW s \in Sessions, EndSession(s) PROVE SessionIsEntitled'
  BY <1>12 DEF EndSession, Ended, userVars, sessionVars, tokenVars, callVars
<1>13. CASE Suspend
  BY <1>13 DEF Suspend, userVars, sessionVars, tokenVars, callVars
<1>14. CASE Activate
  BY <1>14 DEF Activate, userVars, sessionVars, tokenVars, callVars
<1>15. ASSUME NEW t \in Tenants, RevokeTenant(t) PROVE SessionIsEntitled'
  BY <1>15 DEF RevokeTenant, Ended, userVars, sessionVars, tokenVars, callVars
<1>16. ASSUME NEW t \in Tenants, RevokeFails(t) PROVE SessionIsEntitled'
  BY <1>16 DEF RevokeFails, userVars, sessionVars, tokenVars, callVars
<1>17. CASE UNCHANGED vars
  BY <1>17 DEF vars, userVars, sessionVars, tokenVars, callVars
<1>18. QED
  BY <1>1, <1>2, <1>3, <1>4, <1>5, <1>6, <1>7, <1>8, <1>9, <1>10, <1>11, <1>12, <1>13,
     <1>14, <1>15, <1>16, <1>17 DEF Next, Call

\* A live session belongs to a workspace.
LEMMA PlacedStep == ASSUME IInv, [Next]_vars PROVE Placed'
<1> USE HomeAssumption, NoneAssumption DEF IInv, TypeOK, HeldRows, Placed, Live,
        SessionsIn
<1>1. ASSUME NEW c \in Calls, LoginVerify(c) PROVE Placed'
  BY <1>1 DEF LoginVerify, Start, userVars, sessionVars, tokenVars, callVars
<1>2. ASSUME NEW c \in Calls, NEW s \in Sessions, LoginCreate(c, s) PROVE Placed'
  BY <1>2 DEF LoginCreate, Insert, Return, Overtake, userVars, sessionVars, tokenVars,
     callVars
<1>3. ASSUME NEW c \in Calls, NEW s \in Sessions, SwitchAuthenticate(c, s) PROVE Placed'
  BY <1>3 DEF SwitchAuthenticate, Start, userVars, sessionVars, tokenVars, callVars
<1>4. ASSUME NEW c \in Calls, NEW s \in Sessions, NEW t \in Tenants, SwitchCommit(c, s, t)
      PROVE  Placed'
  BY <1>4 DEF SwitchCommit, Insert, Return, Overtake, Left, userVars, sessionVars,
     tokenVars, callVars
<1>5. ASSUME NEW c \in Calls, NEW p \in Purposes, RequestRead(c, p) PROVE Placed'
  BY <1>5 DEF RequestRead, Start, userVars, sessionVars, tokenVars, callVars
<1>6. ASSUME NEW c \in Calls, NEW k \in Tokens, RequestCommit(c, k) PROVE Placed'
  BY <1>6 DEF RequestCommit, Return, Overtake, Superseded, userVars, sessionVars,
     tokenVars, callVars
<1>7. ASSUME NEW c \in Calls, NEW k \in Tokens, TokenRead(c, k) PROVE Placed'
  BY <1>7 DEF TokenRead, Start, userVars, sessionVars, tokenVars, callVars
<1>8. ASSUME NEW c \in Calls, ResetClaim(c) PROVE Placed'
  BY <1>8 DEF ResetClaim, userVars, sessionVars, tokenVars, callVars
<1>9. ASSUME NEW c \in Calls, ResetCommit(c) PROVE Placed'
  BY <1>9 DEF ResetCommit, Return, Overtake, Ended, Revoked, userVars, sessionVars,
     tokenVars, callVars
<1>10. ASSUME NEW c \in Calls, VerifyCommit(c) PROVE Placed'
  BY <1>10 DEF VerifyCommit, Return, Overtake, userVars, sessionVars, tokenVars,
     callVars
<1>11. ASSUME NEW c \in Calls, Abort(c) PROVE Placed'
  BY <1>11 DEF Abort, Return, Overtake, userVars, sessionVars, tokenVars, callVars
<1>12. ASSUME NEW s \in Sessions, EndSession(s) PROVE Placed'
  BY <1>12 DEF EndSession, Ended, userVars, sessionVars, tokenVars, callVars
<1>13. CASE Suspend
  BY <1>13 DEF Suspend, userVars, sessionVars, tokenVars, callVars
<1>14. CASE Activate
  BY <1>14 DEF Activate, userVars, sessionVars, tokenVars, callVars
<1>15. ASSUME NEW t \in Tenants, RevokeTenant(t) PROVE Placed'
  BY <1>15 DEF RevokeTenant, Ended, userVars, sessionVars, tokenVars, callVars
<1>16. ASSUME NEW t \in Tenants, RevokeFails(t) PROVE Placed'
  BY <1>16 DEF RevokeFails, userVars, sessionVars, tokenVars, callVars
<1>17. CASE UNCHANGED vars
  BY <1>17 DEF vars, userVars, sessionVars, tokenVars, callVars
<1>18. QED
  BY <1>1, <1>2, <1>3, <1>4, <1>5, <1>6, <1>7, <1>8, <1>9, <1>10, <1>11, <1>12, <1>13,
     <1>14, <1>15, <1>16, <1>17 DEF Next, Call

\* A session that was left never lives again, and was left once.
LEMMA ParentsStep == ASSUME IInv, [Next]_vars PROVE Parents' /\ OneChild'
<1> USE NoneAssumption DEF IInv, TypeOK, HeldRows, Checked, Parents, OneChild, InFlight,
        Live, SessionsIn
<1>1. ASSUME NEW c \in Calls, LoginVerify(c) PROVE Parents' /\ OneChild'
  BY <1>1 DEF LoginVerify, Start, userVars, sessionVars, tokenVars, callVars
<1>2. ASSUME NEW c \in Calls, NEW s \in Sessions, LoginCreate(c, s)
      PROVE  Parents' /\ OneChild'
  BY <1>2 DEF LoginCreate, Insert, Return, Overtake, userVars, sessionVars, tokenVars,
     callVars
<1>3. ASSUME NEW c \in Calls, NEW s \in Sessions, SwitchAuthenticate(c, s)
      PROVE  Parents' /\ OneChild'
  BY <1>3 DEF SwitchAuthenticate, Start, userVars, sessionVars, tokenVars, callVars
<1>4. ASSUME NEW c \in Calls, NEW s \in Sessions, NEW t \in Tenants, SwitchCommit(c, s, t)
      PROVE  Parents' /\ OneChild'
  <2>1. held[c] \in Sessions /\ session[held[c]] # "absent" /\ session[s] = "absent" /\ held[c] # s
    BY <1>4 DEF SwitchCommit, Insert
  <2>2. session' = [x \in Sessions |-> IF x = s THEN "live"
                                        ELSE IF x = held[c] THEN "ended" ELSE session[x]]
    BY <1>4 DEF SwitchCommit, Insert, Left
  <2>3. parent' = [parent EXCEPT ![s] = held[c]]
    BY <1>4 DEF SwitchCommit, Insert
  <2>4. Parents'
    BY <2>1, <2>2, <2>3
  <2>5. escaped \subseteq escaped' /\ (s \notin escaped' => c \notin overtaken)
    BY <1>4 DEF SwitchCommit, Insert
  <2>6. s \notin escaped' => session[held[c]] = "live"
    BY <1>4, <2>5 DEF SwitchCommit
  <2>7. \A x \in Sessions \ {s} : s \notin escaped' => parent[x] # held[c]
    BY <2>6, <2>1
  <2>8. OneChild'
    BY <2>1, <2>2, <2>3, <2>5, <2>7
  <2>9. QED
    BY <2>4, <2>8
<1>5. ASSUME NEW c \in Calls, NEW p \in Purposes, RequestRead(c, p)
      PROVE  Parents' /\ OneChild'
  BY <1>5 DEF RequestRead, Start, userVars, sessionVars, tokenVars, callVars
<1>6. ASSUME NEW c \in Calls, NEW k \in Tokens, RequestCommit(c, k)
      PROVE  Parents' /\ OneChild'
  BY <1>6 DEF RequestCommit, Return, Overtake, Superseded, userVars, sessionVars,
     tokenVars, callVars
<1>7. ASSUME NEW c \in Calls, NEW k \in Tokens, TokenRead(c, k)
      PROVE  Parents' /\ OneChild'
  BY <1>7 DEF TokenRead, Start, userVars, sessionVars, tokenVars, callVars
<1>8. ASSUME NEW c \in Calls, ResetClaim(c) PROVE Parents' /\ OneChild'
  BY <1>8 DEF ResetClaim, userVars, sessionVars, tokenVars, callVars
<1>9. ASSUME NEW c \in Calls, ResetCommit(c) PROVE Parents' /\ OneChild'
  BY <1>9 DEF ResetCommit, Return, Overtake, Ended, Revoked, userVars, sessionVars,
     tokenVars, callVars
<1>10. ASSUME NEW c \in Calls, VerifyCommit(c) PROVE Parents' /\ OneChild'
  BY <1>10 DEF VerifyCommit, Return, Overtake, userVars, sessionVars, tokenVars,
     callVars
<1>11. ASSUME NEW c \in Calls, Abort(c) PROVE Parents' /\ OneChild'
  BY <1>11 DEF Abort, Return, Overtake, userVars, sessionVars, tokenVars, callVars
<1>12. ASSUME NEW s \in Sessions, EndSession(s) PROVE Parents' /\ OneChild'
  BY <1>12 DEF EndSession, Ended, userVars, sessionVars, tokenVars, callVars
<1>13. CASE Suspend
  BY <1>13 DEF Suspend, userVars, sessionVars, tokenVars, callVars
<1>14. CASE Activate
  BY <1>14 DEF Activate, userVars, sessionVars, tokenVars, callVars
<1>15. ASSUME NEW t \in Tenants, RevokeTenant(t) PROVE Parents' /\ OneChild'
  BY <1>15 DEF RevokeTenant, Ended, userVars, sessionVars, tokenVars, callVars
<1>16. ASSUME NEW t \in Tenants, RevokeFails(t) PROVE Parents' /\ OneChild'
  BY <1>16 DEF RevokeFails, userVars, sessionVars, tokenVars, callVars
<1>17. CASE UNCHANGED vars
  BY <1>17 DEF vars, userVars, sessionVars, tokenVars, callVars
<1>18. QED
  BY <1>1, <1>2, <1>3, <1>4, <1>5, <1>6, <1>7, <1>8, <1>9, <1>10, <1>11, <1>12, <1>13,
     <1>14, <1>15, <1>16, <1>17 DEF Next, Call

\* The newest token is alone.
LEMMA LastTokenStep == ASSUME IInv, [Next]_vars PROVE LastTokenOnly'
<1> USE DEF IInv, TypeOK, HeldRows, Checked, LastTokenOnly, Purposes, InFlight,
        LiveTokens
<1>1. ASSUME NEW c \in Calls, LoginVerify(c) PROVE LastTokenOnly'
  BY <1>1 DEF LoginVerify, Start, userVars, sessionVars, tokenVars, callVars
<1>2. ASSUME NEW c \in Calls, NEW s \in Sessions, LoginCreate(c, s) PROVE LastTokenOnly'
  BY <1>2 DEF LoginCreate, Insert, Return, Overtake, userVars, sessionVars, tokenVars,
     callVars
<1>3. ASSUME NEW c \in Calls, NEW s \in Sessions, SwitchAuthenticate(c, s)
      PROVE  LastTokenOnly'
  BY <1>3 DEF SwitchAuthenticate, Start, userVars, sessionVars, tokenVars, callVars
<1>4. ASSUME NEW c \in Calls, NEW s \in Sessions, NEW t \in Tenants, SwitchCommit(c, s, t)
      PROVE  LastTokenOnly'
  BY <1>4 DEF SwitchCommit, Insert, Return, Overtake, Left, userVars, sessionVars,
     tokenVars, callVars
<1>5. ASSUME NEW c \in Calls, NEW p \in Purposes, RequestRead(c, p) PROVE LastTokenOnly'
  BY <1>5 DEF RequestRead, Start, userVars, sessionVars, tokenVars, callVars
<1>6. ASSUME NEW c \in Calls, NEW k \in Tokens, RequestCommit(c, k) PROVE LastTokenOnly'
  <2>1. SUFFICES ASSUME NEW i \in Tokens, NEW j \in Tokens, token'[i] = "live",
                        token'[j] = "live", purpose'[i] = purpose'[j],
                        i \notin parallel', j \notin parallel'
                 PROVE  i = j
    OBVIOUS
  <2>2. \A x \in Tokens \ {k} : token'[x] = "live" =>
          token[x] = "live" /\ purpose'[x] = purpose[x] /\ x \notin targets[c]
    BY <1>6 DEF RequestCommit, Superseded
  <2>3. parallel \subseteq parallel' /\ purpose'[k] = pc[c]
    BY <1>6 DEF RequestCommit
  <2>4. CASE k \in {i, j}
    <3>1. c \notin overtaken
      BY <1>6, <2>1, <2>4 DEF RequestCommit
    <3>2. \A x \in Tokens \ {k} : ~(token'[x] = "live" /\ purpose'[x] = pc[c])
      BY <1>6, <2>2, <3>1 DEF RequestCommit
    <3>3. QED
      BY <2>1, <2>3, <2>4, <3>2
  <2>5. CASE k \notin {i, j}
    BY <2>1, <2>2, <2>3, <2>5
  <2>6. QED
    BY <2>4, <2>5
<1>7. ASSUME NEW c \in Calls, NEW k \in Tokens, TokenRead(c, k) PROVE LastTokenOnly'
  BY <1>7 DEF TokenRead, Start, userVars, sessionVars, tokenVars, callVars
<1>8. ASSUME NEW c \in Calls, ResetClaim(c) PROVE LastTokenOnly'
  BY <1>8 DEF ResetClaim, userVars, sessionVars, tokenVars, callVars
<1>9. ASSUME NEW c \in Calls, ResetCommit(c) PROVE LastTokenOnly'
  BY <1>9 DEF ResetCommit, Return, Overtake, Ended, Revoked, userVars, sessionVars,
     tokenVars, callVars
<1>10. ASSUME NEW c \in Calls, VerifyCommit(c) PROVE LastTokenOnly'
  BY <1>10 DEF VerifyCommit, Return, Overtake, userVars, sessionVars, tokenVars,
     callVars
<1>11. ASSUME NEW c \in Calls, Abort(c) PROVE LastTokenOnly'
  BY <1>11 DEF Abort, Return, Overtake, userVars, sessionVars, tokenVars, callVars
<1>12. ASSUME NEW s \in Sessions, EndSession(s) PROVE LastTokenOnly'
  BY <1>12 DEF EndSession, Ended, userVars, sessionVars, tokenVars, callVars
<1>13. CASE Suspend
  BY <1>13 DEF Suspend, userVars, sessionVars, tokenVars, callVars
<1>14. CASE Activate
  BY <1>14 DEF Activate, userVars, sessionVars, tokenVars, callVars
<1>15. ASSUME NEW t \in Tenants, RevokeTenant(t) PROVE LastTokenOnly'
  BY <1>15 DEF RevokeTenant, Ended, userVars, sessionVars, tokenVars, callVars
<1>16. ASSUME NEW t \in Tenants, RevokeFails(t) PROVE LastTokenOnly'
  BY <1>16 DEF RevokeFails, userVars, sessionVars, tokenVars, callVars
<1>17. CASE UNCHANGED vars
  BY <1>17 DEF vars, userVars, sessionVars, tokenVars, callVars
<1>18. QED
  BY <1>1, <1>2, <1>3, <1>4, <1>5, <1>6, <1>7, <1>8, <1>9, <1>10, <1>11, <1>12, <1>13,
     <1>14, <1>15, <1>16, <1>17 DEF Next, Call

LEMMA Step == IInv /\ [Next]_vars => IInv'
<1> SUFFICES ASSUME IInv, [Next]_vars PROVE IInv'
  OBVIOUS
<1>1. TypeOK /\ HeldRows
  BY DEF IInv
<1>2. QED
  BY <1>1, TypeStep, HeldStep, SpentStep, CheckedStep, DoomedStep, EntitledStep, PlacedStep,
     ParentsStep, LastTokenStep DEF IInv

THEOREM Invariance == Spec => []IInv
  BY InitHolds, Step, PTL DEF Spec

---------------------------------------------------------------------------

\* Every variable keeps its type.
THEOREM TypeCorrect == Spec => []TypeOK
  BY Invariance, PTL DEF IInv

\* A reset and a suspension end every session they do not overlap with.
THEOREM LiveSessionsEntitled == Spec => []SessionIsEntitled
  BY Invariance, PTL DEF IInv

\* Switching moves a session.
THEOREM SwitchMoves == Spec => []SwitchMovesSession
<1>1. IInv => SwitchMovesSession
  BY DEF IInv, Parents, OneChild, SwitchMovesSession, Live
<1>2. QED
  BY <1>1, Invariance, PTL

\* A mailed token changes the password at most once.
THEOREM TokensSpentOnce == Spec => []TokenSpentOnce
<1>1. IInv => TokenSpentOnce
  BY DEF IInv, TypeOK, SpentUsed, TokenSpentOnce
<1>2. QED
  BY <1>1, Invariance, PTL

\* Only the last token of a purpose is live.
THEOREM LastTokenStands == Spec => []LastTokenOnly
  BY Invariance, PTL DEF IInv
===========================================================================
