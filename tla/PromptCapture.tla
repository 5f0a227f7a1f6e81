---------------------------- MODULE PromptCapture ----------------------------
(***************************************************************************)
(* The hooks of a connector and the API they send their queue to: the      *)
(* composition of ConnectorQueue and PromptIngest. Where ConnectorQueue    *)
(* has one step Send, a hook here posts an event, the API works on the     *)
(* request, and the answer arrives or is lost; the request of a hook that  *)
(* was killed goes on without it.                                          *)
(*                                                                         *)
(* accepted holds the events a hook was told to be stored; it lags behind  *)
(* rows, what the API has stored.                                          *)
(***************************************************************************)
EXTENDS ConnectorQueue

CONSTANTS Tags, TagsOf, Requests

ASSUME RequestsAssumption == None \notin Tags \cup Requests
ASSUME TagsOfAssumption == TagsOf \in [Events -> SUBSET Tags]

VARIABLES
    rows, tags, project, step, sent, retried, made, tag, found, held, tagHit,
    call  \* [Hooks -> the request whose answer the hook waits for, or None]

Api == INSTANCE PromptIngest

apiVars == <<rows, tags, project, step, sent, retried, made, tag, found, held, tagHit>>
captureVars == <<vars, apiVars, call>>

CaptureTypeOK ==
    /\ TypeOK
    /\ Api!TypeOK
    /\ call \in [Hooks -> Requests \cup {None}]

CaptureInit ==
    /\ Init
    /\ Api!Init
    /\ call = [h \in Hooks |-> None]

---------------------------------------------------------------------------

\* ingest of the client: the event is posted.
Post(h, e, r) ==
    /\ pc[h] = "send" /\ e \in todo[h] /\ call[h] = None
    /\ Api!Receive(r, e)
    /\ call' = [call EXCEPT ![h] = r]
    /\ UNCHANGED vars

\* The flush goes on after a call, which failed or not.
Handled(h, e, failed) ==
    /\ copy' = [copy EXCEPT ![h][e] = Retained(failed)]
    /\ todo' = [todo EXCEPT ![h] = @ \ {e}]
    /\ call' = [call EXCEPT ![h] = None]
    /\ UNCHANGED <<queue, lock, saved, pc, event>>

\* Mutant: an event the API refuses is not kept, only one in conflict is.
RefusedConflict(answer) == answer = "conflict"

Refused(answer) == answer # "ok"

Answer(h) ==
    /\ call[h] # None
    /\ LET r == call[h] IN
        /\ Handled(h, sent[r], Refused(step[r]))
        /\ accepted' = IF step[r] = "ok" THEN accepted \cup {sent[r]} ELSE accepted
        /\ Api!Release(r)

\* The connection breaks; the request goes on.
Lose(h) ==
    /\ call[h] # None
    /\ Handled(h, sent[call[h]], TRUE)
    /\ UNCHANGED <<accepted, apiVars>>

\* The editor kills the hook, after five seconds, or the machine stops.
Kill(h) ==
    /\ Crash(h)
    /\ call' = [call EXCEPT ![h] = None]
    /\ UNCHANGED apiVars

\* The steps of a hook that are its own.
Local(h) ==
    /\ \/ Acquire(h) \/ GiveUp(h)
       \/ EnqueueRead(h) \/ EnqueueWrite(h)
       \/ Fetch(h) \/ Sent(h) \/ Replace(h)
       \/ call[h] = None /\ \E e \in Events : Skip(h, e)
    /\ UNCHANGED <<apiVars, call>>

Drop(r) ==
    /\ \A h \in Hooks : call[h] # r
    /\ Api!Release(r)
    /\ UNCHANGED <<vars, call>>

Run(h) == Local(h) \/ Answer(h) \/ \E e \in Events, r \in Requests : Post(h, e, r)

Serve(r) == Drop(r) \/ (Api!Serve(r) /\ UNCHANGED <<vars, call>>)

Disturb ==
    /\ \/ \E r \in Requests : Api!Abort(r)
       \/ Api!Archive \/ Api!Restore
    /\ UNCHANGED <<vars, call>>

User ==
    /\ \/ \E h \in Hooks, e \in Events : Capture(h, e)
       \/ \E e \in Events : Ripen(e)
    /\ UNCHANGED <<apiVars, call>>

CaptureNext ==
    \/ \E h \in Hooks : Run(h) \/ Lose(h) \/ Kill(h)
    \/ \E r \in Requests : Serve(r)
    \/ Disturb
    \/ User

CaptureSpec == CaptureInit /\ [][CaptureNext]_captureVars

---------------------------------------------------------------------------
(* Properties. Those of the two components are checked with them.          *)

\* What a hook takes for stored, and drops from its queue, is stored, although
\* requests of killed hooks may be answered before, after or never.
AcceptedIsStored == \A e \in accepted : Api!Stored(e)

\* Seen from the hooks, the API is the one ConnectorQueue assumes: what is
\* shown there, for any number of events, holds here.
ImplementsQueue == Spec

OneRowPerEvent == Api!OneRowPerEvent
SecondConflictFromTags == Api!SecondConflictFromTags
===========================================================================
