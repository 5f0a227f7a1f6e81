--------------------------- MODULE ConnectorQueue ---------------------------
(***************************************************************************)
(* The offline queue of a connector. The editor runs one hook process for  *)
(* each prompt; the process adds the prompt to a queue in a shared state   *)
(* file and then sends what the queue holds to the API.                    *)
(*                                                                         *)
(* A lock file protects one read or one write of the state file, not the   *)
(* read-modify-write they make together. The API accepts an event once,    *)
(* however often it is sent. A hook has tokens: one without captures       *)
(* nothing.                                                                *)
(***************************************************************************)
EXTENDS Naturals, FiniteSets

CONSTANTS
    Events,   \* client event ids of the prompts to capture
    Hooks,    \* hook processes
    Overlap,  \* TRUE: hooks of several editor sessions run at the same time
    Crashes,  \* TRUE: a hook may be killed
    None

ASSUME SwitchesAssumption == {Overlap, Crashes} \subseteq BOOLEAN
ASSUME NoneAssumption == None \notin Events \cup Hooks

VARIABLES
    queue,     \* [Events -> "absent", "due" or "waiting" for its next attempt]
    lock,      \* the hook that created the lock file, or None
    accepted,  \* events the API has stored
    saved,     \* history: events an enqueue has written to the queue
    pc,        \* [Hooks -> next step]
    event,     \* [Hooks -> the event being captured]
    copy,      \* [Hooks -> the queue as the hook read and changed it]
    todo       \* [Hooks -> events of the copy the flush has still to handle]

hookVars == <<pc, event, copy, todo>>
vars == <<queue, lock, accepted, saved, hookVars>>

Queue == [Events -> {"absent", "due", "waiting"}]
EmptyQueue == [e \in Events |-> "absent"]
In(q) == {e \in Events : q[e] # "absent"}

\* The steps that take the lock, and the locked steps they lead to.
Locked == [enqueue |-> "read", append |-> "write", flush |-> "fetch", store |-> "replace"]

TypeOK ==
    /\ queue \in Queue
    /\ lock \in Hooks \cup {None}
    /\ accepted \subseteq Events
    /\ saved \subseteq Events
    /\ pc \in [Hooks -> {"idle", "send"} \cup DOMAIN Locked \cup {Locked[s] : s \in DOMAIN Locked}]
    /\ event \in [Hooks -> Events \cup {None}]
    /\ copy \in [Hooks -> Queue]
    /\ todo \in [Hooks -> SUBSET Events]

Init ==
    /\ queue = EmptyQueue
    /\ lock = None
    /\ accepted = {} /\ saved = {}
    /\ pc = [h \in Hooks |-> "idle"]
    /\ event = [h \in Hooks |-> None]
    /\ copy = [h \in Hooks |-> EmptyQueue]
    /\ todo = [h \in Hooks |-> {}]

---------------------------------------------------------------------------

\* capture: the editor submits a prompt, perhaps one it has submitted before
\* (the event id of Codex is the id of the turn).
Capture(h, e) ==
    /\ pc[h] = "idle"
    /\ Overlap \/ \A g \in Hooks : pc[g] = "idle"
    /\ event' = [event EXCEPT ![h] = e]
    /\ pc' = [pc EXCEPT ![h] = "enqueue"]
    /\ UNCHANGED <<queue, lock, accepted, saved, copy, todo>>

\* withLock: the lock file is created if it does not exist.
Acquire(h) ==
    /\ pc[h] \in DOMAIN Locked
    /\ lock = None
    /\ lock' = h
    /\ pc' = [pc EXCEPT ![h] = Locked[pc[h]]]
    /\ UNCHANGED <<queue, accepted, saved, event, copy, todo>>

End(h) ==
    /\ pc' = [pc EXCEPT ![h] = "idle"]
    /\ event' = [event EXCEPT ![h] = None]
    /\ copy' = [copy EXCEPT ![h] = EmptyQueue]
    /\ todo' = [todo EXCEPT ![h] = {}]

\* Mutant: the lock is waited for without limit.
GiveUpNever(h) == FALSE

\* withLock: the lock file existed at each of the 40 attempts.
GiveUp(h) ==
    /\ pc[h] \in DOMAIN Locked
    /\ lock # None
    /\ End(h)
    /\ UNCHANGED <<queue, lock, accepted, saved>>

---------------------------------------------------------------------------
(* enqueue.                                                                *)

\* An event the queue holds already is not added again.
EnqueueRead(h) ==
    /\ pc[h] = "read"
    /\ lock' = None
    /\ \/ /\ event[h] \in In(queue)
          /\ pc' = [pc EXCEPT ![h] = "flush"]
          /\ UNCHANGED copy
       \/ /\ event[h] \notin In(queue)
          /\ copy' = [copy EXCEPT ![h] = [queue EXCEPT ![event[h]] = "due"]]
          /\ pc' = [pc EXCEPT ![h] = "append"]
    /\ UNCHANGED <<queue, accepted, saved, event, todo>>

\* The file is replaced by the copy with the event.
EnqueueWrite(h) ==
    /\ pc[h] = "write"
    /\ queue' = copy[h]
    /\ saved' = saved \cup {event[h]}
    /\ lock' = None
    /\ pc' = [pc EXCEPT ![h] = "flush"]
    /\ UNCHANGED <<accepted, event, copy, todo>>

---------------------------------------------------------------------------
(* flush.                                                                  *)

\* Mutant: what is about to be sent is taken off the queue.
FetchTake(h) ==
    /\ pc[h] = "fetch"
    /\ copy' = [copy EXCEPT ![h] = queue]
    /\ todo' = [todo EXCEPT ![h] = In(queue)]
    /\ queue' = EmptyQueue
    /\ lock' = None
    /\ pc' = [pc EXCEPT ![h] = "send"]
    /\ UNCHANGED <<accepted, saved, event>>

Fetch(h) ==
    /\ pc[h] = "fetch"
    /\ copy' = [copy EXCEPT ![h] = queue]
    /\ todo' = [todo EXCEPT ![h] = In(queue)]
    /\ lock' = None
    /\ pc' = [pc EXCEPT ![h] = "send"]
    /\ UNCHANGED <<queue, accepted, saved, event>>

\* An item whose next attempt is not due yet is kept as it is; whether that
\* time has come since the queue was read is left open.
Skip(h, e) ==
    /\ pc[h] = "send" /\ e \in todo[h]
    /\ copy[h][e] = "waiting"
    /\ todo' = [todo EXCEPT ![h] = @ \ {e}]
    /\ UNCHANGED <<queue, lock, accepted, saved, pc, event, copy>>

\* Mutant: a failed item is marked so that no flush sends it again.
RetainedFailed(failed) == IF failed THEN "failed" ELSE "absent"

\* A failed item stays with a later attempt, a delivered one goes.
Retained(failed) == IF failed THEN "waiting" ELSE "absent"

\* The API stores the event or not; the call fails if it does not, or if its
\* answer is lost.
Send(h, e) ==
    /\ pc[h] = "send" /\ e \in todo[h]
    /\ \E stored, failed \in BOOLEAN :
        /\ stored \/ failed
        /\ accepted' = IF stored THEN accepted \cup {e} ELSE accepted
        /\ copy' = [copy EXCEPT ![h][e] = Retained(failed)]
    /\ todo' = [todo EXCEPT ![h] = @ \ {e}]
    /\ UNCHANGED <<queue, lock, saved, pc, event>>

Sent(h) ==
    /\ pc[h] = "send" /\ todo[h] = {}
    /\ pc' = [pc EXCEPT ![h] = "store"]
    /\ UNCHANGED <<queue, lock, accepted, saved, event, copy, todo>>

\* The file is replaced by the retained items; the hook ends.
Replace(h) ==
    /\ pc[h] = "replace"
    /\ queue' = copy[h]
    /\ lock' = None
    /\ End(h)
    /\ UNCHANGED <<accepted, saved>>

---------------------------------------------------------------------------

\* A hook is killed. Its lock file stays; a write is done (renamed) or not.
Crash(h) ==
    /\ Crashes
    /\ pc[h] # "idle"
    /\ \/ UNCHANGED <<queue, saved>>
       \/ /\ pc[h] \in {"write", "replace"}
          /\ queue' = copy[h]
          /\ saved' = IF pc[h] = "write" THEN saved \cup {event[h]} ELSE saved
    /\ End(h)
    /\ UNCHANGED <<lock, accepted>>

\* The time of the next attempt comes.
Ripen(e) ==
    /\ queue[e] = "waiting"
    /\ queue' = [queue EXCEPT ![e] = "due"]
    /\ UNCHANGED <<lock, accepted, saved, hookVars>>

---------------------------------------------------------------------------

Step(h) ==
    \/ Acquire(h) \/ GiveUp(h)
    \/ EnqueueRead(h) \/ EnqueueWrite(h)
    \/ Fetch(h) \/ Sent(h) \/ Replace(h)
    \/ \E e \in Events : Skip(h, e) \/ Send(h, e)

Next ==
    \/ \E h \in Hooks, e \in Events : Capture(h, e)
    \/ \E h \in Hooks : Step(h) \/ Crash(h)
    \/ \E e \in Events : Ripen(e)

Spec == Init /\ [][Next]_vars

\* A hook that runs keeps running.
FairSpec == Spec /\ \A h \in Hooks : WF_vars(Step(h))

---------------------------------------------------------------------------
(* Properties.                                                             *)

\* A prompt that was queued stays queued until the API has stored it, through
\* failed calls, lost answers and killed hooks ("prompts are queued locally
\* during network failures", connectors/claude-code/README.md 5).
KeptUntilAccepted == \A e \in saved : e \in In(queue) \cup accepted

\* Whatever other hooks do and wherever they were killed, a hook ends and gives
\* the editor back to its user (the 40 attempts of withLock).
HookEnds == \A h \in Hooks : pc[h] # "idle" ~> pc[h] = "idle"
===========================================================================
