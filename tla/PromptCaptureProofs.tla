------------------------ MODULE PromptCaptureProofs ------------------------
(***************************************************************************)
(* Proofs about the capture of prompts, for any number of prompts, hooks,  *)
(* requests and tags. First the queue alone (ConnectorQueue): when hooks   *)
(* run one at a time, a queued prompt stays queued until the API has       *)
(* stored it, whatever is killed, refused or lost on the way. The file is  *)
(* always replaced by the copy of the one running hook, so the invariant   *)
(* says what that copy still holds: before the append, the whole queue and *)
(* the new event; during a flush, all that is not yet accepted.            *)
(*                                                                         *)
(* Then its composition with the API (PromptCapture): the API stores an    *)
(* event once, what a hook drops is stored, and the composition implements *)
(* the queue, so what is proved of the queue holds of it.                  *)
(***************************************************************************)
EXTENDS PromptCapture, TLAPS

OneRuns == \A g, h \in Hooks : pc[g] # "idle" /\ pc[h] # "idle" => g = h

\* What the copy of a running hook holds.
CopyCovers ==
    \A h \in Hooks :
        /\ pc[h] # "idle" => event[h] \in Events
        /\ pc[h] \in {"append", "write"} => In(queue) \cup {event[h]} \subseteq In(copy[h])
        /\ pc[h] \in {"send", "store", "replace"} => In(queue) \subseteq In(copy[h]) \cup accepted

Inv == TypeOK /\ OneRuns /\ CopyCovers /\ KeptUntilAccepted

---------------------------------------------------------------------------

Steps == {"idle", "send", "enqueue", "append", "flush", "store", "read", "write", "fetch",
          "replace"}

LEMMA LockedSteps ==
  /\ DOMAIN Locked = {"enqueue", "append", "flush", "store"}
  /\ Locked["enqueue"] = "read" /\ Locked["append"] = "write"
  /\ Locked["flush"] = "fetch" /\ Locked["store"] = "replace"
  /\ {"idle", "send"} \cup DOMAIN Locked \cup {Locked[s] : s \in DOMAIN Locked} = Steps
  <1>1. /\ DOMAIN Locked = {"enqueue", "append", "flush", "store"}
        /\ Locked["enqueue"] = "read" /\ Locked["append"] = "write"
        /\ Locked["flush"] = "fetch" /\ Locked["store"] = "replace"
    BY DEF Locked
  <1>2. {"idle", "send"} \cup DOMAIN Locked \cup {Locked[s] : s \in DOMAIN Locked} = Steps
    BY <1>1 DEF Steps
  <1>3. QED
    BY <1>1, <1>2

\* The type invariant with its step names written out.
LEMMA Types ==
  TypeOK <=> /\ queue \in Queue
             /\ lock \in Hooks \cup {None}
             /\ accepted \subseteq Events
             /\ saved \subseteq Events
             /\ pc \in [Hooks -> Steps]
             /\ event \in [Hooks -> Events \cup {None}]
             /\ copy \in [Hooks -> Queue]
             /\ todo \in [Hooks -> SUBSET Events]
  BY LockedSteps DEF TypeOK

LEMMA InitInv == Init => Inv
  <1> SUFFICES ASSUME Init PROVE Inv
    OBVIOUS
  <1>1. EmptyQueue \in Queue
    BY DEF EmptyQueue, Queue
  <1>2. TypeOK
    BY <1>1, Types DEF Init, Steps
  <1>3. QED
    BY <1>2 DEF Init, Inv, OneRuns, CopyCovers, KeptUntilAccepted

LEMMA CaptureInv ==
  ASSUME ~Overlap, Inv, NEW h \in Hooks, NEW e \in Events, Capture(h, e)
  PROVE  Inv'
  <1>1. TypeOK'
    BY LockedSteps DEF Inv, Capture, Steps, TypeOK
  <1>2. OneRuns' /\ CopyCovers' /\ KeptUntilAccepted'
    BY Types DEF Inv, Capture, OneRuns, CopyCovers, KeptUntilAccepted, In
  <1>3. QED
    BY <1>1, <1>2 DEF Inv

LEMMA AcquireInv == ASSUME Inv, NEW h \in Hooks, Acquire(h) PROVE Inv'
  <1>1. TypeOK'
    BY LockedSteps DEF Inv, Acquire, Steps, TypeOK
  <1>2. OneRuns'
    BY Types, LockedSteps DEF Inv, Acquire, OneRuns
  <1>3. CopyCovers'
    BY Types, LockedSteps DEF Inv, Acquire, CopyCovers, In
  <1>4. KeptUntilAccepted'
    BY DEF Inv, Acquire, KeptUntilAccepted, In
  <1>5. QED
    BY <1>1, <1>2, <1>3, <1>4 DEF Inv

\* A hook that ends leaves the others as they are; the copies are local.
LEMMA EndInv ==
  ASSUME TypeOK, OneRuns, CopyCovers, NEW h \in Hooks, End(h),
         queue' \in Queue, lock' \in Hooks \cup {None}, accepted' = accepted,
         saved' \subseteq Events, pc[h] # "idle"
  PROVE  TypeOK' /\ OneRuns' /\ CopyCovers'
  <1>1. EmptyQueue \in Queue
    BY DEF EmptyQueue, Queue
  <1>2. TypeOK'
    BY <1>1, LockedSteps DEF End, Steps, TypeOK
  <1>3. \A g \in Hooks : pc'[g] = "idle"
    BY Types DEF OneRuns, End
  <1>4. OneRuns' /\ CopyCovers'
    BY <1>3 DEF OneRuns, CopyCovers
  <1>5. QED
    BY <1>2, <1>4

LEMMA GiveUpInv == ASSUME Inv, NEW h \in Hooks, GiveUp(h) PROVE Inv'
  <1>1. TypeOK' /\ OneRuns' /\ CopyCovers'
    BY EndInv, Types, LockedSteps DEF Inv, GiveUp
  <1>2. QED
    BY <1>1 DEF Inv, GiveUp, KeptUntilAccepted, In

LEMMA EnqueueReadInv == ASSUME Inv, NEW h \in Hooks, EnqueueRead(h) PROVE Inv'
  <1>1. event[h] \in Events
    BY DEF Inv, CopyCovers, EnqueueRead
  <1>2. [queue EXCEPT ![event[h]] = "due"] \in Queue
    BY <1>1, Types DEF Inv, Queue
  <1>3. TypeOK'
    BY <1>2, LockedSteps DEF Inv, EnqueueRead, Steps, TypeOK
  <1>4. OneRuns'
    BY Types DEF Inv, EnqueueRead, OneRuns
  <1>5. CopyCovers'
    BY <1>1, Types DEF Inv, EnqueueRead, OneRuns, CopyCovers, In, Queue
  <1>6. QED
    BY <1>3, <1>4, <1>5 DEF Inv, EnqueueRead, KeptUntilAccepted, In

LEMMA EnqueueWriteInv == ASSUME Inv, NEW h \in Hooks, EnqueueWrite(h) PROVE Inv'
  <1>1. /\ event[h] \in Events
        /\ In(queue) \cup {event[h]} \subseteq In(copy[h])
    BY DEF Inv, CopyCovers, EnqueueWrite
  <1>2. TypeOK'
    BY <1>1, LockedSteps DEF Inv, EnqueueWrite, Steps, TypeOK
  <1>3. OneRuns'
    BY Types DEF Inv, EnqueueWrite, OneRuns
  <1>4. CopyCovers'
    BY <1>3, Types DEF Inv, EnqueueWrite, OneRuns, CopyCovers
  <1>5. KeptUntilAccepted'
    BY <1>1 DEF Inv, EnqueueWrite, KeptUntilAccepted, In
  <1>6. QED
    BY <1>2, <1>3, <1>4, <1>5 DEF Inv

LEMMA FetchInv == ASSUME Inv, NEW h \in Hooks, Fetch(h) PROVE Inv'
  <1>1. In(queue) \subseteq Events
    BY DEF In
  <1>2. TypeOK'
    BY <1>1, LockedSteps DEF Inv, Fetch, Steps, TypeOK
  <1>3. OneRuns'
    BY Types DEF Inv, Fetch, OneRuns
  <1>4. CopyCovers'
    BY Types DEF Inv, Fetch, OneRuns, CopyCovers, In
  <1>5. QED
    BY <1>2, <1>3, <1>4 DEF Inv, Fetch, KeptUntilAccepted, In

LEMMA SkipInv == ASSUME Inv, NEW h \in Hooks, NEW e \in Events, Skip(h, e) PROVE Inv'
  <1>1. TypeOK'
    BY LockedSteps DEF Inv, Skip, TypeOK
  <1>2. OneRuns' /\ CopyCovers' /\ KeptUntilAccepted'
    BY DEF Inv, Skip, OneRuns, CopyCovers, KeptUntilAccepted, In
  <1>3. QED
    BY <1>1, <1>2 DEF Inv

\* Send: an event leaves the copy only when the API has stored it.
LEMMA SendInv == ASSUME Inv, NEW h \in Hooks, NEW e \in Events, Send(h, e) PROVE Inv'
  <1>1. PICK stored \in BOOLEAN, failed \in BOOLEAN :
          /\ stored \/ failed
          /\ accepted' = IF stored THEN accepted \cup {e} ELSE accepted
          /\ copy' = [copy EXCEPT ![h][e] = Retained(failed)]
    BY DEF Send
  <1>2. copy' = [copy EXCEPT ![h] = [copy[h] EXCEPT ![e] = Retained(failed)]]
    BY <1>1
  <1>3. copy[h] \in Queue /\ Retained(failed) \in {"absent", "waiting"}
    BY Types DEF Inv, Retained
  <1>4. /\ copy'[h] = [copy[h] EXCEPT ![e] = Retained(failed)]
        /\ \A g \in Hooks : g # h => copy'[g] = copy[g]
        /\ copy' \in [Hooks -> Queue]
    BY <1>2, <1>3, Types DEF Inv, Queue
  <1>5. TypeOK'
    BY <1>1, <1>4, LockedSteps DEF Inv, Send, TypeOK
  <1>6. OneRuns' /\ KeptUntilAccepted'
    BY <1>1 DEF Inv, Send, OneRuns, KeptUntilAccepted, In
  <1>7. In(copy[h]) \subseteq In(copy'[h]) \cup {e}
    BY <1>3, <1>4 DEF In, Queue
  <1>8. ~failed => accepted' = accepted \cup {e}
    BY <1>1
  <1>9. failed => In(copy[h]) \subseteq In(copy'[h])
    BY <1>3, <1>4 DEF In, Queue, Retained
  <1>10. accepted \subseteq accepted'
    BY <1>1
  <1>11. CopyCovers'
    <2>1. ASSUME NEW g \in Hooks, g # h
          PROVE  pc'[g] = "idle"
      BY <2>1, Types DEF Inv, Send, OneRuns
    <2>2. /\ pc'[h] = "send" /\ event'[h] \in Events
          /\ In(queue') \subseteq In(copy'[h]) \cup accepted'
      BY <1>7, <1>8, <1>9, <1>10 DEF Inv, Send, CopyCovers, In
    <2>3. QED
      BY <2>1, <2>2 DEF CopyCovers
  <1>12. QED
    BY <1>5, <1>6, <1>11 DEF Inv

LEMMA SentInv == ASSUME Inv, NEW h \in Hooks, Sent(h) PROVE Inv'
  <1>1. TypeOK'
    BY LockedSteps DEF Inv, Sent, Steps, TypeOK
  <1>2. OneRuns' /\ CopyCovers' /\ KeptUntilAccepted'
    BY Types DEF Inv, Sent, OneRuns, CopyCovers, KeptUntilAccepted, In
  <1>3. QED
    BY <1>1, <1>2 DEF Inv

LEMMA ReplaceInv == ASSUME Inv, NEW h \in Hooks, Replace(h) PROVE Inv'
  <1>1. In(queue) \subseteq In(copy[h]) \cup accepted
    BY DEF Inv, CopyCovers, Replace
  <1>2. TypeOK' /\ OneRuns' /\ CopyCovers'
    BY EndInv, Types DEF Inv, Replace
  <1>3. QED
    BY <1>1, <1>2 DEF Inv, Replace, KeptUntilAccepted, In

\* Crash: the file was replaced before the hook died, or it was not.
LEMMA CrashInv == ASSUME Inv, NEW h \in Hooks, Crash(h) PROVE Inv'
  <1>1. CASE UNCHANGED <<queue, saved>>
    <2>1. TypeOK' /\ OneRuns' /\ CopyCovers'
      BY <1>1, EndInv, Types DEF Inv, Crash
    <2>2. QED
      BY <1>1, <2>1 DEF Inv, Crash, KeptUntilAccepted, In
  <1>2. CASE /\ pc[h] \in {"write", "replace"}
             /\ queue' = copy[h]
             /\ saved' = IF pc[h] = "write" THEN saved \cup {event[h]} ELSE saved
    <2>1. event[h] \in Events
      BY <1>2 DEF Inv, CopyCovers
    <2>2. TypeOK' /\ OneRuns' /\ CopyCovers'
      BY <1>2, <2>1, EndInv, Types DEF Inv, Crash
    <2>3. KeptUntilAccepted'
      BY <1>2, <2>1 DEF Inv, Crash, CopyCovers, KeptUntilAccepted, In
    <2>4. QED
      BY <2>2, <2>3 DEF Inv
  <1>3. QED
    BY <1>1, <1>2 DEF Crash

LEMMA RipenInv == ASSUME Inv, NEW e \in Events, Ripen(e) PROVE Inv'
  <1>1. queue' \in Queue /\ In(queue') = In(queue)
    BY Types DEF Inv, Ripen, Queue, In
  <1>2. TypeOK'
    BY <1>1, LockedSteps DEF Inv, Ripen, hookVars, TypeOK
  <1>3. OneRuns' /\ CopyCovers' /\ KeptUntilAccepted'
    BY <1>1 DEF Inv, Ripen, hookVars, OneRuns, CopyCovers, KeptUntilAccepted, In
  <1>4. QED
    BY <1>2, <1>3 DEF Inv

---------------------------------------------------------------------------

\* The strengthened invariant holds in every reachable state.
THEOREM Invariance == ASSUME ~Overlap PROVE Spec => []Inv
  <1>1. ASSUME Inv, [Next]_vars PROVE Inv'
    <2>1. CASE \E h \in Hooks, e \in Events : Capture(h, e)
      BY <1>1, <2>1, CaptureInv
    <2>2. CASE \E h \in Hooks : Step(h)
      BY <1>1, <2>2, AcquireInv, GiveUpInv, EnqueueReadInv, EnqueueWriteInv, FetchInv,
         SentInv, ReplaceInv, SkipInv, SendInv DEF Step
    <2>3. CASE \E h \in Hooks : Crash(h)
      BY <1>1, <2>3, CrashInv
    <2>4. CASE \E e \in Events : Ripen(e)
      BY <1>1, <2>4, RipenInv
    <2>5. CASE UNCHANGED vars
      BY <1>1, <2>5
      DEF vars, hookVars, Inv, TypeOK, OneRuns, CopyCovers, KeptUntilAccepted, In
    <2>6. QED
      BY <1>1, <2>1, <2>2, <2>3, <2>4, <2>5 DEF Next
  <1>2. QED
    BY InitInv, <1>1, PTL DEF Spec

\* When hooks run one at a time no queued prompt is lost: not by a failed
\* call, a lost answer or a hook killed at any step (enqueue and flush).
THEOREM NothingQueuedIsLost == ASSUME ~Overlap PROVE Spec => []KeptUntilAccepted
  <1>1. Inv => KeptUntilAccepted BY DEF Inv
  <1>2. QED BY Invariance, <1>1, PTL

---------------------------------------------------------------------------
(* The queue's types, whether hooks overlap or not.                        *)

QueueTypes == TypeOK /\ \A h \in Hooks : pc[h] # "idle" => event[h] \in Events

LEMMA QueueTypesStep == ASSUME QueueTypes, [Next]_vars PROVE QueueTypes'
  <1> USE LockedSteps DEF QueueTypes, TypeOK, Steps
  <1>a. EmptyQueue \in Queue
    BY DEF EmptyQueue, Queue
  <1>1. ASSUME NEW h \in Hooks, NEW e \in Events, Capture(h, e)
        PROVE  QueueTypes'
    BY <1>1 DEF Capture
  <1>2. ASSUME NEW h \in Hooks, Acquire(h) \/ Sent(h)
        PROVE  QueueTypes'
    BY <1>2 DEF Acquire, Sent
  <1>3. ASSUME NEW h \in Hooks, End(h), queue' \in Queue, lock' \in Hooks \cup {None},
               accepted' = accepted, saved' \subseteq Events
        PROVE  QueueTypes'
    BY <1>a, <1>3 DEF End
  <1>4. ASSUME NEW h \in Hooks, EnqueueRead(h)
        PROVE  QueueTypes'
    <2>1. [queue EXCEPT ![event[h]] = "due"] \in Queue
      BY <1>4 DEF EnqueueRead, Queue
    <2>2. QED
      BY <1>4, <2>1 DEF EnqueueRead
  <1>5. ASSUME NEW h \in Hooks, EnqueueWrite(h)
        PROVE  QueueTypes'
    BY <1>5 DEF EnqueueWrite
  <1>6. ASSUME NEW h \in Hooks, Fetch(h)
        PROVE  QueueTypes'
    BY <1>6 DEF Fetch, In
  <1>7. ASSUME NEW h \in Hooks, NEW e \in Events, Skip(h, e)
        PROVE  QueueTypes'
    BY <1>7 DEF Skip
  <1>8. ASSUME NEW h \in Hooks, NEW e \in Events, Send(h, e)
        PROVE  QueueTypes'
    <2>1. PICK failed \in BOOLEAN : copy' = [copy EXCEPT ![h][e] = Retained(failed)]
      BY <1>8 DEF Send
    <2>2. [copy[h] EXCEPT ![e] = Retained(failed)] \in Queue
      BY DEF Queue, Retained
    <2>3. copy' \in [Hooks -> Queue]
      BY <2>1, <2>2
    <2>4. QED
      BY <1>8, <2>3 DEF Send
  <1>9. ASSUME NEW h \in Hooks, GiveUp(h) \/ Replace(h) \/ Crash(h)
        PROVE  QueueTypes'
    <2>1. /\ End(h) /\ queue' \in Queue /\ lock' \in Hooks \cup {None}
          /\ accepted' = accepted /\ saved' \subseteq Events
      BY <1>9 DEF GiveUp, Replace, Crash
    <2>2. QED
      BY <1>3, <2>1
  <1>10. ASSUME NEW e \in Events, Ripen(e)
         PROVE  QueueTypes'
    BY <1>10 DEF Ripen, hookVars, Queue
  <1>11. CASE UNCHANGED vars
    BY <1>11 DEF vars, hookVars
  <1>12. QED
    BY <1>1, <1>2, <1>4, <1>5, <1>6, <1>7, <1>8, <1>9, <1>10, <1>11 DEF Next, Step

\* Every variable of the queue keeps its type, also when hooks overlap.
THEOREM QueueTypeCorrect == Spec => []TypeOK
  <1>1. Init => QueueTypes
    BY InitInv DEF Init, Inv, QueueTypes
  <1>2. QueueTypes /\ [Next]_vars => QueueTypes'
    BY QueueTypesStep
  <1>3. QueueTypes => TypeOK
    BY DEF QueueTypes
  <1>4. QED
    BY <1>1, <1>2, <1>3, PTL DEF Spec

---------------------------------------------------------------------------
(* The composition with the API.                                           *)

\* A request that holds an event's key is alone with it, and the event is not
\* stored yet; one that answers ok, or lost the key to another, found it stored.
ServesOnce ==
    /\ \A r \in Requests :
        /\ step[r] \in {"read", "insert", "tags", "ok"} => sent[r] \in Events
        /\ tag[r] # None => step[r] = "tags"
        /\ step[r] = "tags" => rows[sent[r]] = 0
        /\ step[r] = "ok" => Api!Stored(sent[r])
        /\ retried[r] /\ r \notin tagHit =>
              step[r] \in {"read", "ok", "failed"} /\ sent[r] \in Events /\ Api!Stored(sent[r])
        /\ step[r] = "conflict" => r \in tagHit
    /\ \A q, r \in Requests :
        step[q] = "tags" /\ step[r] = "tags" /\ sent[q] = sent[r] => q = r
    /\ OneRowPerEvent

\* A hook waits for a request of its own, with an event it still has to handle.
Waiting ==
    /\ \A h \in Hooks : call[h] # None =>
        pc[h] = "send" /\ step[call[h]] # "idle" /\ sent[call[h]] \in todo[h]
    /\ \A g, h \in Hooks : call[g] # None /\ call[g] = call[h] => g = h

CompositionInv ==
    /\ QueueTypes
    /\ Api!TypeOK
    /\ call \in [Hooks -> Requests \cup {None}]
    /\ ServesOnce
    /\ Waiting
    /\ AcceptedIsStored

LEMMA InitComposition == CaptureInit => CompositionInv
  <1> SUFFICES ASSUME CaptureInit PROVE CompositionInv
    OBVIOUS
  <1>1. QueueTypes
    BY InitInv DEF CaptureInit, Init, Inv, QueueTypes
  <1>2. Api!TypeOK /\ call \in [Hooks -> Requests \cup {None}]
    BY DEF CaptureInit, Api!Init, Api!TypeOK
  <1>3. ServesOnce
    BY DEF CaptureInit, Api!Init, ServesOnce, OneRowPerEvent, Api!OneRowPerEvent
  <1>4. Waiting /\ AcceptedIsStored
    BY DEF CaptureInit, Init, Waiting, AcceptedIsStored
  <1>5. QED
    BY <1>1, <1>2, <1>3, <1>4 DEF CompositionInv

\* What the API does, for the requests of hooks that wait and of hooks that do not.
ApiStep ==
    \/ \E r \in Requests :
        \/ \E e \in Events : Api!Receive(r, e)
        \/ Api!Serve(r) \/ Api!Abort(r) \/ Api!Release(r)
    \/ Api!Archive \/ Api!Restore
    \/ UNCHANGED apiVars

Serves == Api!TypeOK /\ ServesOnce
StoredStays == \A e \in Events : Api!Stored(e) => Api!Stored(e)'

LEMMA ReceiveStep ==
  ASSUME Serves, NEW r \in Requests, NEW e \in Events, Api!Receive(r, e)
  PROVE  Serves' /\ StoredStays
  <1> USE DEF Serves, Api!Receive, Api!Goto, Api!Stored, Api!TypeOK
  <1>1. Api!TypeOK' /\ StoredStays
    BY DEF StoredStays
  <1>2. ServesOnce'
    BY RequestsAssumption DEF ServesOnce, OneRowPerEvent, Api!OneRowPerEvent
  <1>3. QED
    BY <1>1, <1>2

LEMMA ReadStep ==
  ASSUME Serves, NEW r \in Requests, Api!Read(r)
  PROVE  Serves' /\ StoredStays
  <1> USE DEF Serves, Api!Read, Api!Goto, Api!Duplicate, Api!Stored, Api!TypeOK
  <1>1. Api!TypeOK' /\ StoredStays
    BY DEF StoredStays, Api!Answers
  <1>2. ServesOnce'
    BY DEF ServesOnce, OneRowPerEvent, Api!OneRowPerEvent
  <1>3. QED
    BY <1>1, <1>2

\* Conflict: the first one starts over; a second one had a tag's before it.
LEMMA ConflictStep ==
  ASSUME Serves, NEW r \in Requests, Api!Conflict(r), step[r] \in {"insert", "tags"},
         \/ Api!Stored(sent[r]) /\ UNCHANGED tagHit
         \/ tagHit' = tagHit \cup {r}
  PROVE  Serves' /\ StoredStays
  <1> USE RequestsAssumption
      DEF Serves, Api!Conflict, Api!MayRetry, Api!Close, Api!Goto, Api!Stored, Api!TypeOK
  <1>1. Api!TypeOK' /\ StoredStays
    BY DEF StoredStays, Api!Answers
  <1>2. ServesOnce'
    BY DEF ServesOnce, OneRowPerEvent, Api!OneRowPerEvent
  <1>3. QED
    BY <1>1, <1>2

\* Insert waits for a request that holds the event's key, so it is alone with it.
LEMMA InsertStep ==
  ASSUME Serves, NEW r \in Requests, Api!Insert(r)
  PROVE  Serves' /\ StoredStays
  <1>1. CASE Api!Stored(sent[r])
    BY <1>1, ConflictStep DEF Api!Insert
  <1>2. CASE ~Api!Stored(sent[r])
    <2> USE DEF Serves, Api!Insert, Api!Goto, Api!Stored, Api!TypeOK
    <2>1. Api!TypeOK' /\ StoredStays
      BY <1>2 DEF StoredStays
    <2>2. /\ step[r] = "insert" /\ sent[r] \in Events /\ rows[sent[r]] = 0
          /\ \A q \in Requests \ {r} : ~(step[q] = "tags" /\ sent[q] = sent[r])
      BY <1>2 DEF ServesOnce, Api!Waits, Api!Blocks
    <2>3. ServesOnce'
      BY <1>2, <2>2 DEF ServesOnce, OneRowPerEvent, Api!OneRowPerEvent
    <2>4. QED
      BY <2>1, <2>3
  <1>3. QED
    BY <1>1, <1>2

LEMMA UpsertReadStep ==
  ASSUME Serves, NEW r \in Requests, Api!UpsertRead(r)
  PROVE  Serves' /\ StoredStays
  <1> USE DEF Serves, Api!UpsertRead, Api!Stored, Api!TypeOK
  <1>1. TagsOf[sent[r]] \subseteq Tags
    BY TagsOfAssumption DEF ServesOnce
  <1>2. Api!TypeOK' /\ StoredStays
    BY <1>1 DEF StoredStays
  <1>3. ServesOnce'
    BY DEF ServesOnce, OneRowPerEvent, Api!OneRowPerEvent
  <1>4. QED
    BY <1>2, <1>3

LEMMA UpsertWriteStep ==
  ASSUME Serves, NEW r \in Requests, Api!UpsertWrite(r)
  PROVE  Serves' /\ StoredStays
  <1>1. tag[r] \in Tags /\ step[r] = "tags"
    BY DEF Serves, Api!UpsertWrite, Api!TypeOK, ServesOnce
  <1>2. CASE Api!Conflict(r) /\ tagHit' = tagHit \cup {r}
    BY <1>1, <1>2, ConflictStep
  <1>3. CASE ~(Api!Conflict(r) /\ tagHit' = tagHit \cup {r})
    <2> USE DEF Serves, Api!UpsertWrite, Api!Stored, Api!TypeOK
    <2>1. Api!TypeOK'
      <3>1. made' \in [Requests -> SUBSET Tags] /\ held' \in [Requests -> SUBSET Tags]
        BY <1>1, <1>3
      <3>2. QED
        BY <1>1, <1>3, <3>1
    <2>2. StoredStays
      BY <1>3 DEF StoredStays
    <2>3. ServesOnce'
      BY <1>1, <1>3, RequestsAssumption DEF ServesOnce, OneRowPerEvent, Api!OneRowPerEvent
    <2>4. QED
      BY <2>1, <2>2, <2>3
  <1>4. QED
    BY <1>2, <1>3

\* Commit: the one request that holds the event's key adds its one row.
LEMMA CommitStep ==
  ASSUME Serves, NEW r \in Requests, Api!Commit(r)
  PROVE  Serves' /\ StoredStays
  <1> USE RequestsAssumption
      DEF Serves, Api!Commit, Api!Close, Api!Goto, Api!Stored, Api!TypeOK
  <1>a. sent[r] \in Events /\ rows[sent[r]] = 0
    BY DEF ServesOnce
  <1>1. sent[r] \in Events /\ rows[sent[r]] = 0 /\ rows' = [rows EXCEPT ![sent[r]] = 1]
    BY <1>a
  <1>2. Api!TypeOK' /\ StoredStays
    BY <1>1 DEF StoredStays, Api!Answers
  <1>3. ServesOnce'
    BY <1>1 DEF ServesOnce, OneRowPerEvent, Api!OneRowPerEvent
  <1>4. QED
    BY <1>2, <1>3

LEMMA FailStep ==
  ASSUME Serves, NEW r \in Requests, Api!Fail(r)
  PROVE  Serves' /\ StoredStays
  <1> USE RequestsAssumption
      DEF Serves, Api!Fail, Api!Close, Api!Goto, Api!Stored, Api!TypeOK
  <1>1. Api!TypeOK' /\ StoredStays
    BY DEF StoredStays, Api!Answers
  <1>2. ServesOnce'
    BY DEF ServesOnce, OneRowPerEvent, Api!OneRowPerEvent
  <1>3. QED
    BY <1>1, <1>2

LEMMA ReleaseStep ==
  ASSUME Serves, NEW r \in Requests, Api!Release(r)
  PROVE  Serves' /\ StoredStays
  <1> USE DEF Serves, Api!Release, Api!Goto, Api!Stored, Api!TypeOK
  <1>1. Api!TypeOK' /\ StoredStays
    BY DEF StoredStays
  <1>2. ServesOnce'
    BY DEF ServesOnce, OneRowPerEvent, Api!OneRowPerEvent, Api!Answers
  <1>3. QED
    BY <1>1, <1>2

LEMMA ServesStep == ASSUME Serves, ApiStep PROVE Serves' /\ StoredStays
  <1>1. ASSUME NEW r \in Requests, Api!Serve(r)
        PROVE  Serves' /\ StoredStays
    BY <1>1, ReadStep, InsertStep, UpsertReadStep, UpsertWriteStep, CommitStep, FailStep
    DEF Api!Serve, Api!DeadlockVictim
  <1>2. ASSUME NEW r \in Requests, Api!Abort(r) \/ Api!Release(r)
        PROVE  Serves' /\ StoredStays
    BY <1>2, FailStep, ReleaseStep DEF Api!Abort
  <1>3. CASE Api!Archive \/ Api!Restore \/ UNCHANGED apiVars
    BY <1>3
    DEF Api!Archive, Api!Restore, Api!requestVars, apiVars, Serves, Api!TypeOK, Api!Stored,
        StoredStays, ServesOnce, OneRowPerEvent, Api!OneRowPerEvent
  <1>4. QED
    BY <1>1, <1>2, <1>3, ReceiveStep DEF ApiStep

\* Every step of the composition is one of the API, or leaves it alone.
LEMMA StepIsApi == ASSUME CompositionInv, [CaptureNext]_captureVars PROVE ApiStep
  <1>1. ASSUME NEW h \in Hooks, Answer(h)
        PROVE  ApiStep
    <2>1. call[h] \in Requests /\ Api!Release(call[h])
      BY <1>1 DEF Answer, CompositionInv
    <2>2. QED
      BY <2>1 DEF ApiStep
  <1>2. ASSUME NEW h \in Hooks, NEW e \in Events, NEW r \in Requests, Post(h, e, r)
        PROVE  ApiStep
    BY <1>2 DEF Post, ApiStep
  <1>3. ASSUME NEW h \in Hooks, Local(h) \/ Lose(h) \/ Kill(h)
        PROVE  ApiStep
    BY <1>3 DEF Local, Lose, Kill, ApiStep
  <1>4. ASSUME NEW r \in Requests, Serve(r)
        PROVE  ApiStep
    BY <1>4 DEF Serve, Drop, ApiStep
  <1>5. CASE Disturb \/ User \/ UNCHANGED captureVars
    BY <1>5 DEF Disturb, User, captureVars, ApiStep
  <1>6. QED
    BY <1>1, <1>2, <1>3, <1>4, <1>5 DEF CaptureNext, Run

\* What the composition hides from the queue: a call is one step Send, which
\* happens when its answer arrives or is lost.
LEMMA StepIsQueue ==
  ASSUME CompositionInv, [CaptureNext]_captureVars
  PROVE  [Next]_vars
  <1>1. ASSUME NEW h \in Hooks, call[h] # None
        PROVE  pc[h] = "send" /\ sent[call[h]] \in todo[h] /\ sent[call[h]] \in Events
    BY <1>1 DEF CompositionInv, Waiting, QueueTypes, TypeOK
  <1>2. ASSUME NEW h \in Hooks, Answer(h)
        PROVE  Send(h, sent[call[h]])
    <2> DEFINE stored == step[call[h]] = "ok"
               failed == Refused(step[call[h]])
    <2>1. /\ stored \in BOOLEAN /\ failed \in BOOLEAN
          /\ stored \/ failed
          /\ accepted' = IF stored THEN accepted \cup {sent[call[h]]} ELSE accepted
          /\ copy' = [copy EXCEPT ![h][sent[call[h]]] = Retained(failed)]
      BY <1>2 DEF Answer, Handled, Refused
    <2> HIDE DEF stored, failed
    <2>2. \E s, f \in BOOLEAN :
            /\ s \/ f
            /\ accepted' = IF s THEN accepted \cup {sent[call[h]]} ELSE accepted
            /\ copy' = [copy EXCEPT ![h][sent[call[h]]] = Retained(f)]
      BY <2>1
    <2>3. /\ todo' = [todo EXCEPT ![h] = @ \ {sent[call[h]]}]
          /\ UNCHANGED <<queue, lock, saved, pc, event>>
      BY <1>2 DEF Answer, Handled
    <2>4. pc[h] = "send" /\ sent[call[h]] \in todo[h]
      BY <1>1, <1>2 DEF Answer
    <2>5. QED
      BY <2>2, <2>3, <2>4 DEF Send
  <1>3. ASSUME NEW h \in Hooks, Lose(h)
        PROVE  Send(h, sent[call[h]])
    <2>1. \E s, f \in BOOLEAN :
            /\ s \/ f
            /\ accepted' = IF s THEN accepted \cup {sent[call[h]]} ELSE accepted
            /\ copy' = [copy EXCEPT ![h][sent[call[h]]] = Retained(f)]
      <3>1. accepted' = accepted /\ copy' = [copy EXCEPT ![h][sent[call[h]]] = Retained(TRUE)]
        BY <1>3 DEF Lose, Handled
      <3>2. WITNESS FALSE \in BOOLEAN, TRUE \in BOOLEAN
      <3>3. QED
        BY <3>1
    <2>2. /\ todo' = [todo EXCEPT ![h] = @ \ {sent[call[h]]}]
          /\ UNCHANGED <<queue, lock, saved, pc, event>>
      BY <1>3 DEF Lose, Handled
    <2>3. pc[h] = "send" /\ sent[call[h]] \in todo[h]
      BY <1>1, <1>3 DEF Lose
    <2>4. QED
      BY <2>1, <2>2, <2>3 DEF Send
  <1>4. ASSUME NEW h \in Hooks, Answer(h) \/ Lose(h)
        PROVE  Next
    <2>1. sent[call[h]] \in Events
      BY <1>1, <1>4 DEF Answer, Lose
    <2>2. QED
      BY <1>2, <1>3, <1>4, <2>1 DEF Next, Step
  <1>5. ASSUME NEW h \in Hooks, Local(h) \/ Kill(h)
        PROVE  Next
    BY <1>5 DEF Local, Kill, Next, Step
  <1>6. CASE User
    BY <1>6 DEF User, Next
  <1>7. CASE \/ \E h \in Hooks, e \in Events, r \in Requests : Post(h, e, r)
             \/ \E r \in Requests : Serve(r)
             \/ Disturb
             \/ UNCHANGED captureVars
    BY <1>7 DEF Post, Serve, Drop, Disturb, captureVars
  <1>8. QED
    BY <1>4, <1>5, <1>6, <1>7 DEF CaptureNext, Run

\* Two hooks never wait for one request, and the event it carries stays to be
\* handled until its answer arrives or is lost.
LEMMA WaitingStep ==
  ASSUME CompositionInv, [CaptureNext]_captureVars
  PROVE  Waiting' /\ (call \in [Hooks -> Requests \cup {None}])'
  <1> USE RequestsAssumption DEF CompositionInv, Waiting, QueueTypes
  <1>a. \A r \in Requests : \A h \in Hooks : step[r] = "idle" => call[h] # r
    OBVIOUS
  \* A step of a request nobody waits for, or one that leaves it to be answered.
  <1>1. ASSUME call' = call,
               \A h \in Hooks : call[h] # None =>
                  /\ pc'[h] = pc[h] /\ todo'[h] = todo[h]
                  /\ step'[call[h]] # "idle" /\ sent'[call[h]] = sent[call[h]]
        PROVE  Waiting' /\ (call \in [Hooks -> Requests \cup {None}])'
    BY <1>1
  <1>2. ASSUME NEW h \in Hooks, NEW e \in Events, NEW r \in Requests, Post(h, e, r)
        PROVE  Waiting' /\ (call \in [Hooks -> Requests \cup {None}])'
    <2>1. /\ call' = [call EXCEPT ![h] = r] /\ call[h] = None
          /\ UNCHANGED <<pc, todo>> /\ pc[h] = "send" /\ e \in todo[h]
          /\ step[r] = "idle" /\ step'[r] = "read" /\ sent'[r] = e
          /\ \A q \in Requests \ {r} : step'[q] = step[q] /\ sent'[q] = sent[q]
      BY <1>2 DEF Post, Api!Receive, Api!Goto, Api!TypeOK, vars, hookVars
    <2>2. QED
      BY <1>a, <2>1
  <1>3. ASSUME NEW h \in Hooks, Answer(h) \/ Lose(h)
        PROVE  Waiting' /\ (call \in [Hooks -> Requests \cup {None}])'
    <2>1. /\ call' = [call EXCEPT ![h] = None] /\ call[h] # None /\ pc' = pc
          /\ \A g \in Hooks \ {h} : todo'[g] = todo[g]
          /\ \A q \in Requests \ {call[h]} : step'[q] = step[q] /\ sent'[q] = sent[q]
      BY <1>3 DEF Answer, Lose, Handled, Api!Release, Api!Goto, Api!TypeOK, apiVars, TypeOK
    <2>2. QED
      BY <2>1
  <1>4. ASSUME NEW h \in Hooks, Kill(h)
        PROVE  Waiting' /\ (call \in [Hooks -> Requests \cup {None}])'
    <2>1. /\ call' = [call EXCEPT ![h] = None] /\ UNCHANGED <<step, sent>>
          /\ \A g \in Hooks \ {h} : pc'[g] = pc[g] /\ todo'[g] = todo[g]
      BY <1>4 DEF Kill, Crash, End, apiVars, TypeOK
    <2>2. QED
      BY <2>1
  <1>5. ASSUME NEW h \in Hooks, Local(h)
        PROVE  Waiting' /\ (call \in [Hooks -> Requests \cup {None}])'
    <2>1. UNCHANGED <<step, sent, call>>
      BY <1>5 DEF Local, apiVars
    <2>2. \A g \in Hooks \ {h} : pc'[g] = pc[g] /\ todo'[g] = todo[g]
      BY <1>5 DEF Local, Acquire, GiveUp, EnqueueRead, EnqueueWrite, Fetch, Sent, Replace, Skip,
                  End, TypeOK
    <2>3. call[h] = None
      BY <1>5, LockedSteps DEF Local, Acquire, GiveUp, EnqueueRead, EnqueueWrite, Fetch, Sent,
                               Replace, Skip
    <2>4. QED
      BY <1>1, <2>1, <2>2, <2>3
  <1>6. ASSUME NEW r \in Requests, Drop(r)
        PROVE  Waiting' /\ (call \in [Hooks -> Requests \cup {None}])'
    <2>1. /\ UNCHANGED <<pc, todo, call>> /\ \A h \in Hooks : call[h] # r
          /\ \A q \in Requests \ {r} : step'[q] = step[q] /\ sent'[q] = sent[q]
      BY <1>6 DEF Drop, Api!Release, Api!Goto, Api!TypeOK, vars, hookVars
    <2>2. QED
      BY <1>1, <2>1
  <1>7. ASSUME NEW r \in Requests, Api!Serve(r) \/ Api!Abort(r), UNCHANGED <<vars, call>>
        PROVE  Waiting' /\ (call \in [Hooks -> Requests \cup {None}])'
    <2>1. /\ sent' = sent
          /\ step'[r] # "idle" \/ step'[r] = step[r]
          /\ \A q \in Requests \ {r} : step'[q] = step[q]
      BY <1>7 DEF Api!Serve, Api!Abort, Api!Read, Api!Insert, Api!UpsertRead, Api!UpsertWrite,
                  Api!Commit, Api!DeadlockVictim, Api!Fail, Api!Conflict, Api!Goto, Api!TypeOK
    <2>2. QED
      BY <1>1, <1>7, <2>1 DEF vars, hookVars
  <1>8. CASE User
    <2>1. /\ UNCHANGED <<step, sent, call, todo>>
          /\ \A h \in Hooks : call[h] # None => pc'[h] = pc[h]
      BY <1>8 DEF User, Capture, Ripen, apiVars, hookVars, TypeOK
    <2>2. QED
      BY <1>1, <2>1
  <1>9. CASE (Api!Archive \/ Api!Restore) /\ UNCHANGED <<vars, call>>
    BY <1>1, <1>9 DEF Api!Archive, Api!Restore, Api!requestVars, vars, hookVars
  <1>10. CASE UNCHANGED captureVars
    BY <1>1, <1>10 DEF captureVars, vars, hookVars, apiVars
  <1>11. QED
    BY <1>2, <1>3, <1>4, <1>5, <1>6, <1>7, <1>8, <1>9, <1>10
    DEF CaptureNext, Run, Serve, Disturb

\* An event is accepted only when its request answers that it is stored.
LEMMA AcceptedStep ==
  ASSUME CompositionInv, [CaptureNext]_captureVars
  PROVE  AcceptedIsStored'
  <1>1. StoredStays
    BY ServesStep, StepIsApi DEF CompositionInv, Serves
  <1>2. accepted \subseteq Events
    BY DEF CompositionInv, QueueTypes, TypeOK
  <1>3. CASE accepted' = accepted
    BY <1>1, <1>2, <1>3 DEF CompositionInv, AcceptedIsStored, StoredStays
  <1>4. ASSUME NEW h \in Hooks, Answer(h), accepted' # accepted
        PROVE  AcceptedIsStored'
    <2>1. /\ call[h] \in Requests /\ step[call[h]] = "ok"
          /\ accepted' = accepted \cup {sent[call[h]]}
      BY <1>4 DEF Answer, CompositionInv
    <2>2. sent[call[h]] \in Events /\ Api!Stored(sent[call[h]])
      BY <2>1 DEF CompositionInv, ServesOnce
    <2>3. QED
      BY <1>1, <1>2, <2>1, <2>2 DEF CompositionInv, AcceptedIsStored, StoredStays
  <1>5. (\E h \in Hooks : Answer(h)) \/ accepted' = accepted
    BY DEF CaptureNext, Run, Local, Post, Lose, Kill, Serve, Drop, Disturb, User, captureVars, vars,
           Acquire, GiveUp, EnqueueRead, EnqueueWrite, Fetch, Sent, Replace, Skip, Crash, Capture,
           Ripen
  <1>6. QED
    BY <1>3, <1>4, <1>5

---------------------------------------------------------------------------

\* The invariant of the composition holds in every reachable state.
THEOREM CompositionInvariance == CaptureSpec => []CompositionInv
  <1>1. ASSUME CompositionInv, [CaptureNext]_captureVars PROVE CompositionInv'
    BY <1>1, StepIsQueue, QueueTypesStep, StepIsApi, ServesStep, WaitingStep, AcceptedStep
    DEF CompositionInv, Serves
  <1>2. QED
    BY InitComposition, <1>1, PTL DEF CaptureSpec

\* Every variable of the hooks and of the API keeps its type.
THEOREM CaptureTypeCorrect == CaptureSpec => []CaptureTypeOK
  <1>1. CompositionInv => CaptureTypeOK
    BY DEF CompositionInv, QueueTypes, CaptureTypeOK
  <1>2. QED
    BY CompositionInvariance, <1>1, PTL

\* However many requests carry an event at once, one prompt is stored for it
\* (prompts.service.ts 35-59, 130-136).
THEOREM StoredOnce == CaptureSpec => []OneRowPerEvent
  <1>1. CompositionInv => OneRowPerEvent
    BY DEF CompositionInv, ServesOnce
  <1>2. QED
    BY CompositionInvariance, <1>1, PTL

\* A request that meets no conflict over a tag, first or second, is never
\* answered with a conflict: one retry is enough for its event (lines 130-136).
THEOREM RetryIsEnough == CaptureSpec => []SecondConflictFromTags
  <1>1. CompositionInv => SecondConflictFromTags
    BY DEF CompositionInv, ServesOnce, SecondConflictFromTags, Api!SecondConflictFromTags
  <1>2. QED
    BY CompositionInvariance, <1>1, PTL

\* What a hook takes for stored, and drops from its queue, is stored.
THEOREM AcceptedWasStored == CaptureSpec => []AcceptedIsStored
  <1>1. CompositionInv => AcceptedIsStored
    BY DEF CompositionInv
  <1>2. QED
    BY CompositionInvariance, <1>1, PTL

\* The hooks and the API together implement the queue, which knows the API only
\* as one that stores an event or does not, and answers or does not.
THEOREM CaptureImplementsQueue == CaptureSpec => ImplementsQueue
  <1>1. CaptureInit => Init
    BY DEF CaptureInit
  <1>2. CompositionInv /\ [CaptureNext]_captureVars => [Next]_vars
    BY StepIsQueue
  <1>3. QED
    BY <1>1, <1>2, CompositionInvariance, PTL DEF CaptureSpec, ImplementsQueue, Spec

\* When hooks run one at a time, a prompt that was queued is still in the file or
\* has its row in the database, whatever was killed, refused or lost.
THEOREM QueuedOrStored ==
  ASSUME ~Overlap
  PROVE  CaptureSpec => [](\A e \in saved : e \in In(queue) \/ Api!Stored(e))
  <1>1. KeptUntilAccepted /\ AcceptedIsStored
          => \A e \in saved : e \in In(queue) \/ Api!Stored(e)
    BY DEF KeptUntilAccepted, AcceptedIsStored
  <1>2. Spec => []KeptUntilAccepted
    BY NothingQueuedIsLost
  <1>3. CaptureSpec => Spec
    BY CaptureImplementsQueue DEF ImplementsQueue
  <1>4. QED
    BY <1>1, <1>2, <1>3, AcceptedWasStored, PTL

=============================================================================
