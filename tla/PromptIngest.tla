---------------------------- MODULE PromptIngest ----------------------------
(***************************************************************************)
(* POST /ingest/prompts: a request stores the event it carries, once, with *)
(* its tags, analysis and outbox event, or finds it stored already.        *)
(*                                                                         *)
(* A request is a PostgreSQL transaction at READ COMMITTED. A statement    *)
(* waits for a row that another open transaction inserted under the same   *)
(* unique key, or updated. When that one has committed, an INSERT fails on *)
(* the key (P2002) and ingest starts over, once. Whether the tag upsert is *)
(* one INSERT .. ON CONFLICT or a SELECT and an INSERT is left open.       *)
(***************************************************************************)
EXTENDS Naturals, Relation

CONSTANTS
    Events,    \* pairs of an installation and a client event id
    Tags,
    TagsOf,    \* [Events -> SUBSET Tags]
    Requests,  \* requests in flight
    None

VARIABLES
    rows,     \* [Events -> number of prompts committed for the event]
    tags,     \* tags committed
    project,  \* status of the project
    step,     \* [Requests -> next step, or the answer]
    sent,     \* [Requests -> the event of the request]
    retried,  \* [Requests -> BOOLEAN], retriedAfterConflict
    made,     \* [Requests -> tags the transaction has upserted]
    tag,      \* [Requests -> the tag being upserted, or None]
    found,    \* [Requests -> BOOLEAN], the tag existed when the upsert began
    held,     \* [Requests -> tags whose rows the transaction has locked]
    tagHit    \* history: requests that started over because of a tag

requestVars == <<step, sent, retried, made, tag, found, held>>

Answers == {"ok", "failed", "conflict"}

TypeOK ==
    /\ rows \in [Events -> Nat]
    /\ tags \subseteq Tags
    /\ project \in {"ACTIVE", "ARCHIVED"}
    /\ step \in [Requests -> {"idle", "read", "insert", "tags"} \cup Answers]
    /\ sent \in [Requests -> Events \cup {None}]
    /\ retried \in [Requests -> BOOLEAN]
    /\ made \in [Requests -> SUBSET Tags]
    /\ tag \in [Requests -> Tags \cup {None}]
    /\ found \in [Requests -> BOOLEAN]
    /\ held \in [Requests -> SUBSET Tags]
    /\ tagHit \subseteq Requests

Init ==
    /\ rows = [e \in Events |-> 0]
    /\ tags = {}
    /\ project = "ACTIVE"
    /\ step = [r \in Requests |-> "idle"]
    /\ sent = [r \in Requests |-> None]
    /\ retried = [r \in Requests |-> FALSE]
    /\ made = [r \in Requests |-> {}]
    /\ tag = [r \in Requests |-> None]
    /\ found = [r \in Requests |-> FALSE]
    /\ held = [r \in Requests |-> {}]
    /\ tagHit = {}

Stored(e) == rows[e] > 0
Goto(r, s) == step' = [step EXCEPT ![r] = s]

\* The transaction of r ends, and its locks with it.
Close(r) ==
    /\ made' = [made EXCEPT ![r] = {}]
    /\ tag' = [tag EXCEPT ![r] = None]
    /\ found' = [found EXCEPT ![r] = FALSE]
    /\ held' = [held EXCEPT ![r] = {}]

\* q holds what r has to wait for: the prompt of its event, or a tag.
Blocks(q, r) ==
    /\ q # r
    /\ \/ step[r] = "insert" /\ step[q] = "tags" /\ sent[q] = sent[r]
       \/ tag[r] \in held[q]
Waits(r) == \E q \in Requests : Blocks(q, r)

---------------------------------------------------------------------------

Receive(r, e) ==
    /\ step[r] = "idle"
    /\ Goto(r, "read")
    /\ sent' = [sent EXCEPT ![r] = e]
    /\ UNCHANGED <<rows, tags, project, retried, made, tag, found, held, tagHit>>

\* Mutant: a row that is not committed yet counts as a duplicate.
DuplicateDirty(e) == Stored(e) \/ \E q \in Requests : step[q] = "tags" /\ sent[q] = e

Duplicate(e) == Stored(e)

Available == project = "ACTIVE"

\* A duplicate is answered, or refused with 409 if its content is not that of
\* the row (codex takes its event id from the turn); an archived project is
\* refused.
Read(r) ==
    /\ step[r] = "read"
    /\ \/ Duplicate(sent[r]) /\ (Goto(r, "ok") \/ Goto(r, "failed"))
       \/ ~Duplicate(sent[r]) /\ ~Available /\ Goto(r, "failed")
       \/ ~Duplicate(sent[r]) /\ Available /\ Goto(r, "insert")
    /\ UNCHANGED <<rows, tags, project, sent, retried, made, tag, found, held, tagHit>>

\* Mutant: a conflict is never tried again.
MayRetryNever(r) == FALSE

MayRetry(r) == ~retried[r]

\* P2002: the transaction is rolled back and ingest called again, once.
Conflict(r) ==
    /\ \/ MayRetry(r) /\ Goto(r, "read") /\ retried' = [retried EXCEPT ![r] = TRUE]
       \/ ~MayRetry(r) /\ Goto(r, "conflict") /\ UNCHANGED retried
    /\ Close(r)
    /\ UNCHANGED <<rows, tags, project, sent>>

\* Mutant: the unique key of the event is missing.
InsertUnchecked(r) ==
    /\ step[r] = "insert"
    /\ Goto(r, "tags")
    /\ UNCHANGED <<rows, tags, project, sent, retried, made, tag, found, held, tagHit>>

\* prompt.create.
Insert(r) ==
    /\ step[r] = "insert" /\ ~Waits(r)
    /\ \/ /\ ~Stored(sent[r])
          /\ Goto(r, "tags")
          /\ UNCHANGED <<rows, tags, project, sent, retried, made, tag, found, held, tagHit>>
       \/ Stored(sent[r]) /\ Conflict(r) /\ UNCHANGED tagHit

\* tag.upsert begins.
UpsertRead(r) ==
    /\ step[r] = "tags" /\ tag[r] = None
    /\ \E t \in TagsOf[sent[r]] \ made[r] :
        /\ tag' = [tag EXCEPT ![r] = t]
        /\ found' = [found EXCEPT ![r] = t \in tags]
    /\ UNCHANGED <<rows, tags, project, step, sent, retried, made, held, tagHit>>

\* A new tag is inserted. One that exists is taken as it is, locked or not;
\* if it did not exist when the upsert began the insert may fail.
UpsertWrite(r) ==
    /\ tag[r] # None /\ ~Waits(r)
    /\ \/ /\ made' = [made EXCEPT ![r] = @ \cup {tag[r]}]
          /\ \E locks \in BOOLEAN :
              /\ tag[r] \in tags \/ locks
              /\ held' = [held EXCEPT ![r] = IF locks THEN @ \cup {tag[r]} ELSE @]
          /\ tag' = [tag EXCEPT ![r] = None]
          /\ found' = [found EXCEPT ![r] = FALSE]
          /\ UNCHANGED <<rows, tags, project, step, sent, retried, tagHit>>
       \/ /\ tag[r] \in tags /\ ~found[r]
          /\ Conflict(r)
          /\ tagHit' = tagHit \cup {r}

\* The analysis and the outbox event are inserted, and the transaction commits.
Commit(r) ==
    /\ step[r] = "tags" /\ tag[r] = None /\ made[r] = TagsOf[sent[r]]
    /\ rows' = [rows EXCEPT ![sent[r]] = @ + 1]
    /\ tags' = tags \cup made[r]
    /\ Goto(r, "ok")
    /\ Close(r)
    /\ UNCHANGED <<project, sent, retried, tagHit>>

Fail(r) ==
    /\ Goto(r, "failed")
    /\ Close(r)
    /\ UNCHANGED <<rows, tags, project, sent, retried, tagHit>>

WaitsForItself(r) ==
    TransitiveClosure([p, q \in Requests |-> Blocks(p, q)], Requests)[r, r]

\* PostgreSQL ends a transaction that waits for itself; ingest does not try
\* again, as the error is not P2002.
DeadlockVictim(r) == WaitsForItself(r) /\ Fail(r)

\* The database fails, or the API process dies.
Abort(r) == step[r] \in {"read", "insert", "tags"} /\ Fail(r)

\* The answer has been sent, or there is nobody to send it to.
Release(r) ==
    /\ step[r] \in Answers
    /\ Goto(r, "idle")
    /\ sent' = [sent EXCEPT ![r] = None]
    /\ retried' = [retried EXCEPT ![r] = FALSE]
    /\ tagHit' = tagHit \ {r}
    /\ UNCHANGED <<rows, tags, project, made, tag, found, held>>

\* ProjectsService.update archives the project or takes it back.
Archive ==
    /\ project = "ACTIVE"
    /\ project' = "ARCHIVED"
    /\ UNCHANGED <<rows, tags, requestVars, tagHit>>

Restore ==
    /\ project = "ARCHIVED"
    /\ project' = "ACTIVE"
    /\ UNCHANGED <<rows, tags, requestVars, tagHit>>

\* What the API does of its own accord for a request.
Serve(r) == Read(r) \/ Insert(r) \/ UpsertRead(r) \/ UpsertWrite(r) \/ Commit(r) \/ DeadlockVictim(r)

---------------------------------------------------------------------------
(* Properties.                                                             *)

\* An event has one prompt, so one analysis, however many requests carry it
\* at once (prompts.service.ts 35-59, 130-136).
OneRowPerEvent == \A e \in Events : rows[e] <= 1

\* The one retry is enough for requests with the same event, as long as no new
\* tag is in their way: a request answered with a conflict has met one over a
\* tag, the first time or the second (lines 130-136).
SecondConflictFromTags == \A r \in Requests : step[r] = "conflict" => r \in tagHit

===========================================================================
