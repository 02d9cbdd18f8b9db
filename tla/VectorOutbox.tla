---------------------------- MODULE VectorOutbox ----------------------------
(***************************************************************************)
(* MemoryService: the canonical rows in SQLite, the durable outbox that    *)
(* names the projection they still need, and the projection RagService     *)
(* publishes for them.                                                     *)
(*                                                                         *)
(* The fingerprint of the rows is the number of times they changed: every  *)
(* write bumps the revision that is hashed into it. One action is one      *)
(* database transaction, one step under a lock, or one call of the index;  *)
(* threads run between them and the process may die there.                 *)
(***************************************************************************)
EXTENDS Naturals

CONSTANTS
    Callers,      \* request threads
    Workers,      \* identities of reconciliation threads
    MaxRequests,  \* bound: writes, purges and reindex requests
    MaxTroubles,  \* bound: errors raised, deaths, ends of the ASGI lifespan
    Nobody        \* no thread

ASSUME OutboxAssumption ==
    /\ Callers \cap Workers = {}
    /\ Nobody \notin Callers \cup Workers
    /\ MaxRequests \in Nat /\ MaxTroubles \in Nat

VARIABLES
    rows,           \* fingerprint of the canonical rows
    outbox,         \* the operation's row: status and source_fingerprint
    index,          \* the projection: the fingerprint it names, and whether the
                    \* collections its manifest names are there
    writeLock,      \* _write_lock, held across steps
    reconcileLock,  \* _reconcile_lock
    handle,         \* _reconcile_thread
    stopping,       \* _shutdown_event
    up,             \* is the process alive?
    thread,         \* per thread: its step and the fingerprint it projects
    stranded,       \* history: a database error dropped a claimed operation
    unattended,     \* history: an error ended the last thread that would have
                    \* looked for the operation that waits
    requests,       \* how much of the two bounds is used up
    troubles

vars == <<rows, outbox, index, writeLock, reconcileLock, handle, stopping, up, thread,
          stranded, unattended, requests, troubles>>

bounds  == <<requests, troubles>>
history == <<stranded, unattended>>

\* What a step of the worker's own loop leaves alone.
memory == <<rows, outbox, index, writeLock, reconcileLock, handle, stopping, up, history,
            bounds>>

Threads == Callers \cup Workers

Statuses == {"none", "pending", "attempt", "failed", "succeeded"}

Steps == {"idle", "loop", "claim", "read", "build", "settle", "mark", "look", "backoff",
          "leave", "left", "schedule", "spawn"}

TypeOK ==
    /\ rows \in 0 .. MaxRequests
    /\ outbox \in [status : Statuses, of : 0 .. MaxRequests]
    /\ index \in [of : 0 .. MaxRequests, intact : BOOLEAN]
    /\ writeLock \in Callers \cup {Nobody}
    /\ reconcileLock \in Threads \cup {Nobody}
    /\ handle \in Workers \cup {Nobody}
    /\ stopping \in BOOLEAN
    /\ up \in BOOLEAN
    /\ thread \in [Threads -> [at : Steps, of : 0 .. MaxRequests]]
    /\ stranded \in BOOLEAN /\ unattended \in BOOLEAN
    /\ requests \in 0 .. MaxRequests
    /\ troubles \in 0 .. MaxTroubles

Request == requests < MaxRequests /\ requests' = requests + 1
Trouble == troubles < MaxTroubles /\ troubles' = troubles + 1

Idle == [at |-> "idle", of |-> 0]

\* A first start on an empty database.
Init ==
    /\ rows = 0
    /\ outbox = [status |-> "none", of |-> 0]
    /\ index = [of |-> 0, intact |-> TRUE]
    /\ writeLock = Nobody /\ reconcileLock = Nobody /\ handle = Nobody
    /\ stopping = FALSE /\ up = TRUE
    /\ thread = [t \in Threads |-> Idle]
    /\ stranded = FALSE /\ unattended = FALSE
    /\ requests = 0 /\ troubles = 0

-----------------------------------------------------------------------------
(* Writers.                                                                *)

At(t, step)   == up /\ thread[t].at = step
Moved(t, step) == [thread EXCEPT ![t] = [at |-> step, of |-> thread[t].of]]
Marked(status) == [status |-> status, of |-> outbox.of]

\* _has_reconcilable_projection: an attempt is not one.
Reconcilable == outbox.status \in {"pending", "failed"}

\* _enqueue_vector_projection: whatever became of the operation before.
Enqueued(of) == [status |-> "pending", of |-> of]

\* The transaction of a write or a purge: the rows, the revision, the outbox.
\* A write schedules the reconciliation with _write_lock in hand, a purge does
\* not. A write refused for its origin, and a purge of nothing, change nothing.
Change(t, keepsLock) ==
    /\ At(t, "idle") /\ t \in Callers
    /\ writeLock = Nobody
    /\ Request
    /\ rows' = rows + 1
    /\ outbox' = Enqueued(rows + 1)
    /\ stranded' = FALSE /\ unattended' = FALSE
    /\ writeLock' = IF keepsLock THEN t ELSE Nobody
    /\ thread' = Moved(t, "schedule")
    /\ UNCHANGED <<index, reconcileLock, handle, stopping, up, troubles>>

WriteSummary(t) == Change(t, TRUE)
Purge(t)        == Change(t, FALSE)

\* reindex_vector_memory: queue the operation, then reconcile in the request.
Reindex(t) ==
    /\ At(t, "idle") /\ t \in Callers
    /\ writeLock = Nobody
    /\ Request
    /\ outbox' = Enqueued(rows)
    /\ stranded' = FALSE /\ unattended' = FALSE
    /\ thread' = Moved(t, "claim")
    /\ UNCHANGED <<rows, index, writeLock, reconcileLock, handle, stopping, up, troubles>>

\* The end of a request, of a thread, or of the scheduling a write does.
Done(t) ==
    /\ thread' = [thread EXCEPT ![t] = Idle]
    /\ writeLock' = IF writeLock = t THEN Nobody ELSE writeLock

\* _schedule_reconciliation up to the thread lock.
Schedule(t) ==
    /\ At(t, "schedule")
    /\ \/ /\ Reconcilable /\ ~stopping
          /\ thread' = Moved(t, "spawn")
          /\ UNCHANGED writeLock
       \/ /\ stopping \/ ~Reconcilable
          /\ Done(t)
    /\ UNCHANGED <<rows, outbox, index, reconcileLock, handle, stopping, up, history, bounds>>

\* Under the thread lock: a thread that has not let go of the handle yet will do.
Spawn(t) ==
    /\ At(t, "spawn")
    /\ \/ /\ handle # Nobody
          /\ Done(t)
          /\ UNCHANGED handle
       \/ \E w \in Workers :
             /\ handle = Nobody
             /\ thread[w].at = "idle" \/ w = t    \* t ends here, its name is free
             /\ handle' = w
             /\ thread' = [thread EXCEPT ![t] = Idle, ![w] = [at |-> "loop", of |-> 0]]
             /\ writeLock' = IF writeLock = t THEN Nobody ELSE writeLock
    /\ UNCHANGED <<rows, outbox, index, reconcileLock, stopping, up, history, bounds>>

\* Nobody else is on the way to a look for work.
Alone(t) == \A u \in Threads \ {t} : thread[u].at = "idle"

\* That look, or the start of a thread, raises: a request ends with the error, a
\* worker's finally swallows it.
ScheduleRaises(t) ==
    /\ \/ At(t, "schedule") /\ ~stopping
       \/ At(t, "spawn") /\ handle = Nobody
    /\ Trouble
    /\ Done(t)
    /\ unattended' = (Reconcilable /\ Alone(t))
    /\ UNCHANGED <<rows, outbox, index, reconcileLock, handle, stopping, up, stranded, requests>>

-----------------------------------------------------------------------------
(* reconcile_vector_outbox.                                                *)

\* What the caller makes of a result: the worker's loop goes on, backs off or
\* ends; a reindex request that did not succeed leaves it to a worker.
After(t, result) ==
    LET next == IF t \in Workers
                THEN IF result = "failed" THEN "backoff"
                     ELSE IF result = "idle" THEN "leave" ELSE "look"
                ELSE IF result = "succeeded" THEN "idle" ELSE "schedule"
    IN  [thread EXCEPT ![t] = [at |-> next, of |-> 0]]

\* Mutant: two threads may reconcile at a time.
ClaimUnlocked(t) ==
    /\ At(t, "claim")
    /\ Reconcilable
    /\ outbox' = Marked("attempt")
    /\ reconcileLock' = t
    /\ thread' = Moved(t, "read")
    /\ UNCHANGED <<rows, index, writeLock, handle, stopping, up, history, bounds>>

\* _claim_vector_projection, with _reconcile_lock from here to the result.
Claim(t) ==
    /\ At(t, "claim")
    /\ reconcileLock = Nobody
    /\ \/ /\ ~Reconcilable
          /\ thread' = After(t, "idle")
          /\ UNCHANGED <<outbox, reconcileLock>>
       \/ /\ Reconcilable
          /\ outbox' = Marked("attempt")
          /\ reconcileLock' = t
          /\ thread' = Moved(t, "read")
    /\ UNCHANGED <<rows, index, writeLock, handle, stopping, up, history, bounds>>

\* Documents, fingerprint and claim are read under _write_lock.
Read(t) ==
    /\ At(t, "read")
    /\ writeLock = Nobody
    /\ \/ /\ outbox.status = "attempt"
          /\ outbox' = [status |-> "attempt", of |-> rows]
          /\ thread' = [thread EXCEPT ![t] = [at |-> "build", of |-> rows]]
          /\ UNCHANGED reconcileLock
       \/ /\ outbox.status # "attempt"
          /\ thread' = After(t, "pending")
          /\ reconcileLock' = Nobody
          /\ UNCHANGED outbox
    /\ UNCHANGED <<rows, index, writeLock, handle, stopping, up, history, bounds>>

\* _rebuild_vector_projection returns: the manifest names the new collections.
Build(t) ==
    /\ At(t, "build")
    /\ index' = [of |-> thread[t].of, intact |-> TRUE]
    /\ thread' = Moved(t, "settle")
    /\ UNCHANGED <<rows, outbox, writeLock, reconcileLock, handle, stopping, up, history,
                   bounds>>

\* It raises: before the manifest was replaced, or after (the fsync of its
\* directory), when the new collections are deleted under the new manifest.
BuildRaises(t) ==
    /\ At(t, "build")
    /\ Trouble
    /\ index' \in {index, [of |-> thread[t].of, intact |-> FALSE]}
    /\ thread' = Moved(t, "mark")
    /\ UNCHANGED <<rows, outbox, writeLock, reconcileLock, handle, stopping, up, history,
                   requests>>

Owned(t) == outbox.status = "attempt" /\ outbox.of = thread[t].of

\* _mark_vector_projection_failed, without _write_lock.
FailedBy(t) == IF Owned(t) THEN Marked("failed") ELSE outbox

MarkFailed(t) ==
    /\ At(t, "mark")
    /\ outbox' = FailedBy(t)
    /\ thread' = After(t, IF Owned(t) THEN "failed" ELSE "pending")
    /\ reconcileLock' = Nobody
    /\ UNCHANGED <<rows, index, writeLock, handle, stopping, up, history, bounds>>

\* Mutant: what was projected is taken for what the rows hold now.
SettleUnseen(t) ==
    /\ At(t, "settle")
    /\ writeLock = Nobody
    /\ outbox' = Marked("succeeded")
    /\ thread' = After(t, "succeeded")
    /\ reconcileLock' = Nobody
    /\ UNCHANGED <<rows, index, writeLock, handle, stopping, up, history, bounds>>

\* The second look, under _write_lock: queue again, or mark succeeded.
SettledBy(t) ==
    IF rows # thread[t].of THEN Enqueued(rows)
    ELSE IF Owned(t) THEN Marked("succeeded") ELSE outbox

Settle(t) ==
    /\ At(t, "settle")
    /\ writeLock = Nobody
    /\ outbox' = SettledBy(t)
    /\ thread' = After(t, IF rows = thread[t].of /\ Owned(t) THEN "succeeded" ELSE "pending")
    /\ reconcileLock' = Nobody
    /\ UNCHANGED <<rows, index, writeLock, handle, stopping, up, history, bounds>>

\* Any of its transactions raises, or the reading of the state it left: only the
\* rebuild has a handler around it. The worker's thread ends with its finally, a
\* reindex request with the error and without leaving the operation to a worker.
DatabaseRaises(t) ==
    /\ \/ At(t, "claim") /\ reconcileLock = Nobody /\ UNCHANGED outbox
       \/ At(t, "read") /\ writeLock = Nobody /\ UNCHANGED outbox
       \/ At(t, "mark") /\ outbox' \in {outbox, FailedBy(t)}
       \/ At(t, "settle") /\ writeLock = Nobody /\ outbox' \in {outbox, SettledBy(t)}
    /\ Trouble
    /\ stranded' = (outbox'.status = "attempt")
    /\ unattended' = (t \in Callers /\ outbox'.status \in {"pending", "failed"} /\ Alone(t))
    /\ reconcileLock' = Nobody
    /\ thread' = Moved(t, IF t \in Workers THEN "leave" ELSE "idle")
    /\ UNCHANGED <<rows, index, writeLock, handle, stopping, up, requests>>

-----------------------------------------------------------------------------
(* _reconciliation_worker.                                                 *)

Loop(t) ==
    /\ At(t, "loop")
    /\ thread' = Moved(t, IF stopping THEN "leave" ELSE "claim")
    /\ UNCHANGED memory

Look(t) ==
    /\ At(t, "look")
    /\ thread' = Moved(t, IF Reconcilable THEN "loop" ELSE "leave")
    /\ UNCHANGED memory

LookRaises(t) ==
    /\ At(t, "look")
    /\ Trouble
    /\ thread' = Moved(t, "leave")
    /\ UNCHANGED <<rows, outbox, index, writeLock, reconcileLock, handle, stopping, up, history,
                   requests>>

\* The delay passes, or the shutdown cuts it short.
Backoff(t) ==
    /\ At(t, "backoff")
    /\ thread' = Moved(t, IF stopping THEN "leave" ELSE "loop")
    /\ UNCHANGED memory

\* The finally: let go of the handle, and only then look for work once more.
Leave(t) ==
    /\ At(t, "leave")
    /\ handle' = IF handle = t THEN Nobody ELSE handle
    /\ thread' = Moved(t, "left")
    /\ UNCHANGED <<rows, outbox, index, writeLock, reconcileLock, stopping, up, history, bounds>>

\* Mutant: the thread ends without another look.
LeaveForGood(t) ==
    /\ At(t, "left")
    /\ thread' = Moved(t, "idle")
    /\ UNCHANGED memory

Left(t) ==
    /\ At(t, "left")
    /\ thread' = Moved(t, IF stopping THEN "idle" ELSE "schedule")
    /\ UNCHANGED memory

-----------------------------------------------------------------------------
(* The process.                                                            *)

\* close, whose join may give up on a thread that is busy.
Close ==
    /\ up /\ ~stopping
    /\ Trouble
    /\ stopping' = TRUE
    /\ UNCHANGED <<rows, outbox, index, writeLock, reconcileLock, handle, up, thread, history,
                   requests>>

\* start: the lifespan is entered again and looks for work.
Start(t) ==
    /\ At(t, "idle") /\ t \in Callers
    /\ stopping
    /\ stopping' = FALSE
    /\ unattended' = FALSE
    /\ thread' = Moved(t, "schedule")
    /\ UNCHANGED <<rows, outbox, index, writeLock, reconcileLock, handle, up, stranded, bounds>>

Die ==
    /\ up
    /\ Trouble
    /\ up' = FALSE
    /\ writeLock' = Nobody /\ reconcileLock' = Nobody /\ handle' = Nobody
    /\ thread' = [t \in Threads |-> Idle]
    /\ UNCHANGED <<rows, outbox, index, stopping, history, requests>>

\* _recover_interrupted_outbox_attempts.
Recovered == IF outbox.status = "attempt" THEN Marked("pending") ELSE outbox

\* The constructor, with its look for work: nobody runs beside it, and an error
\* in it leaves the process down.
Restart ==
    /\ ~up
    /\ up' = TRUE
    /\ stopping' = FALSE
    /\ outbox' = Recovered
    /\ stranded' = FALSE /\ unattended' = FALSE
    /\ \/ /\ Recovered.status \in {"pending", "failed"}
          /\ \E w \in Workers : /\ handle' = w
                                /\ thread' = [thread EXCEPT ![w] = [at |-> "loop", of |-> 0]]
       \/ /\ Recovered.status \notin {"pending", "failed"}
          /\ UNCHANGED <<handle, thread>>
    /\ UNCHANGED <<rows, index, writeLock, reconcileLock, bounds>>

-----------------------------------------------------------------------------

\* What a thread does on its own, errors left aside.
Step(t) ==
    \/ Schedule(t) \/ Spawn(t)
    \/ Claim(t) \/ Read(t) \/ Build(t) \/ MarkFailed(t) \/ Settle(t)
    \/ Loop(t) \/ Look(t) \/ Backoff(t) \/ Leave(t) \/ Left(t)

Next ==
    \/ \E t \in Callers : WriteSummary(t) \/ Purge(t) \/ Reindex(t) \/ Start(t)
    \/ \E t \in Threads : \/ Step(t)
                          \/ ScheduleRaises(t) \/ DatabaseRaises(t) \/ BuildRaises(t) \/ LookRaises(t)
    \/ Close
    \/ Die
    \/ Restart

Spec == Init /\ [][Next]_vars

\* Threads are scheduled, the locks are handed on, and the container restarts a
\* process that died. Nobody has to write.
Fairness ==
    /\ \A t \in Threads : WF_vars(Step(t))
    /\ WF_vars(Restart)

FairSpec == Spec /\ Fairness

-----------------------------------------------------------------------------

(* An outbox that says succeeded stands for a projection of the rows as    *)
(* they are now, with all its collections, whatever was written, queued or *)
(* raised while it was built and however often the process died.           *)
SucceededMeansCurrent ==
    outbox.status = "succeeded" => index = [of |-> rows, intact |-> TRUE]

(* A rebuild never publishes over the projection of newer rows.            *)
ProjectionNeverGoesBack == [][index'.of >= index.of]_vars

(* While the process lives, a claimed operation is in the hands of the     *)
(* thread that holds _reconcile_lock, or a database error between the claim *)
(* and its settlement dropped it: an error of the index, a write, another  *)
(* request and the end of a thread never take it out of the retries.       *)
ClaimHasOwner ==
    (up /\ outbox.status = "attempt") =>
        \/ stranded
        \/ \E t \in Threads : /\ reconcileLock = t
                              /\ thread[t].at \in {"read", "build", "settle", "mark"}

(* An operation that waits is projected in the end without another write:  *)
(* no hand-over between a writer that leaves it to a living thread and a   *)
(* thread that finds nothing and ends loses it. What keeps it from that is *)
(* the error above, an error that ends the last thread that would look for *)
(* it (a schedule that raises, a reindex request that ends with an error), *)
(* or a service that stays closed.                                         *)
ProjectionCatchesUp ==
    Reconcilable ~> (outbox.status = "succeeded" \/ stranded \/ unattended \/ stopping)

(* The outbox tells the truth about the projection, and what it says is in *)
(* progress somebody works on (MemoryService._rebuild_vector_projection).  *)
OutboxSafe == TypeOK /\ SucceededMeansCurrent /\ ClaimHasOwner
=============================================================================
