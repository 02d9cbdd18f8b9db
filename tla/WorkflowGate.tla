---------------------------- MODULE WorkflowGate ----------------------------
(***************************************************************************)
(* Who may work on which design, and how much work is taken in.            *)
(*                                                                         *)
(* The request threads of the API and the threads of the generation pool   *)
(* share, inside WorkflowService: one re-entrant lock per workflow, kept   *)
(* in a map only while somebody uses it; a count of running operations per *)
(* workflow; an admission semaphore for accepted generations; a slot       *)
(* semaphore for running ones, on which a worker blocks and an edit does   *)
(* not; the executor's queue; and the closed flag of the shutdown.  Each   *)
(* action is what one thread does between two points where another may     *)
(* run.  What an operation writes for its design is DesignPublication.     *)
(***************************************************************************)
EXTENDS Naturals, Sequences, FiniteSets

CONSTANTS
    Clients,        \* request threads
    Workers,        \* threads of the generation pool
    Workflows,      \* identifiers create_design can draw
    Locks,          \* RLock objects
    None,           \* no thread, no lock, no workflow
    MaxConcurrent,  \* max_concurrent_workflows
    MaxPending      \* max_pending_workflows

ASSUME GateAssumption ==
    /\ None \notin Clients \cup Workers \cup Workflows \cup Locks
    /\ Clients \cap Workers = {}
    /\ MaxConcurrent \in Nat \ {0}
    /\ MaxPending \in Nat
    /\ IsFiniteSet(Clients) /\ IsFiniteSet(Workers)
    /\ Cardinality(Workers) = MaxConcurrent
    /\ IsFiniteSet(Locks) /\ Cardinality(Locks) >= Cardinality(Clients)

VARIABLES
    born,      \* workflow identifiers drawn so far
    dirs,      \* workflow directories on disk
    active,    \* _active_workflows, 0 where there is no entry
    lockOf,    \* _operation_locks
    users,     \* _operation_lock_users, 0 where there is no entry
    holder,    \* the thread inside each lock
    mine,      \* operation_lock, the local of each request thread
    op,        \* the request each client thread serves
    target,    \* and its workflow
    pc,        \* the step it is at
    permits,   \* _admission
    slots,     \* _generation_slots
    queue,     \* the executor's work queue
    work,      \* the generation each worker runs
    wpc,       \* the step it is at
    hooked,    \* futures whose done callback is registered
    ended,     \* futures that ended before it was
    closed,    \* _closed
    answered,  \* history: how the POST of a workflow ended
    deleted,   \* history: workflows whose DELETE, not in such a gap, succeeded
    early      \* history: did a locked request enter in a gap of create_design
               \* (Exposed, below), and is it still inside?

locks   == <<lockOf, users, holder, mine>>
pool    == <<queue, work, wpc, hooked, ended>>
request == <<op, target, pc>>
vars    == <<born, dirs, active, locks, request, permits, slots, pool, closed,
             answered, deleted, early>>

-----------------------------------------------------------------------------

Locked == {"edit", "rollback", "delete"}

CreatePcs == {"pending", "mark", "announce", "admit", "submit", "register",
              "unmark", "discard"}
EditPcs   == {"slot", "begin", "mark_edit", "edit", "unmark_edit", "free_slot"}
Bodies    == {"begin", "mark_edit", "edit", "commit", "remove"}

TypeOK ==
    /\ born \subseteq Workflows
    /\ dirs \subseteq Workflows
    /\ active \in [Workflows -> Nat]
    /\ lockOf \in [Workflows -> Locks \cup {None}]
    /\ users \in [Workflows -> Nat]
    /\ holder \in [Locks -> Clients \cup {None}]
    /\ mine \in [Clients -> Locks \cup {None}]
    /\ op \in [Clients -> {"none", "create"} \cup Locked]
    /\ target \in [Clients -> Workflows \cup {None}]
    /\ pc \in [Clients -> {"idle", "lock", "check", "find", "commit", "purge",
                           "remove", "unlock", "leave"}
                          \cup CreatePcs \cup EditPcs]
    /\ permits \in 0..(MaxConcurrent + MaxPending)
    /\ slots \in 0..MaxConcurrent
    /\ queue \in Seq(Workflows)
    /\ work \in [Workers -> Workflows \cup {None}]
    /\ wpc \in [Workers -> {"idle", "slot", "run", "unmark", "free_slot", "end"}]
    /\ hooked \subseteq Workflows
    /\ ended \subseteq Workflows
    /\ closed \in BOOLEAN
    /\ answered \in [Workflows -> {"none", "accepted", "refused", "raised"}]
    /\ deleted \subseteq Workflows
    /\ early \in [Workflows -> {"no", "inside", "was"}]

Init ==
    /\ born = {} /\ dirs = {} /\ deleted = {}
    /\ early = [w \in Workflows |-> "no"]
    /\ active = [w \in Workflows |-> 0]
    /\ lockOf = [w \in Workflows |-> None]
    /\ users = [w \in Workflows |-> 0]
    /\ holder = [l \in Locks |-> None]
    /\ mine = [c \in Clients |-> None]
    /\ op = [c \in Clients |-> "none"]
    /\ target = [c \in Clients |-> None]
    /\ pc = [c \in Clients |-> "idle"]
    /\ permits = MaxConcurrent + MaxPending
    /\ slots = MaxConcurrent
    /\ queue = <<>>
    /\ work = [k \in Workers |-> None]
    /\ wpc = [k \in Workers |-> "idle"]
    /\ hooked = {} /\ ended = {}
    /\ closed = FALSE
    /\ answered = [w \in Workflows |-> "none"]

Go(c, next) == pc' = [pc EXCEPT ![c] = next] /\ UNCHANGED <<op, target>>

Return(c) ==
    /\ op' = [op EXCEPT ![c] = "none"]
    /\ target' = [target EXCEPT ![c] = None]
    /\ pc' = [pc EXCEPT ![c] = "idle"]

Answer(c, how) ==
    /\ answered' = [answered EXCEPT ![target[c]] = how]
    /\ Return(c)

\* _mark_workflow_active and _mark_workflow_inactive.
Counted(w)   == [active EXCEPT ![w] = @ + 1]
Uncounted(w) == [active EXCEPT ![w] = IF @ <= 1 THEN 0 ELSE @ - 1]

\* EventLogService.append makes the workflow directory when it is missing, and
\* so does the failure handler of a generation through the event it reports.
Touched(w) == dirs \cup {w}

-----------------------------------------------------------------------------
(* create_design.                                                          *)

\* uuid4: which unused identifier is drawn does not matter.
FreshId == CHOOSE w \in Workflows : w \notin born

MakeDirectory(c, w) ==
    /\ pc[c] = "idle" /\ w \notin born /\ w = FreshId
    /\ born' = born \cup {w}
    /\ dirs' = dirs \cup {w}
    /\ op' = [op EXCEPT ![c] = "create"]
    /\ target' = [target EXCEPT ![c] = w]
    /\ pc' = [pc EXCEPT ![c] = "pending"]
    /\ UNCHANGED <<active, locks, permits, slots, pool, closed, answered,
                   deleted, early>>

\* _write_pending_status; nothing undoes the directory when the write raises.
WritePending(c) ==
    /\ pc[c] = "pending"
    /\ \/ Go(c, "mark") /\ UNCHANGED answered
       \/ Answer(c, "raised")
    /\ UNCHANGED <<born, dirs, active, locks, permits, slots, pool, closed,
                   deleted, early>>

MarkActive(c) ==
    /\ pc[c] = "mark"
    /\ active' = Counted(target[c])
    /\ Go(c, "announce")
    /\ UNCHANGED <<born, dirs, locks, permits, slots, pool, closed, answered,
                   deleted, early>>

\* The design_created event; an error there leaves the workflow counted.
EmitDesignCreated(c) ==
    /\ pc[c] = "announce"
    /\ \/ /\ dirs' = Touched(target[c])
          /\ Go(c, "admit") /\ UNCHANGED answered
       \/ Answer(c, "raised") /\ UNCHANGED dirs
    /\ UNCHANGED <<born, active, locks, permits, slots, pool, closed,
                   deleted, early>>

\* _submit_background: a permit without waiting, then the closed flag under
\* _lock; an error gives the permit back.
Admit(c) ==
    /\ pc[c] = "admit"
    /\ \/ permits > 0 /\ permits' = permits - 1 /\ Go(c, "submit")
       \/ permits = 0 /\ UNCHANGED permits /\ Go(c, "unmark")
    /\ UNCHANGED <<born, dirs, active, locks, slots, pool, closed, answered,
                   deleted, early>>

Submit(c) ==
    /\ pc[c] = "submit"
    /\ \/ /\ ~closed
          /\ queue' = Append(queue, target[c])
          /\ Go(c, "register") /\ UNCHANGED permits
       \/ /\ closed
          /\ permits' = permits + 1
          /\ Go(c, "unmark") /\ UNCHANGED queue
    /\ UNCHANGED <<born, dirs, active, locks, slots, work, wpc, hooked, ended,
                   closed, answered, deleted, early>>

\* add_done_callback runs _release at once when the future has already ended.
Register(c) ==
    /\ pc[c] = "register"
    /\ IF target[c] \in ended
       THEN /\ permits' = permits + 1
            /\ ended' = ended \ {target[c]}
            /\ UNCHANGED hooked
       ELSE /\ hooked' = hooked \cup {target[c]}
            /\ UNCHANGED <<permits, ended>>
    /\ Answer(c, "accepted")
    /\ UNCHANGED <<born, dirs, active, locks, slots, queue, work, wpc, closed,
                   deleted, early>>

UnmarkRefused(c) ==
    /\ pc[c] = "unmark"
    /\ active' = Uncounted(target[c])
    /\ Go(c, "discard")
    /\ UNCHANGED <<born, dirs, locks, permits, slots, pool, closed, answered,
                   deleted, early>>

\* Mutant: the directory of a refused workflow stays.
Kept(w)      == dirs
Discarded(w) == dirs \ {w}

Discard(c) ==
    /\ pc[c] = "discard"
    /\ dirs' = Discarded(target[c])
    /\ Answer(c, "refused")
    /\ UNCHANGED <<born, active, locks, permits, slots, pool, closed,
                   deleted, early>>

-----------------------------------------------------------------------------
(* The generation pool: _guarded_operation around _run.                    *)

WorkerGo(k, next) == wpc' = [wpc EXCEPT ![k] = next]

Take(k) ==
    /\ wpc[k] = "idle" /\ queue # <<>>
    /\ work' = [work EXCEPT ![k] = Head(queue)]
    /\ queue' = Tail(queue)
    /\ WorkerGo(k, "slot")
    /\ UNCHANGED <<born, dirs, active, locks, request, permits, slots, hooked,
                   ended, closed, answered, deleted, early>>

WaitForSlot(k) ==
    /\ wpc[k] = "slot" /\ slots > 0
    /\ slots' = slots - 1
    /\ WorkerGo(k, "run")
    /\ UNCHANGED <<born, dirs, active, locks, request, permits, queue, work,
                   hooked, ended, closed, answered, deleted, early>>

\* The orchestrator's run, its success or its failure handler: files and events
\* of the workflow are written either way.
Generate(k) ==
    /\ wpc[k] = "run"
    /\ dirs' = Touched(work[k])
    /\ WorkerGo(k, "unmark")
    /\ UNCHANGED <<born, active, locks, request, permits, slots, queue, work,
                   hooked, ended, closed, answered, deleted, early>>

UnmarkGenerated(k) ==
    /\ wpc[k] = "unmark"
    /\ active' = Uncounted(work[k])
    /\ WorkerGo(k, "free_slot")
    /\ UNCHANGED <<born, dirs, locks, request, permits, slots, queue, work,
                   hooked, ended, closed, answered, deleted, early>>

FreeWorkerSlot(k) ==
    /\ wpc[k] = "free_slot"
    /\ slots' = slots + 1
    /\ WorkerGo(k, "end")
    /\ UNCHANGED <<born, dirs, active, locks, request, permits, queue, work,
                   hooked, ended, closed, answered, deleted, early>>

Readmitted(w) == IF w \in hooked THEN permits + 1 ELSE permits

EndFuture(k) ==
    /\ wpc[k] = "end"
    /\ permits' = Readmitted(work[k])
    /\ hooked' = hooked \ {work[k]}
    /\ ended' = IF work[k] \in hooked THEN ended ELSE ended \cup {work[k]}
    /\ work' = [work EXCEPT ![k] = None]
    /\ WorkerGo(k, "idle")
    /\ UNCHANGED <<born, dirs, active, locks, request, slots, queue, closed,
                   answered, deleted, early>>

Shutdown ==
    /\ ~closed
    /\ closed' = TRUE
    /\ UNCHANGED <<born, dirs, active, locks, request, permits, slots, pool,
                   answered, deleted, early>>

-----------------------------------------------------------------------------
(* _workflow_operation around edit_design, rollback_version, delete_design. *)

\* A client knows a design once its POST is answered, or from GET /designs, which
\* shows it as soon as its pending status is written.
Listed(w) == w \in dirs /\ \A c \in Clients : ~(pc[c] = "pending" /\ target[c] = w)
Known(w)  == answered[w] # "none" \/ Listed(w)

\* The gaps: create_design writes the pending status before it counts the workflow
\* as active, and takes the count back before the directory goes.
Exposed(w) == \E c \in Clients : target[c] = w /\ pc[c] \in {"mark", "discard"}

InUse == {lockOf[w] : w \in Workflows} \cup {mine[c] : c \in Clients}

\* The lock in the map, or a new one: which object it is does not matter.
LockFor(w) ==
    IF lockOf[w] # None THEN lockOf[w] ELSE CHOOSE l \in Locks : l \notin InUse

Enter(c, k, w) ==
    /\ pc[c] = "idle" /\ Known(w)
    /\ op' = [op EXCEPT ![c] = k]
    /\ target' = [target EXCEPT ![c] = w]
    /\ lockOf' = [lockOf EXCEPT ![w] = LockFor(w)]
    /\ mine' = [mine EXCEPT ![c] = LockFor(w)]
    /\ users' = [users EXCEPT ![w] = @ + 1]
    /\ pc' = [pc EXCEPT ![c] = "lock"]
    /\ UNCHANGED <<born, dirs, active, holder, permits, slots, pool, closed,
                   answered, deleted, early>>

Acquire(c) ==
    /\ pc[c] = "lock" /\ holder[mine[c]] = None
    /\ holder' = [holder EXCEPT ![mine[c]] = c]
    /\ Go(c, "check")
    /\ UNCHANGED <<born, dirs, active, lockOf, users, mine, permits, slots, pool,
                   closed, answered, deleted, early>>

Inactive(w)       == active[w] = 0

\* _is_workflow_active, and for an edit the free disk space; either refusal
\* leaves at once.
CheckActive(c) ==
    /\ pc[c] = "check"
    /\ \/ /\ Inactive(target[c])
          /\ Go(c, CASE op[c] = "edit"     -> "slot"
                     [] op[c] = "rollback" -> "find"
                     [] op[c] = "delete"   -> "purge")
          /\ early' = IF Exposed(target[c]) THEN [early EXCEPT ![target[c]] = "inside"] ELSE early
       \/ (~Inactive(target[c]) \/ op[c] = "edit") /\ Go(c, "unlock") /\ UNCHANGED early
    /\ UNCHANGED <<born, dirs, active, locks, permits, slots, pool, closed,
                   answered, deleted>>

TakeSlot(c) ==
    /\ pc[c] = "slot"
    /\ \/ slots > 0 /\ slots' = slots - 1 /\ Go(c, "begin")
       \/ slots = 0 /\ UNCHANGED slots /\ Go(c, "unlock")
    /\ UNCHANGED <<born, dirs, active, locks, permits, pool, closed, answered,
                   deleted, early>>

\* Mutant: an edit that cannot begin keeps its slot.
KeepSlot    == "unlock"
FailedBegin == "free_slot"

\* _begin_active_operation raises for a design without status, or on storage.
BeginActiveOperation(c) ==
    /\ pc[c] = "begin"
    /\ \/ target[c] \in dirs /\ Go(c, "mark_edit")
       \/ Go(c, FailedBegin)
    /\ UNCHANGED <<born, dirs, active, locks, permits, slots, pool, closed,
                   answered, deleted, early>>

MarkEditActive(c) ==
    /\ pc[c] = "mark_edit"
    /\ active' = Counted(target[c])
    /\ Go(c, "edit")
    /\ UNCHANGED <<born, dirs, locks, permits, slots, pool, closed, answered,
                   deleted, early>>

Edit(c) ==
    /\ pc[c] = "edit"
    /\ dirs' = Touched(target[c])
    /\ Go(c, "unmark_edit")
    /\ UNCHANGED <<born, active, locks, permits, slots, pool, closed, answered,
                   deleted, early>>

UnmarkEdit(c) ==
    /\ pc[c] = "unmark_edit"
    /\ active' = Uncounted(target[c])
    /\ Go(c, "free_slot")
    /\ UNCHANGED <<born, dirs, locks, permits, slots, pool, closed, answered,
                   deleted, early>>

FreeSlot(c) ==
    /\ pc[c] = "free_slot"
    /\ slots' = slots + 1
    /\ Go(c, "unlock")
    /\ UNCHANGED <<born, dirs, active, locks, permits, pool, closed, answered,
                   deleted, early>>

FindVersion(c) ==
    /\ pc[c] = "find"
    /\ \/ target[c] \in dirs /\ Go(c, "commit")
       \/ Go(c, "unlock")
    /\ UNCHANGED <<born, dirs, active, locks, permits, slots, pool, closed,
                   answered, deleted, early>>

CommitVersion(c) ==
    /\ pc[c] = "commit"
    /\ dirs' = Touched(target[c])
    /\ Go(c, "unlock")
    /\ UNCHANGED <<born, active, locks, permits, slots, pool, closed, answered,
                   deleted, early>>

\* A missing design is a 404, a memory that cannot be purged a 503.
PurgeMemory(c) ==
    /\ pc[c] = "purge"
    /\ \/ target[c] \in dirs /\ Go(c, "remove")
       \/ Go(c, "unlock")
    /\ UNCHANGED <<born, dirs, active, locks, permits, slots, pool, closed,
                   answered, deleted, early>>

RemoveFiles(c) ==
    /\ pc[c] = "remove"
    /\ dirs' = dirs \ {target[c]}
    /\ deleted' = IF target[c] \in dirs /\ early[target[c]] # "inside"
                  THEN deleted \cup {target[c]} ELSE deleted
    /\ Go(c, "unlock")
    /\ UNCHANGED <<born, active, locks, permits, slots, pool, closed, answered,
                   early>>

Unlock(c) ==
    /\ pc[c] = "unlock"
    /\ holder' = [holder EXCEPT ![mine[c]] = None]
    /\ early' = [early EXCEPT ![target[c]] = IF @ = "no" THEN @ ELSE "was"]
    /\ Go(c, "leave")
    /\ UNCHANGED <<born, dirs, active, lockOf, users, mine, permits, slots, pool,
                   closed, answered, deleted>>

\* Mutant: the map entry goes with the first thread that leaves.
EveryUserIsLast(w) == TRUE
LastUser(w)        == users[w] <= 1

Leave(c) ==
    /\ pc[c] = "leave"
    /\ LET w == target[c] IN
          IF LastUser(w)
          THEN /\ users' = [users EXCEPT ![w] = 0]
               /\ lockOf' = [lockOf EXCEPT ![w] = None]
          ELSE users' = [users EXCEPT ![w] = @ - 1] /\ UNCHANGED lockOf
    /\ mine' = [mine EXCEPT ![c] = None]
    /\ Return(c)
    /\ UNCHANGED <<born, dirs, active, holder, permits, slots, pool, closed,
                   answered, deleted, early>>

-----------------------------------------------------------------------------

CreateStep(c) ==
    \/ WritePending(c) \/ MarkActive(c) \/ EmitDesignCreated(c) \/ Admit(c)
    \/ Submit(c) \/ Register(c) \/ UnmarkRefused(c) \/ Discard(c)

\* What an edit does with its slot.
SlotStep(c) ==
    \/ BeginActiveOperation(c) \/ MarkEditActive(c) \/ Edit(c) \/ UnmarkEdit(c)
    \/ FreeSlot(c)

LockedStep(c) ==
    \/ Acquire(c) \/ CheckActive(c) \/ TakeSlot(c) \/ SlotStep(c) \/ FindVersion(c)
    \/ CommitVersion(c) \/ PurgeMemory(c) \/ RemoveFiles(c) \/ Unlock(c) \/ Leave(c)

WorkerStep(k) ==
    \/ Take(k) \/ WaitForSlot(k) \/ Generate(k) \/ UnmarkGenerated(k)
    \/ FreeWorkerSlot(k) \/ EndFuture(k)

Next ==
    \/ \E c \in Clients, w \in Workflows :
          MakeDirectory(c, w) \/ \E k \in Locked : Enter(c, k, w)
    \/ \E c \in Clients : CreateStep(c) \/ LockedStep(c)
    \/ \E k \in Workers : WorkerStep(k)
    \/ Shutdown

Spec == Init /\ [][Next]_vars

\* The threads of the pool run, and a request that holds a slot goes on until it
\* has freed it; nothing more is asked of the clients or of the shutdown.  The
\* calls inside an operation end: Blender and the model providers are called
\* with timeouts.
FairSpec ==
    /\ Spec
    /\ \A c \in Clients : WF_vars(SlotStep(c))
    /\ \A k \in Workers : WF_vars(WorkerStep(k))

-----------------------------------------------------------------------------
(* Properties.                                                             *)

\* Threads that read or write the design of w between their check and their
\* last write.
Editing(w)    == {c \in Clients : target[c] = w /\ pc[c] \in Bodies}
Generating(w) == {k \in Workers : work[k] = w /\ wpc[k] = "run"}

\* At most one thread works on a design, be it a generation of the pool or a
\* locked request: the lock serializes requests, the active count keeps them
\* away from a generation, and a design is generated once.  A request that
\* entered while the creation was exposed may work beside the generation, and
\* nobody else beside these two.
OneWriter ==
    \A w \in Workflows : Cardinality(Editing(w)) + Cardinality(Generating(w))
                             <= IF early[w] = "inside" THEN 2 ELSE 1

Queued(w)   == \E i \in DOMAIN queue : queue[i] = w
InFlight(w) == Queued(w) \/ (\E k \in Workers : work[k] = w)

HoldsPermit ==
    {w \in Workflows : InFlight(w) \/ w \in ended
        \/ \E c \in Clients : target[c] = w /\ pc[c] = "submit"}

HoldsSlot ==
    {c \in Clients : pc[c] \in EditPcs \ {"slot"}}
        \cup {k \in Workers : wpc[k] \in {"run", "unmark", "free_slot"}}

\* Both semaphores account for every permit: none is lost on an error path, and
\* none is given back twice when a future ends before its callback is set.
PermitsAccounted ==
    /\ permits + Cardinality(HoldsPermit) = MaxConcurrent + MaxPending
    /\ slots + Cardinality(HoldsSlot) = MaxConcurrent

Quiet(w) == ~InFlight(w) /\ \A c \in Clients : target[c] # w

\* A workflow no thread works on is not counted as active and has no entry left
\* in the lock maps, unless its creation raised after it was counted.
QuietMeansReleased ==
    \A w \in Workflows : Quiet(w) =>
        /\ active[w] = 0 \/ answered[w] = "raised"
        /\ lockOf[w] = None /\ users[w] = 0

\* tests/unit/test_api_workflow.py: a creation the service refuses, for want of
\* capacity or because it is closing, leaves no directory and no active count,
\* save one that a request which entered in the gap has written again.
RefusedLeavesNoOrphan ==
    \A w \in Workflows :
        answered[w] = "refused" /\ early[w] = "no" => w \notin dirs /\ active[w] = 0

\* A successful DELETE is final: no late event, edit or generation writes the
\* design again.  Only a DELETE that entered in the gap is not: the creation goes on.
DeletedStaysDeleted == deleted \cap dirs = {}

NoMoreEdits == <>[](\A c \in Clients : op[c] # "edit")

\* An accepted generation runs to its end, a shutdown included, unless edits
\* keep taking the slot its worker waits for.
AcceptedWorkEnds ==
    NoMoreEdits => \A w \in Workflows : InFlight(w) ~> (~InFlight(w) /\ active[w] = 0)

\* A design has one writer at a time, and what was deleted does not come back: the lock map
\* loses no lock that somebody is about to take (_workflow_operation, delete_design).  Only a
\* request that entered between the status and the count of a creation is excepted, for its own
\* design (create_design).
DesignsAreGuarded == OneWriter /\ DeletedStaysDeleted

\* Whatever is refused, raises or is cancelled, permits, slots, locks, counts and files go
\* back to what a quiet service has (create_design, _submit_background, edit_design).
NothingLeaks ==
    TypeOK /\ PermitsAccounted /\ QuietMeansReleased /\ RefusedLeavesNoOrphan
=============================================================================
