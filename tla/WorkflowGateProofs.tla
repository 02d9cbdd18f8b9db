------------------------- MODULE WorkflowGateProofs -------------------------
(***************************************************************************)
(* Theorems of WorkflowGate, for any number of request threads, pool       *)
(* threads, workflows and permits.                                         *)
(*                                                                         *)
(* The argument, in the order of the invariants below.  A request has the  *)
(* lock its workflow has in the map as long as it runs, and the map counts *)
(* those who use it (LockMap): so two requests inside hold two locks.  A   *)
(* workflow has at most one creator, one place in the queue or one worker  *)
(* (Futures), which makes the permits and the slots add up (Counts).  Its  *)
(* creator counts it as active as long as a request that enters is not     *)
(* early, and its worker until it has written for the last time (Marking): *)
(* so a request that found it inactive inside the lock is alone with it,   *)
(* unless its creation was exposed, and then still with its lock.          *)
(***************************************************************************)
EXTENDS WorkflowGate, FiniteSetTheorems, TLAPS

\* The steps of a request that has, or is about to take, the lock of its
\* workflow; those where it is inside; and those after its check.
LockedPcs == {"lock", "check", "find", "commit", "purge", "remove", "unlock", "leave"} \cup EditPcs
Holding   == LockedPcs \ {"lock", "leave"}
Checked   == Holding \ {"check", "unlock"}

\* What each request thread is doing, and for which workflow.
Requests ==
    /\ \A c \in Clients :
          /\ op[c] = "none" <=> pc[c] = "idle"
          /\ op[c] = "create" <=> pc[c] \in CreatePcs
          /\ op[c] \in Locked <=> pc[c] \in LockedPcs
          /\ op[c] = "none" <=> target[c] = None
          /\ op[c] # "none" => target[c] \in born
          /\ op[c] = "create" =>
                /\ answered[target[c]] = "none"
                /\ \A d \in Clients : op[d] = "create" /\ target[d] = target[c] => d = c
    /\ \A w \in Workflows : answered[w] # "none" => w \in born
    /\ dirs \subseteq born

\* The threads that use the lock of a workflow.
Users(w) == {c \in Clients : op[c] \in Locked /\ target[c] = w}

\* A request uses the lock its workflow has in the map, and is the holder of
\* it as long as it is inside.
Owners ==
    \A c \in Clients :
        /\ op[c] \in Locked => mine[c] = lockOf[target[c]]
        /\ op[c] \notin Locked => mine[c] = None
        /\ pc[c] \in Holding => holder[mine[c]] = c

\* The map has an entry for a workflow exactly while threads use it.
Entries == \A w \in Workflows :
    /\ users[w] = Cardinality(Users(w))
    /\ lockOf[w] = None <=> Users(w) = {}

\* No two entries share a lock.
Unshared ==
    \A v, w \in Workflows : lockOf[v] = lockOf[w] /\ lockOf[v] # None => v = w

LockMap == Owners /\ Entries /\ Unshared

\* A creation before its future exists.
Preparing(c) == op[c] = "create" /\ pc[c] # "register"

\* A workflow is generated once: from its creator to the queue, to a worker,
\* to the futures that ended before their callback was set.
Futures ==
    /\ \A c \in Clients : Preparing(c) => ~InFlight(target[c]) /\ target[c] \notin ended
    /\ \A i, j \in DOMAIN queue : queue[i] = queue[j] => i = j
    /\ \A k \in Workers :
          /\ work[k] = None <=> wpc[k] = "idle"
          /\ work[k] # None =>
                /\ ~Queued(work[k]) /\ work[k] \notin ended
                /\ \A j \in Workers : work[j] = work[k] => j = k
    /\ \A w \in ended : ~Queued(w) /\ w \notin hooked
    /\ \A w \in Workflows : InFlight(w) \/ w \in ended => w \in born

\* Permits and slots are where they are held or free.
Counts ==
    /\ IsFiniteSet(HoldsPermit) /\ PermitsAccounted

\* Counted as active on behalf of its creation or its generation.
MarkPcs      == {"announce", "admit", "submit", "unmark"}
AtMark(w)    == \E c \in Clients : target[c] = w /\ pc[c] \in MarkPcs
Generated(w) == \E k \in Workers : work[k] = w /\ wpc[k] \in {"slot", "run", "unmark"}
Marked(w)    == Queued(w) \/ Generated(w) \/ AtMark(w)

\* Nobody asks for a workflow before its pending status is written.
Acquainted ==
    \A c, d \in Clients : op[c] \in Locked /\ pc[d] = "pending" => target[c] # target[d]

\* The edits a workflow is counted for.
Editor(w) == \E c \in Clients : target[c] = w /\ pc[c] \in {"edit", "unmark_edit"}
Edits(w)  == IF Editor(w) THEN 1 ELSE 0

\* The active count of a workflow is that of its generation and of its edit; a
\* creation that raised after it was counted leaves one more.
MarkingOf(w) ==
    /\ Marked(w) => active[w] = 1 + Edits(w)
    /\ ~Marked(w) => active[w] = Edits(w) \/ (answered[w] = "raised" /\ active[w] = 1 + Edits(w))

\* A request past its check is alone with its workflow, unless it is early.
Guarded(c) ==
    pc[c] \in Checked /\ early[target[c]] # "inside"
        => ~Marked(target[c]) /\ ~Exposed(target[c])

Marking == (\A w \in Workflows : MarkingOf(w)) /\ (\A c \in Clients : Guarded(c))

\* What is on disk for whom.
OnDisk == {"mark_edit", "edit", "unmark_edit", "commit", "remove"}

Directories ==
    /\ \A c \in Clients : pc[c] \in OnDisk /\ early[target[c]] # "inside" => target[c] \in dirs
    /\ \A w \in deleted :
          /\ w \in born /\ w \notin dirs /\ ~Marked(w) /\ early[w] # "inside"
          /\ \A c \in Clients : target[c] = w => ~Preparing(c)
    /\ \A w \in Workflows :
          answered[w] = "refused" /\ early[w] = "no"
              => w \notin dirs /\ active[w] = 0 /\ ~InFlight(w)

Base == TypeOK /\ Requests /\ LockMap /\ Futures /\ Counts

\* What the active count and the directories rest on.
Guard == Acquainted /\ Marking /\ Directories

USE DEF locks, pool, request

-----------------------------------------------------------------------------
(* What a step does to the requests and to the lock map.                   *)

Answers == {"accepted", "refused", "raised"}

\* The step of a creation: it goes on, or it is answered.
Creates(c) ==
    /\ pc[c] \in CreatePcs /\ UNCHANGED <<locks, born>>
    /\ \/ pc[c] # "register" /\ \E next \in CreatePcs : Go(c, next) /\ UNCHANGED answered
       \/ \E how \in Answers : Answer(c, how)

\* The step of a request inside its lock.
Inside(c) ==
    /\ pc[c] \in Holding /\ UNCHANGED <<locks, born, answered>>
    /\ \E next \in Holding : Go(c, next)

LEMMA RequestMoves ==
    ASSUME Requests, [Next]_vars
    PROVE  \/ UNCHANGED <<request, locks, born, answered>>
           \/ \E c \in Clients, w \in Workflows : MakeDirectory(c, w)
           \/ \E c \in Clients, w \in Workflows, k \in Locked : Enter(c, k, w)
           \/ \E c \in Clients :
                 Creates(c) \/ Inside(c) \/ Acquire(c) \/ Unlock(c) \/ Leave(c)
  <1> USE DEF Creates, Inside, CreatePcs, Holding, LockedPcs, EditPcs, Answers
  <1>1. ASSUME NEW c \in Clients,
               WritePending(c) \/ MarkActive(c) \/ EmitDesignCreated(c) \/ Admit(c)
        PROVE  Creates(c)
    BY <1>1 DEF WritePending, MarkActive, EmitDesignCreated, Admit
  <1>2. ASSUME NEW c \in Clients,
               Submit(c) \/ Register(c) \/ UnmarkRefused(c) \/ Discard(c)
        PROVE  Creates(c)
    BY <1>2 DEF Submit, Register, UnmarkRefused, Discard
  <1>3. ASSUME NEW c \in Clients, CheckActive(c)
        PROVE  Inside(c)
    BY <1>3 DEF CheckActive, Requests, Locked
  <1>4. ASSUME NEW c \in Clients, TakeSlot(c) \/ SlotStep(c)
        PROVE  Inside(c)
    BY <1>4 DEF TakeSlot, SlotStep, BeginActiveOperation, MarkEditActive, Edit, UnmarkEdit,
       FreeSlot, FailedBegin
  <1>5. ASSUME NEW c \in Clients,
               FindVersion(c) \/ CommitVersion(c) \/ PurgeMemory(c) \/ RemoveFiles(c)
        PROVE  Inside(c)
    BY <1>5 DEF FindVersion, CommitVersion, PurgeMemory, RemoveFiles
  <1>6. ASSUME NEW k \in Workers, WorkerStep(k)
        PROVE  UNCHANGED <<request, locks, born, answered>>
    BY <1>6 DEF WorkerStep, Take, WaitForSlot, Generate, UnmarkGenerated, FreeWorkerSlot,
       EndFuture
  <1>7. CASE Shutdown \/ UNCHANGED vars
    BY <1>7 DEF Shutdown, vars
  <1> QED
    BY <1>1, <1>2, <1>3, <1>4, <1>5, <1>6, <1>7 DEF Next, CreateStep, LockedStep

\* What a step does to the pool and to the workflows on disk.
LEMMA PoolMoves ==
    ASSUME [Next]_vars
    PROVE  \/ UNCHANGED pool
           \/ \E c \in Clients : Submit(c) \/ Register(c)
           \/ \E k \in Workers : WorkerStep(k)
  BY DEF Next, CreateStep, LockedStep, SlotStep, vars, MakeDirectory, Enter, WritePending,
     MarkActive, EmitDesignCreated, Admit, UnmarkRefused, Discard, Acquire, CheckActive,
     TakeSlot, BeginActiveOperation, MarkEditActive, Edit, UnmarkEdit, FreeSlot, FindVersion,
     CommitVersion, PurgeMemory, RemoveFiles, Unlock, Leave, Shutdown

LEMMA DirectoryMoves ==
    ASSUME TypeOK, Requests, Futures, [Next]_vars
    PROVE  \/ dirs' \subseteq dirs
           \/ \E c \in Clients, w \in Workflows : MakeDirectory(c, w)
           \/ \E w \in born : dirs' = dirs \cup {w}
  <1> USE DEF TypeOK, Requests, Touched
  <1>1. ASSUME NEW k \in Workers, WorkerStep(k)
        PROVE  dirs' = dirs \/ (dirs' = dirs \cup {work[k]} /\ work[k] \in born)
    <2>1. CASE Generate(k)
      <3>1. work[k] \in Workflows  BY <2>1 DEF Generate, Futures
      <3>2. work[k] \in born  BY <3>1 DEF Futures, InFlight
      <3> QED  BY <2>1, <3>2 DEF Generate
    <2>2. CASE ~Generate(k)
      BY <1>1, <2>2 DEF WorkerStep, Take, WaitForSlot, UnmarkGenerated, FreeWorkerSlot, EndFuture
    <2> QED  BY <2>1, <2>2
  <1>2. ASSUME NEW c \in Clients, CreateStep(c)
        PROVE  dirs' \subseteq dirs \/ (dirs' = dirs \cup {target[c]} /\ target[c] \in born)
    BY <1>2 DEF CreateStep, WritePending, MarkActive, EmitDesignCreated, Admit, Submit, Register,
       UnmarkRefused, Discard, Discarded, CreatePcs
  <1>3. ASSUME NEW c \in Clients, LockedStep(c)
        PROVE  dirs' \subseteq dirs \/ (dirs' = dirs \cup {target[c]} /\ target[c] \in born)
    BY <1>3 DEF LockedStep, SlotStep, Acquire, CheckActive,
     TakeSlot, BeginActiveOperation, MarkEditActive, Edit, UnmarkEdit, FreeSlot, FindVersion,
     CommitVersion, PurgeMemory, RemoveFiles, Unlock, Leave, LockedPcs, EditPcs
  <1>4. ASSUME NEW c \in Clients, NEW w \in Workflows, NEW k \in Locked, Enter(c, k, w)
        PROVE  dirs' = dirs
    BY <1>4 DEF Enter
  <1>5. CASE Shutdown \/ UNCHANGED vars
    BY <1>5 DEF Shutdown, vars
  <1> QED  BY <1>1, <1>2, <1>3, <1>4, <1>5 DEF Next

LEMMA KnownIsBorn ==
    ASSUME Requests, NEW w \in Workflows, Known(w)
    PROVE  w \in born
  BY DEF Requests, Known, Listed

\* A request is what its thread is doing.
LEMMA RequestsStep ==
    ASSUME TypeOK, Requests, Futures, [Next]_vars
    PROVE  Requests'
  <1> USE GateAssumption DEF TypeOK, Requests, CreatePcs, LockedPcs, EditPcs, Locked
  <1>1. dirs' \subseteq born'
    BY DirectoryMoves, RequestMoves DEF MakeDirectory, Enter, Creates, Inside, Acquire, Unlock, Leave
  <1> USE <1>1
  <1>2. CASE UNCHANGED <<request, locks, born, answered>>
    BY <1>2
  <1>3. ASSUME NEW c \in Clients, NEW w \in Workflows, MakeDirectory(c, w) PROVE Requests'
    BY <1>3 DEF MakeDirectory
  <1>4. ASSUME NEW c \in Clients, NEW w \in Workflows, NEW k \in Locked, Enter(c, k, w)
        PROVE  Requests'
    BY <1>4, KnownIsBorn DEF Enter
  <1>5. ASSUME NEW c \in Clients, Creates(c) PROVE Requests'
    <2>1. ASSUME NEW next \in CreatePcs, Go(c, next), UNCHANGED <<locks, born, answered>>,
                 pc[c] \in CreatePcs
          PROVE  Requests'
      BY <2>1 DEF Go
    <2>2. ASSUME NEW how \in Answers, Answer(c, how), UNCHANGED <<locks, born>>,
                 pc[c] \in CreatePcs
          PROVE  Requests'
      BY <2>2 DEF Answer, Return, Answers
    <2> QED  BY <1>5, <2>1, <2>2 DEF Creates
  <1>6. ASSUME NEW c \in Clients, Inside(c) PROVE Requests'
    BY <1>6 DEF Inside, Go, Holding
  <1>7. ASSUME NEW c \in Clients, Acquire(c) \/ Unlock(c) PROVE Requests'
    BY <1>7 DEF Acquire, Unlock, Go
  <1>8. ASSUME NEW c \in Clients, Leave(c) PROVE Requests'
    BY <1>8 DEF Leave, Return
  <1> QED  BY <1>2, <1>3, <1>4, <1>5, <1>6, <1>7, <1>8, RequestMoves

-----------------------------------------------------------------------------
(* Counting.                                                               *)

\* One element more, one element less.
LEMMA Adds ==
    ASSUME NEW S, IsFiniteSet(S), NEW x, x \notin S
    PROVE  /\ IsFiniteSet(S \cup {x}) /\ Cardinality(S) \in Nat
           /\ Cardinality(S \cup {x}) = Cardinality(S) + 1
  BY FS_AddElement, FS_CardinalityType

LEMMA Removes ==
    ASSUME NEW S, IsFiniteSet(S), NEW x \in S
    PROVE  /\ IsFiniteSet(S \ {x}) /\ Cardinality(S) \in Nat \ {0}
           /\ Cardinality(S \ {x}) = Cardinality(S) - 1
  <1>1. Cardinality(S) \in Nat  BY FS_CardinalityType
  <1>2. Cardinality(S) # 0  BY FS_EmptySet
  <1>3. IsFiniteSet(S \ {x}) /\ Cardinality(S \ {x}) = Cardinality(S) - 1
    BY FS_RemoveElement
  <1> QED  BY <1>1, <1>2, <1>3

-----------------------------------------------------------------------------
(* The lock map.                                                           *)

LockTypes ==
    /\ lockOf \in [Workflows -> Locks \cup {None}] /\ mine \in [Clients -> Locks \cup {None}]
    /\ users \in [Workflows -> Nat]

\* What the lemmas about the lock map need of the types.
LEMMA RequestTypes ==
    ASSUME TypeOK, Requests
    PROVE  /\ LockTypes /\ holder \in [Locks -> Clients \cup {None}]
           /\ DOMAIN op = Clients /\ DOMAIN target = Clients /\ DOMAIN pc = Clients
           /\ \A c \in Clients :
                 /\ op[c] \in Locked => target[c] \in Workflows
                 /\ pc[c] \in Holding => op[c] \in Locked
           /\ None \notin Clients \cup Workers \cup Workflows \cup Locks
  BY GateAssumption DEF TypeOK, Requests, LockTypes, Locked, Holding

LEMMA UsersFinite ==
    ASSUME NEW w
    PROVE  IsFiniteSet(Users(w)) /\ Cardinality(Users(w)) \in Nat
  <1>1. Users(w) \in SUBSET Clients  BY DEF Users
  <1>2. IsFiniteSet(Users(w))  BY <1>1, GateAssumption, FS_Subset
  <1> QED  BY <1>2, FS_CardinalityType

\* There is a lock nobody uses when a thread enters: the others use one each.
LEMMA LockLeft ==
    ASSUME TypeOK, Requests, LockMap, NEW c \in Clients, op[c] = "none"
    PROVE  \E l \in Locks : l \notin InUse
  <1> DEFINE Others == Clients \ {c}
             Taken  == {mine[d] : d \in Others}
             f      == [d \in Others |-> mine[d]]
  <1>1. IsFiniteSet(Others) /\ Cardinality(Others) = Cardinality(Clients) - 1
    BY GateAssumption, Removes
  <1>2. f \in Surjection(Others, Taken)
    BY DEF Surjection
  <1>3. IsFiniteSet(Taken) /\ Cardinality(Taken) <= Cardinality(Others)
    BY <1>1, <1>2, FS_Surjection
  <1>4. PICK l \in Locks : l \notin Taken
    <2> SUFFICES ASSUME Locks \in SUBSET Taken PROVE FALSE  OBVIOUS
    <2> HIDE DEF Taken, Others
    <2>1. Cardinality(Locks) <= Cardinality(Taken)
      BY <1>3, FS_Subset
    <2>2. Cardinality(Locks) \in Nat /\ Cardinality(Taken) \in Nat /\ Cardinality(Clients) \in Nat
      BY <1>3, GateAssumption, FS_CardinalityType
    <2>3. Cardinality(Locks) >= Cardinality(Clients)  BY GateAssumption
    <2> QED  BY <1>1, <1>3, <2>1, <2>2, <2>3
  <1>5. mine[c] = None  BY DEF LockMap, Owners, Locked
  <1>6. \A w \in Workflows : lockOf[w] # l
    <2> SUFFICES ASSUME NEW w \in Workflows, lockOf[w] = l PROVE FALSE  OBVIOUS
    <2>1. Users(w) # {}
      BY RequestTypes DEF LockMap, Entries
    <2>2. PICK d \in Clients : op[d] \in Locked /\ target[d] = w
      BY <2>1 DEF Users
    <2>3. mine[d] = l /\ d # c  BY <2>2 DEF LockMap, Owners, Locked
    <2> QED  BY <1>4, <2>3
  <1>7. l \in Locks /\ None \notin Locks  BY RequestTypes
  <1> QED  BY <1>4, <1>5, <1>6, <1>7 DEF InUse

LEMMA EnterKeepsLocks ==
    ASSUME TypeOK, Requests, LockMap, NEW c \in Clients, NEW w \in Workflows, NEW k \in Locked,
           Enter(c, k, w)
    PROVE  LockMap' /\ LockTypes'
  <1> DEFINE l == LockFor(w)
  <1>0. op[c] = "none" /\ mine[c] = None
    BY DEF Enter, Requests, LockMap, Owners, Locked
  <1>1. /\ l \in Locks
        /\ lockOf[w] # None => l = lockOf[w]
        /\ lockOf[w] = None => l \notin InUse
    <2>1. CASE lockOf[w] = None  BY <1>0, <2>1, LockLeft, RequestTypes DEF LockFor
    <2>2. CASE lockOf[w] # None  BY <2>2, RequestTypes DEF LockFor, LockTypes
    <2> QED  BY <2>1, <2>2
  <1>2. /\ op' = [op EXCEPT ![c] = k] /\ target' = [target EXCEPT ![c] = w]
        /\ lockOf' = [lockOf EXCEPT ![w] = l] /\ mine' = [mine EXCEPT ![c] = l]
        /\ users' = [users EXCEPT ![w] = @ + 1] /\ pc' = [pc EXCEPT ![c] = "lock"]
        /\ holder' = holder
    BY DEF Enter
  <1> HIDE DEF l
  <1>3. /\ Users(w)' = Users(w) \cup {c} /\ c \notin Users(w)
        /\ \A v \in Workflows \ {w} : Users(v)' = Users(v)
    BY <1>0, <1>2, RequestTypes DEF Users, Locked
  <1>4. Cardinality(Users(w)') = Cardinality(Users(w)) + 1
    BY <1>3, UsersFinite, Adds, Zenon
  <1>5. Entries'
    <2> SUFFICES ASSUME NEW v \in Workflows
                 PROVE  users'[v] = Cardinality(Users(v)') /\ (lockOf'[v] = None <=> Users(v)' = {})
      BY DEF Entries
    <2>1. users[v] = Cardinality(Users(v)) /\ (lockOf[v] = None <=> Users(v) = {})
      BY DEF LockMap, Entries
    <2>2. CASE v = w
      <3>1. users'[w] = Cardinality(Users(w)')  BY <1>2, <1>4, <2>1, <2>2, RequestTypes DEF LockTypes
      <3>2. lockOf'[w] # None /\ Users(w)' # {}
        BY <1>1, <1>2, <1>3, RequestTypes DEF LockTypes
      <3> QED  BY <2>2, <3>1, <3>2
    <2>3. CASE v # w
      <3>1. users'[v] = users[v] /\ lockOf'[v] = lockOf[v]
        BY <1>2, <2>3, RequestTypes DEF LockTypes
      <3> QED  BY <1>3, <2>1, <2>3, <3>1
    <2> QED  BY <2>2, <2>3
  <1>6. Owners'
    <2> SUFFICES ASSUME NEW d \in Clients
          PROVE  /\ op'[d] \in Locked => mine'[d] = lockOf'[target'[d]]
                 /\ op'[d] \notin Locked => mine'[d] = None
                 /\ pc'[d] \in Holding => holder'[mine'[d]] = d
      BY DEF Owners
    <2>0. /\ op[d] \in Locked => mine[d] = lockOf[target[d]] /\ d \in Users(target[d])
          /\ op[d] \notin Locked => mine[d] = None
          /\ pc[d] \in Holding => holder[mine[d]] = d
      BY DEF LockMap, Owners, Users
    <2>1. CASE d = c  BY <1>2, <2>1, RequestTypes DEF Holding, LockTypes
    <2>2. CASE d # c
      <3>1. op[d] \in Locked /\ target[d] = w => lockOf[w] # None
        BY <2>0 DEF LockMap, Entries
      <3> QED  BY <1>1, <1>2, <2>0, <2>2, <3>1, RequestTypes DEF LockTypes
    <2> QED  BY <2>1, <2>2
  <1>7. Unshared'
    BY <1>1, <1>2, RequestTypes DEF LockMap, Unshared, InUse, LockTypes
  <1>8. LockTypes'
    BY <1>1, <1>2, RequestTypes DEF LockTypes
  <1> QED  BY <1>5, <1>6, <1>7, <1>8 DEF LockMap

LEMMA LeaveKeepsLocks ==
    ASSUME TypeOK, Requests, LockMap, NEW c \in Clients, Leave(c)
    PROVE  LockMap' /\ LockTypes'
  <1>a. op[c] \in Locked
    BY DEF Leave, Requests, LockedPcs
  <1>b. PICK w \in Workflows : w = target[c]
    BY <1>a, RequestTypes
  <1>0. op[c] \in Locked /\ w = target[c] /\ c \in Users(w)
    BY <1>a, <1>b DEF Users
  <1>1. /\ op' = [op EXCEPT ![c] = "none"] /\ target' = [target EXCEPT ![c] = None]
        /\ mine' = [mine EXCEPT ![c] = None] /\ pc' = [pc EXCEPT ![c] = "idle"]
        /\ holder' = holder
        /\ IF users[w] <= 1
           THEN /\ users' = [users EXCEPT ![w] = 0]
                /\ lockOf' = [lockOf EXCEPT ![w] = None]
           ELSE users' = [users EXCEPT ![w] = @ - 1] /\ UNCHANGED lockOf
    BY <1>b DEF Leave, Return, LastUser
  <1>2. Users(w)' = Users(w) \ {c} /\ \A v \in Workflows \ {w} : Users(v)' = Users(v)
    BY <1>0, <1>1, RequestTypes DEF Users, Locked
  <1>3. /\ users[w] = Cardinality(Users(w)) /\ users[w] \in Nat \ {0}
        /\ Cardinality(Users(w)') = users[w] - 1
        /\ Users(w)' = {} <=> users[w] = 1
    <2>1. users[w] = Cardinality(Users(w)) /\ IsFiniteSet(Users(w)) /\ IsFiniteSet(Users(w) \ {c})
      BY <1>0, UsersFinite, Removes DEF LockMap, Entries
    <2>2. Cardinality(Users(w)) \in Nat \ {0} /\ Cardinality(Users(w)') = Cardinality(Users(w)) - 1
      BY <1>0, <1>2, <2>1, Removes
    <2>3. Users(w)' = {} <=> Cardinality(Users(w)') = 0
      BY <1>2, <2>1, FS_EmptySet
    <2> QED  BY <2>1, <2>2, <2>3
  <1>4. /\ users[w] = 1 => users' = [users EXCEPT ![w] = 0] /\ lockOf' = [lockOf EXCEPT ![w] = None]
        /\ users[w] # 1 => users' = [users EXCEPT ![w] = @ - 1] /\ lockOf' = lockOf
    BY <1>1, <1>3
  <1>5. Entries'
    <2> SUFFICES ASSUME NEW v \in Workflows
                 PROVE  users'[v] = Cardinality(Users(v)') /\ (lockOf'[v] = None <=> Users(v)' = {})
      BY DEF Entries
    <2>1. users[v] = Cardinality(Users(v)) /\ (lockOf[v] = None <=> Users(v) = {})
      BY DEF LockMap, Entries
    <2>2. CASE v = w
      <3>1. users'[w] = Cardinality(Users(w)')  BY <1>0, <1>3, <1>4, RequestTypes DEF LockTypes
      <3>2. lockOf'[w] = None <=> Users(w)' = {}
        BY <1>0, <1>3, <1>4, <2>1, <2>2, RequestTypes DEF LockTypes
      <3> QED  BY <2>2, <3>1, <3>2
    <2>3. CASE v # w
      <3>1. users'[v] = users[v] /\ lockOf'[v] = lockOf[v]
        BY <1>4, <2>3, RequestTypes DEF LockTypes
      <3> QED  BY <1>2, <2>1, <2>3, <3>1
    <2> QED  BY <2>2, <2>3
  <1>6. Owners'
    <2> SUFFICES ASSUME NEW d \in Clients
          PROVE  /\ op'[d] \in Locked => mine'[d] = lockOf'[target'[d]]
                 /\ op'[d] \notin Locked => mine'[d] = None
                 /\ pc'[d] \in Holding => holder'[mine'[d]] = d
      BY DEF Owners
    <2>0. /\ op[d] \in Locked => mine[d] = lockOf[target[d]] /\ d \in Users(target[d])
          /\ op[d] \notin Locked => mine[d] = None
          /\ pc[d] \in Holding => holder[mine[d]] = d
      BY DEF LockMap, Owners, Users
    <2>1. CASE d = c  BY <1>1, <2>1, RequestTypes DEF Holding, LockedPcs, EditPcs, Locked, LockTypes
    <2>2. CASE d # c
      <3>1. op[d] \in Locked /\ target[d] = w => users[w] # 1
        BY <1>2, <1>3, <2>0, <2>2
      <3>2. op'[d] = op[d] /\ target'[d] = target[d] /\ pc'[d] = pc[d] /\ mine'[d] = mine[d]
        BY <1>1, <2>2, RequestTypes DEF LockTypes
      <3>3. op[d] \in Locked => lockOf'[target[d]] = lockOf[target[d]]
        BY <1>4, <3>1, RequestTypes DEF LockTypes
      <3> QED  BY <1>1, <2>0, <3>2, <3>3
    <2> QED  BY <2>1, <2>2
  <1>7. Unshared'
    BY <1>0, <1>4, RequestTypes DEF LockMap, Unshared, LockTypes
  <1>8. LockTypes'
    BY <1>0, <1>1, <1>3, <1>4, RequestTypes DEF LockTypes
  <1> QED  BY <1>5, <1>6, <1>7, <1>8 DEF LockMap

LEMMA HasLock ==
    ASSUME TypeOK, Requests, LockMap, NEW c \in Clients, op[c] \in Locked
    PROVE  mine[c] = lockOf[target[c]] /\ mine[c] \in Locks
  <1>1. mine[c] = lockOf[target[c]] /\ c \in Users(target[c])
    BY DEF LockMap, Owners, Users
  <1> QED  BY <1>1, RequestTypes DEF LockMap, Entries, LockTypes

LEMMA LockMapStep ==
    ASSUME TypeOK, Requests, LockMap, [Next]_vars
    PROVE  LockMap' /\ LockTypes'
  <1>1. ASSUME UNCHANGED locks,
               \A d \in Clients :
                  /\ \/ op'[d] = op[d] /\ target'[d] = target[d]
                     \/ op[d] \notin Locked /\ op'[d] \notin Locked
                  /\ pc'[d] \in Holding => pc[d] \in Holding
        PROVE  LockMap' /\ LockTypes'
    <2>1. \A w \in Workflows : Users(w)' = Users(w)
      BY <1>1 DEF Users
    <2>2. Entries' /\ Unshared' /\ LockTypes'
      BY <1>1, <2>1, RequestTypes DEF LockMap, Entries, Unshared, LockTypes
    <2>3. Owners'
      BY <1>1 DEF LockMap, Owners
    <2> QED  BY <2>2, <2>3 DEF LockMap
  <1>2. CASE UNCHANGED <<request, locks, born, answered>>
    BY <1>1, <1>2
  <1>3. ASSUME NEW c \in Clients, NEW w \in Workflows, MakeDirectory(c, w)
        PROVE  LockMap' /\ LockTypes'
    BY <1>1, <1>3, RequestTypes
    DEF MakeDirectory, Requests, Locked, Holding, LockedPcs, EditPcs
  <1>4. ASSUME NEW c \in Clients, Creates(c)
        PROVE  LockMap' /\ LockTypes'
    <2>1. op[c] = "create" /\ pc[c] \in CreatePcs  BY <1>4 DEF Creates, Requests
    <2>2. ASSUME NEW next \in CreatePcs, Go(c, next), UNCHANGED locks
          PROVE  LockMap' /\ LockTypes'
      BY <1>1, <2>1, <2>2, RequestTypes DEF Go, CreatePcs, Holding, LockedPcs, EditPcs
    <2>3. ASSUME NEW how \in Answers, Answer(c, how), UNCHANGED locks
          PROVE  LockMap' /\ LockTypes'
      BY <1>1, <2>1, <2>3, RequestTypes DEF Answer, Return, Locked, Holding, LockedPcs, EditPcs
    <2> QED  BY <1>4, <2>2, <2>3 DEF Creates
  <1>5. ASSUME NEW c \in Clients, Inside(c)
        PROVE  LockMap' /\ LockTypes'
    BY <1>1, <1>5, RequestTypes DEF Inside, Go
  <1>6. ASSUME NEW c \in Clients, Acquire(c) \/ Unlock(c)
        PROVE  LockMap' /\ LockTypes'
    <2>0. op[c] \in Locked
      BY <1>6 DEF Acquire, Unlock, Requests, LockedPcs
    <2>2. \A d \in Clients : op[d] \in Locked => mine[d] \in Locks
      BY HasLock
    <2>3. UNCHANGED <<op, target, lockOf, users, mine>>
      BY <1>6 DEF Acquire, Unlock, Go
    <2>4. \A w \in Workflows : Users(w)' = Users(w)
      BY <2>3 DEF Users
    <2>5. Owners'
      <3> SUFFICES ASSUME NEW d \in Clients
            PROVE  /\ op'[d] \in Locked => mine'[d] = lockOf'[target'[d]]
                   /\ op'[d] \notin Locked => mine'[d] = None
                   /\ pc'[d] \in Holding => holder'[mine'[d]] = d
        BY DEF Owners
      <3>1. /\ op[d] \in Locked => mine[d] = lockOf[target[d]]
            /\ op[d] \notin Locked => mine[d] = None
            /\ pc[d] \in Holding => holder[mine[d]] = d
        BY DEF LockMap, Owners
      <3>2. \/ /\ holder' = [holder EXCEPT ![mine[c]] = c] /\ holder[mine[c]] = None
               /\ pc' = [pc EXCEPT ![c] = "check"]
            \/ /\ holder' = [holder EXCEPT ![mine[c]] = None] /\ holder[mine[c]] = c
               /\ pc' = [pc EXCEPT ![c] = "leave"]
        BY <1>6 DEF Acquire, Unlock, Go, LockMap, Owners, Holding, LockedPcs
      <3>3. pc'[d] \in Holding => holder'[mine[d]] = d
        <4>1. CASE d = c  BY <2>0, <2>2, <3>2, <4>1, RequestTypes DEF Holding
        <4>2. CASE d # c
          <5>1. pc'[d] = pc[d]  BY <3>2, <4>2, RequestTypes
          <5>2. d # None  BY RequestTypes
          <5>3. ASSUME pc[d] \in Holding PROVE holder'[mine[d]] = holder[mine[d]]
            <6>1. mine[d] \in Locks /\ holder[mine[d]] = d
              BY <2>2, <3>1, <5>3, RequestTypes
            <6>2. mine[d] # mine[c]  BY <3>2, <4>2, <5>2, <6>1
            <6> QED  BY <3>2, <6>1, <6>2, RequestTypes
          <5> QED  BY <3>1, <5>1, <5>3
        <4> QED  BY <4>1, <4>2
      <3> QED  BY <2>3, <3>1, <3>3
    <2>6. Entries' /\ Unshared' /\ LockTypes'
      BY <2>3, <2>4, RequestTypes DEF LockMap, Entries, Unshared, LockTypes
    <2> QED  BY <2>5, <2>6 DEF LockMap
  <1>7. ASSUME NEW c \in Clients, NEW w \in Workflows, NEW k \in Locked, Enter(c, k, w)
        PROVE  LockMap' /\ LockTypes'
    BY <1>7, EnterKeepsLocks
  <1>8. ASSUME NEW c \in Clients, Leave(c)
        PROVE  LockMap' /\ LockTypes'
    BY <1>8, LeaveKeepsLocks
  <1> QED  BY <1>2, <1>3, <1>4, <1>5, <1>6, <1>7, <1>8, RequestMoves

-----------------------------------------------------------------------------
(* The futures.                                                            *)

PoolTypes ==
    /\ queue \in Seq(Workflows) /\ work \in [Workers -> Workflows \cup {None}]
    /\ wpc \in [Workers -> {"idle", "slot", "run", "unmark", "free_slot", "end"}]
    /\ hooked \subseteq Workflows /\ ended \subseteq Workflows

Distinct == \A i, j \in DOMAIN queue : queue[i] = queue[j] => i = j

LEMMA QueueAppend ==
    ASSUME queue \in Seq(Workflows), NEW w \in Workflows, queue' = Append(queue, w)
    PROVE  /\ queue' \in Seq(Workflows)
           /\ \A v : Queued(v)' <=> Queued(v) \/ v = w
           /\ Distinct /\ ~Queued(w) => Distinct'
  <1>1. /\ queue' \in Seq(Workflows) /\ Len(queue) \in Nat
        /\ DOMAIN queue = 1..Len(queue) /\ DOMAIN queue' = 1..(Len(queue) + 1)
        /\ \A i \in 1..Len(queue) : queue'[i] = queue[i]
        /\ queue'[Len(queue) + 1] = w
    OBVIOUS
  <1>2. \A i \in DOMAIN queue' : i \in DOMAIN queue \/ i = Len(queue) + 1
    BY <1>1
  <1>3. Len(queue) + 1 \in DOMAIN queue' /\ DOMAIN queue \subseteq DOMAIN queue'
    BY <1>1
  <1>4. \A v : Queued(v)' <=> Queued(v) \/ v = w
    BY <1>1, <1>2, <1>3 DEF Queued
  <1>5. Distinct /\ ~Queued(w) => Distinct'
    BY <1>1, <1>2 DEF Queued, Distinct
  <1> QED  BY <1>1, <1>4, <1>5

LEMMA QueueTail ==
    ASSUME queue \in Seq(Workflows), queue # <<>>, queue' = Tail(queue), Distinct
    PROVE  /\ queue' \in Seq(Workflows) /\ Head(queue) \in Workflows /\ Queued(Head(queue))
           /\ \A v : Queued(v)' <=> Queued(v) /\ v # Head(queue)
           /\ Distinct'
  <1>1. /\ queue' \in Seq(Workflows) /\ Len(queue) \in Nat /\ Len(queue) > 0
        /\ DOMAIN queue = 1..Len(queue) /\ DOMAIN queue' = 1..(Len(queue) - 1)
        /\ \A i \in 1..(Len(queue) - 1) : queue'[i] = queue[i + 1]
        /\ Head(queue) = queue[1] /\ Head(queue) \in Workflows
    OBVIOUS
  <1>2. /\ 1 \in DOMAIN queue
        /\ \A i \in DOMAIN queue' : i + 1 \in DOMAIN queue /\ i + 1 # 1 /\ queue'[i] = queue[i + 1]
        /\ \A i \in DOMAIN queue : i # 1 =>
              i - 1 \in DOMAIN queue' /\ queue'[i - 1] = queue[i]
    BY <1>1
  <1>3. ASSUME NEW v PROVE Queued(v)' <=> Queued(v) /\ v # Head(queue)
    <2>1. ASSUME NEW i \in DOMAIN queue', queue'[i] = v
          PROVE  Queued(v) /\ v # Head(queue)
      BY <1>1, <1>2, <2>1 DEF Queued, Distinct
    <2>2. ASSUME NEW i \in DOMAIN queue, queue[i] = v, v # Head(queue)
          PROVE  Queued(v)'
      BY <1>1, <1>2, <2>2 DEF Queued
    <2> QED  BY <2>1, <2>2 DEF Queued
  <1>4. Distinct'
    <2> SUFFICES ASSUME NEW i \in DOMAIN queue', NEW j \in DOMAIN queue', queue'[i] = queue'[j]
                 PROVE  i = j
      BY DEF Distinct
    <2>1. i + 1 = j + 1  BY <1>2 DEF Distinct
    <2> QED  BY <1>1, <2>1
  <1> QED  BY <1>1, <1>2, <1>3, <1>4 DEF Queued

\* A creation that has no future yet was one before, or has just drawn its workflow.
LEMMA PreparingMoves ==
    ASSUME TypeOK, Requests, [Next]_vars, NEW c \in Clients, Preparing(c)'
    PROVE  \/ Preparing(c) /\ target'[c] = target[c]
           \/ target'[c] \in Workflows \ born
  <1> USE RequestTypes DEF Preparing
  <1>1. CASE UNCHANGED <<request, locks, born, answered>>
    BY <1>1
  <1>2. ASSUME NEW d \in Clients, NEW w \in Workflows, MakeDirectory(d, w)
        PROVE  (Preparing(c) /\ target'[c] = target[c]) \/ target'[c] \in Workflows \ born
    BY <1>2 DEF MakeDirectory
  <1>3. ASSUME NEW d \in Clients, NEW w \in Workflows, NEW k \in Locked, Enter(d, k, w)
        PROVE  Preparing(c) /\ target'[c] = target[c]
    BY <1>3 DEF Enter, Locked
  <1>4. ASSUME NEW d \in Clients, Creates(d)
        PROVE  Preparing(c) /\ target'[c] = target[c]
    <2>1. ASSUME NEW how \in Answers, Answer(d, how) PROVE Preparing(c) /\ target'[c] = target[c]
      BY <2>1 DEF Answer, Return
    <2>2. ASSUME NEW next, Go(d, next), pc[d] # "register", pc[d] \in CreatePcs
          PROVE Preparing(c) /\ target'[c] = target[c]
      BY <2>2 DEF Go, Requests
    <2> QED  BY <1>4, <2>1, <2>2 DEF Creates
  <1>5. ASSUME NEW d \in Clients, Inside(d)
        PROVE  Preparing(c) /\ target'[c] = target[c]
    <2>1. op[d] # "create"  BY <1>5 DEF Inside, Locked
    <2>2. /\ op' = op /\ target' = target
          /\ \A e \in Clients : e # d => pc'[e] = pc[e]
      BY <1>5 DEF Inside, Go
    <2> QED  BY <2>1, <2>2
  <1>6. ASSUME NEW d \in Clients, Acquire(d) \/ Unlock(d)
        PROVE  Preparing(c) /\ target'[c] = target[c]
    BY <1>6 DEF Acquire, Unlock, Go
  <1>7. ASSUME NEW d \in Clients, Leave(d)
        PROVE  Preparing(c) /\ target'[c] = target[c]
    BY <1>7 DEF Leave, Return
  <1> QED  BY <1>1, <1>2, <1>3, <1>4, <1>5, <1>6, <1>7, RequestMoves

\* A worker goes on with its generation.
Forwards(k) ==
    /\ UNCHANGED <<request, permits, queue, work, hooked, ended>> /\ wpc[k] # "idle"
    /\ \E next \in {"run", "unmark", "free_slot", "end"} : WorkerGo(k, next)

LEMMA WorkerMoves ==
    ASSUME NEW k \in Workers, WorkerStep(k)
    PROVE  Take(k) \/ EndFuture(k) \/ Forwards(k)
  BY DEF WorkerStep, WaitForSlot, Generate, UnmarkGenerated, FreeWorkerSlot, Forwards

LEMMA TakeMoves ==
    ASSUME TypeOK, Futures, NEW k \in Workers, Take(k)
    PROVE  \E w \in Workflows :
             /\ Queued(w) /\ w \notin ended /\ \A j \in Workers : work[j] # w
             /\ wpc[k] = "idle" /\ work[k] = None
             /\ work' = [work EXCEPT ![k] = w] /\ wpc' = [wpc EXCEPT ![k] = "slot"]
             /\ queue' \in Seq(Workflows) /\ Distinct'
             /\ \A v : Queued(v)' <=> Queued(v) /\ v # w
             /\ UNCHANGED <<hooked, ended>>
  <1>1. queue \in Seq(Workflows) /\ Distinct /\ None \notin Workflows
    BY GateAssumption DEF TypeOK, Futures, Distinct
  <1>2. /\ wpc[k] = "idle" /\ queue # <<>> /\ queue' = Tail(queue)
        /\ wpc' = [wpc EXCEPT ![k] = "slot"] /\ UNCHANGED <<hooked, ended>>
    BY DEF Take, WorkerGo
  <1>3. PICK w \in Workflows : w = Head(queue) /\ Queued(w)
    BY <1>1, <1>2, QueueTail
  <1>4. work' = [work EXCEPT ![k] = w]
    BY <1>3 DEF Take
  <1>5. /\ queue' \in Seq(Workflows) /\ Distinct'
        /\ \A v : Queued(v)' <=> Queued(v) /\ v # w
    BY <1>1, <1>2, <1>3, QueueTail
  <1>6. work[k] = None /\ (\A j \in Workers : work[j] # w) /\ w \notin ended
    BY <1>1, <1>2, <1>3 DEF Futures
  <1> QED  BY <1>2, <1>3, <1>4, <1>5, <1>6

LEMMA FuturesStep ==
    ASSUME TypeOK, Requests, Futures, [Next]_vars
    PROVE  Futures' /\ PoolTypes'
  <1> DEFINE Sound(w) == ~InFlight(w) /\ w \notin ended
  <1>1. /\ PoolTypes /\ born \subseteq born' /\ None \notin Workflows
        /\ \A c \in Clients : op[c] = "create" =>
              /\ target[c] \in Workflows /\ target[c] \in born
              /\ \A d \in Clients : op[d] = "create" /\ target[d] = target[c] => d = c
        /\ \A w \in Workflows : w \notin born => Sound(w)
    <2>1. born \subseteq born'
      BY RequestMoves DEF MakeDirectory, Enter, Creates, Inside, Acquire, Unlock, Leave
    <2>2. None \notin Workflows  BY GateAssumption
    <2> QED  BY <2>1, <2>2 DEF TypeOK, PoolTypes, Requests, Futures
  <1>2. ASSUME NEW c \in Clients, Preparing(c)'
        PROVE  \E w \in Workflows : w = target'[c] /\ Sound(w)
    <2>1. CASE Preparing(c) /\ target'[c] = target[c]
      BY <1>1, <2>1 DEF Preparing, Futures
    <2>2. CASE target'[c] \in Workflows \ born
      BY <1>1, <2>2
    <2> QED  BY <1>2, <2>1, <2>2, PreparingMoves
  <1>3. /\ Distinct
        /\ \A k \in Workers :
              /\ work[k] = None <=> wpc[k] = "idle"
              /\ work[k] # None =>
                    /\ work[k] \in Workflows /\ work[k] \in born
                    /\ ~Queued(work[k]) /\ work[k] \notin ended
                    /\ \A j \in Workers : work[j] = work[k] => j = k
        /\ \A w \in ended : ~Queued(w) /\ w \notin hooked
        /\ \A w \in Workflows : InFlight(w) \/ w \in ended => w \in born
    BY <1>1 DEF Futures, Distinct, InFlight, PoolTypes
  <1>4. ASSUME Distinct', PoolTypes',
               \A c \in Clients : Preparing(c)' => Sound(target[c])',
               \A k \in Workers :
                  /\ work'[k] = None <=> wpc'[k] = "idle"
                  /\ work'[k] # None =>
                        /\ ~Queued(work[k])' /\ work'[k] \notin ended'
                        /\ \A j \in Workers : work'[j] = work'[k] => j = k,
               \A w \in ended' : ~Queued(w)' /\ w \notin hooked',
               \A w \in Workflows : InFlight(w)' \/ w \in ended' => w \in born'
        PROVE  Futures' /\ PoolTypes'
    BY <1>4 DEF Futures, Distinct
  <1> HIDE DEF Sound
  <1>5. CASE UNCHANGED pool
    <2>1. \A w : /\ Queued(w)' <=> Queued(w)
                 /\ InFlight(w)' <=> InFlight(w)
                 /\ Sound(w)' <=> Sound(w)
      BY <1>5 DEF Queued, InFlight, Sound
    <2>2. \A c \in Clients : Preparing(c)' => Sound(target[c])'
      BY <1>2, <2>1
    <2> QED  BY <1>1, <1>3, <1>4, <1>5, <2>1, <2>2 DEF PoolTypes, Distinct
  <1>6. ASSUME NEW c \in Clients, Submit(c) PROVE Futures' /\ PoolTypes'
    <2>1. CASE closed  BY <1>5, <1>6, <2>1 DEF Submit
    <2>2. CASE ~closed
      <3>1. /\ pc[c] = "submit" /\ queue' = Append(queue, target[c])
            /\ pc' = [pc EXCEPT ![c] = "register"]
            /\ UNCHANGED <<op, target, born, work, wpc, hooked, ended>>
        BY <1>6, <2>2 DEF Submit, Go
      <3>2. Preparing(c) /\ op[c] = "create"
        BY <3>1 DEF Preparing, Requests, CreatePcs
      <3> PICK w \in Workflows : w = target[c]
        BY <1>1, <3>2
      <3>3. ~InFlight(w) /\ w \notin ended /\ ~Queued(w) /\ (\A k \in Workers : work[k] # w)
        BY <3>2 DEF Futures, InFlight
      <3>4. /\ queue' \in Seq(Workflows) /\ Distinct'
            /\ \A v : Queued(v)' <=> Queued(v) \/ v = w
        BY <1>1, <1>3, <3>1, <3>3, QueueAppend DEF PoolTypes
      <3>5. \A v : InFlight(v)' <=> InFlight(v) \/ v = w
        BY <3>1, <3>4 DEF InFlight
      <3>6. ASSUME NEW d \in Clients, Preparing(d)' PROVE Sound(target[d])'
        <4>1. pc'[d] # "register" /\ op[d] = "create"  BY <3>1, <3>6 DEF Preparing
        <4>2. d # c  BY <3>1, <4>1, RequestTypes
        <4>3. target[d] # w  BY <1>1, <3>2, <4>1, <4>2
        <4> QED  BY <1>2, <3>1, <3>5, <3>6, <4>3 DEF Sound
      <3> QED  BY <1>1, <1>3, <1>4, <3>1, <3>2, <3>3, <3>4, <3>5, <3>6 DEF PoolTypes
    <2> QED  BY <2>1, <2>2
  <1>7. ASSUME NEW c \in Clients, Register(c) PROVE Futures' /\ PoolTypes'
    <2>1. /\ UNCHANGED <<queue, work, wpc>> /\ ended' \subseteq ended
          /\ hooked' = hooked \/ (target[c] \notin ended /\ hooked' = hooked \cup {target[c]})
          /\ target[c] \in Workflows
      BY <1>1, <1>7 DEF Register, Requests, CreatePcs
    <2>2. \A w : /\ Queued(w)' <=> Queued(w)
                 /\ InFlight(w)' <=> InFlight(w)
                 /\ Sound(w) => Sound(w)'
      BY <2>1 DEF Queued, InFlight, Sound
    <2>3. \A d \in Clients : Preparing(d)' => Sound(target[d])'
      BY <1>2, <2>2
    <2> QED  BY <1>1, <1>3, <1>4, <2>1, <2>2, <2>3 DEF PoolTypes, Distinct
  <1>8. ASSUME NEW k \in Workers, Take(k) PROVE Futures' /\ PoolTypes'
    <2>1. PICK w \in Workflows :
             /\ Queued(w) /\ w \notin ended /\ \A j \in Workers : work[j] # w
             /\ wpc[k] = "idle" /\ work[k] = None
             /\ work' = [work EXCEPT ![k] = w] /\ wpc' = [wpc EXCEPT ![k] = "slot"]
             /\ queue' \in Seq(Workflows) /\ Distinct'
             /\ \A v : Queued(v)' <=> Queued(v) /\ v # w
             /\ UNCHANGED <<hooked, ended>>
      BY <1>8, TakeMoves
    <2>2. \A j \in Workers : work'[j] = IF j = k THEN w ELSE work[j]
      BY <1>1, <2>1 DEF PoolTypes
    <2>3. \A v \in Workflows : InFlight(v)' <=> InFlight(v)
      BY <1>1, <2>1, <2>2 DEF InFlight
    <2>4. \A d \in Clients : Preparing(d)' => Sound(target[d])'
      BY <1>2, <2>1, <2>3 DEF Sound
    <2> QED  BY <1>1, <1>3, <1>4, <2>1, <2>2, <2>3, <2>4 DEF PoolTypes, Distinct
  <1>9. ASSUME NEW k \in Workers, EndFuture(k) PROVE Futures' /\ PoolTypes'
    <2>1. /\ wpc[k] = "end" /\ UNCHANGED queue /\ hooked' = hooked \ {work[k]}
          /\ ended' = IF work[k] \in hooked THEN ended ELSE ended \cup {work[k]}
          /\ work' = [work EXCEPT ![k] = None] /\ wpc' = [wpc EXCEPT ![k] = "idle"]
      BY <1>9 DEF EndFuture, WorkerGo
    <2>2. PICK w \in Workflows : w = work[k] /\ w \in born /\ ~Queued(w) /\ InFlight(w)
      BY <1>3, <2>1 DEF InFlight
    <2>3. \A j \in Workers : work'[j] = IF j = k THEN None ELSE work[j]
      BY <1>1, <2>1 DEF PoolTypes
    <2>4. \A v : Queued(v)' <=> Queued(v)
      BY <2>1 DEF Queued
    <2>5. \A v \in Workflows : InFlight(v)' => InFlight(v)
      BY <1>1, <2>3, <2>4 DEF InFlight
    <2>6. \A d \in Clients : Preparing(d)' => Sound(target[d])'
      BY <1>2, <2>1, <2>2, <2>5 DEF Sound
    <2> QED  BY <1>1, <1>3, <1>4, <2>1, <2>2, <2>3, <2>4, <2>5, <2>6 DEF PoolTypes, Distinct
  <1>10. ASSUME NEW k \in Workers, Forwards(k) PROVE Futures' /\ PoolTypes'
    <2>1. UNCHANGED <<queue, work, hooked, ended>> /\ wpc[k] # "idle"
      BY <1>10 DEF Forwards
    <2>2. PICK next \in {"run", "unmark", "free_slot", "end"} : wpc' = [wpc EXCEPT ![k] = next]
      BY <1>10 DEF Forwards, WorkerGo
    <2>3. \A w : /\ Queued(w)' <=> Queued(w)
                 /\ InFlight(w)' <=> InFlight(w)
                 /\ Sound(w)' <=> Sound(w)
      BY <2>1 DEF Queued, InFlight, Sound
    <2>4. \A c \in Clients : Preparing(c)' => Sound(target[c])'
      BY <1>2, <2>3
    <2>5. \A j \in Workers : wpc'[j] = "idle" <=> wpc[j] = "idle"
      BY <1>1, <2>1, <2>2 DEF PoolTypes
    <2> QED  BY <1>1, <1>3, <1>4, <2>1, <2>2, <2>3, <2>4, <2>5 DEF PoolTypes, Distinct
  <1> QED  BY <1>5, <1>6, <1>7, <1>8, <1>9, <1>10, PoolMoves, WorkerMoves

-----------------------------------------------------------------------------
(* The two semaphores.                                                     *)

SlotPcs  == EditPcs \ {"slot"}
SlotWpcs == {"run", "unmark", "free_slot"}

\* A step that neither takes nor gives back a permit; one that does not touch the slots.
PermitsLeft ==
    /\ UNCHANGED <<permits, pool>>
    /\ \A c \in Clients : /\ pc'[c] = "submit" <=> pc[c] = "submit"
                          /\ pc[c] = "submit" => target'[c] = target[c]

SlotsLeft ==
    /\ UNCHANGED slots
    /\ \A c \in Clients : pc'[c] \in SlotPcs <=> pc[c] \in SlotPcs
    /\ \A k \in Workers : wpc'[k] \in SlotWpcs <=> wpc[k] \in SlotWpcs

LEMMA PermitMoves ==
    ASSUME TypeOK, Requests, [Next]_vars
    PROVE  \/ \E c \in Clients : Admit(c) \/ Submit(c) \/ Register(c)
           \/ \E k \in Workers : WorkerStep(k)
           \/ PermitsLeft
  <1> USE RequestTypes DEF PermitsLeft
  <1>1. ASSUME NEW c \in Clients, NEW w \in Workflows, NEW k \in Locked,
               MakeDirectory(c, w) \/ Enter(c, k, w)
        PROVE  PermitsLeft
    BY <1>1 DEF MakeDirectory, Enter
  <1>2. ASSUME NEW c \in Clients, CreateStep(c), ~(Admit(c) \/ Submit(c) \/ Register(c))
        PROVE  PermitsLeft
    BY <1>2 DEF CreateStep, WritePending, MarkActive, EmitDesignCreated, UnmarkRefused, Discard,
       Go, Answer, Return
  <1>3. ASSUME NEW c \in Clients, SlotStep(c) PROVE PermitsLeft
    BY <1>3 DEF SlotStep, BeginActiveOperation, MarkEditActive, Edit, UnmarkEdit, FreeSlot,
       FailedBegin, Go
  <1>4. ASSUME NEW c \in Clients,
               Acquire(c) \/ CheckActive(c) \/ TakeSlot(c) \/ FindVersion(c) \/ CommitVersion(c)
        PROVE  PermitsLeft
    BY <1>4 DEF Acquire, CheckActive, TakeSlot, FindVersion, CommitVersion, Go, Requests, Locked,
       Holding, LockedPcs
  <1>5. ASSUME NEW c \in Clients, PurgeMemory(c) \/ RemoveFiles(c) \/ Unlock(c) \/ Leave(c)
        PROVE  PermitsLeft
    BY <1>5 DEF PurgeMemory, RemoveFiles, Unlock, Leave, Go, Return
  <1>6. CASE Shutdown \/ UNCHANGED vars
    BY <1>6 DEF Shutdown, vars
  <1>7. Locked # {}  BY DEF Locked
  <1> QED  BY <1>1, <1>2, <1>3, <1>4, <1>5, <1>6, <1>7 DEF Next, LockedStep

LEMMA SlotMoves ==
    ASSUME TypeOK, Requests, [Next]_vars
    PROVE  \/ \E c \in Clients : TakeSlot(c) \/ FreeSlot(c)
           \/ \E k \in Workers : WaitForSlot(k) \/ FreeWorkerSlot(k)
           \/ SlotsLeft
  <1>0. DOMAIN wpc = Workers  BY DEF TypeOK
  <1> USE RequestTypes, <1>0 DEF SlotsLeft, SlotPcs, SlotWpcs, EditPcs
  <1>1. ASSUME NEW c \in Clients, NEW w \in Workflows, NEW k \in Locked,
               MakeDirectory(c, w) \/ Enter(c, k, w)
        PROVE  SlotsLeft
    BY <1>1 DEF MakeDirectory, Enter
  <1>2. ASSUME NEW c \in Clients, CreateStep(c) PROVE  SlotsLeft
    BY <1>2 DEF CreateStep, WritePending, MarkActive, EmitDesignCreated, Admit, Submit, Register,
       UnmarkRefused, Discard, Go, Answer, Return
  <1>3. ASSUME NEW c \in Clients, SlotStep(c), ~FreeSlot(c) PROVE SlotsLeft
    BY <1>3 DEF SlotStep, BeginActiveOperation, MarkEditActive, Edit, UnmarkEdit, FailedBegin, Go
  <1>4. ASSUME NEW c \in Clients,
               Acquire(c) \/ CheckActive(c) \/ FindVersion(c) \/ CommitVersion(c)
        PROVE  SlotsLeft
    BY <1>4 DEF Acquire, CheckActive, FindVersion, CommitVersion, Go, Requests, Locked,
       Holding, LockedPcs
  <1>5. ASSUME NEW c \in Clients, PurgeMemory(c) \/ RemoveFiles(c) \/ Unlock(c) \/ Leave(c)
        PROVE  SlotsLeft
    BY <1>5 DEF PurgeMemory, RemoveFiles, Unlock, Leave, Go, Return
  <1>6. ASSUME NEW k \in Workers, WorkerStep(k), ~(WaitForSlot(k) \/ FreeWorkerSlot(k))
        PROVE  SlotsLeft
    BY <1>6 DEF WorkerStep, Take, Generate, UnmarkGenerated, EndFuture, WorkerGo
  <1>7. CASE Shutdown \/ UNCHANGED vars
    BY <1>7 DEF Shutdown, vars
  <1>8. Locked # {}  BY DEF Locked
  <1> QED  BY <1>1, <1>2, <1>3, <1>4, <1>5, <1>6, <1>7, <1>8 DEF Next, LockedStep

\* One taken, one given back, or none: m are free once S has become T.
Balance(n, S, m, T) ==
    \/ m = n /\ T = S
    \/ n > 0 /\ m = n - 1 /\ \E x : x \notin S /\ T = S \cup {x}
    \/ m = n + 1 /\ \E x \in S : T = S \ {x}

LEMMA Balanced ==
    ASSUME NEW S, NEW T, NEW n \in Nat, NEW m, NEW total \in Nat,
           IsFiniteSet(S), n + Cardinality(S) = total, Balance(n, S, m, T)
    PROVE  IsFiniteSet(T) /\ m \in 0..total /\ m + Cardinality(T) = total
  <1>1. Cardinality(S) \in Nat  BY FS_CardinalityType
  <1>2. CASE m = n /\ T = S
    BY <1>1, <1>2
  <1>3. ASSUME n > 0, m = n - 1, NEW x, x \notin S, T = S \cup {x}
        PROVE  IsFiniteSet(T) /\ m \in 0..total /\ m + Cardinality(T) = total
    <2>1. IsFiniteSet(T) /\ Cardinality(T) = Cardinality(S) + 1
      BY <1>3, Adds
    <2> QED  BY <1>1, <1>3, <2>1
  <1>4. ASSUME m = n + 1, NEW x \in S, T = S \ {x}
        PROVE  IsFiniteSet(T) /\ m \in 0..total /\ m + Cardinality(T) = total
    <2>1. IsFiniteSet(T) /\ Cardinality(T) = Cardinality(S) - 1 /\ Cardinality(S) \in Nat \ {0}
      BY <1>4, Removes
    <2> QED  BY <1>1, <1>4, <2>1
  <1> QED  BY <1>2, <1>3, <1>4 DEF Balance

LEMMA SlotsBalance ==
    ASSUME TypeOK, Requests, [Next]_vars
    PROVE  Balance(slots, HoldsSlot, slots', HoldsSlot')
  <1>0. /\ DOMAIN wpc = Workers /\ DOMAIN pc = Clients /\ Clients \cap Workers = {}
        /\ HoldsSlot = {c \in Clients : pc[c] \in SlotPcs} \cup {k \in Workers : wpc[k] \in SlotWpcs}
    BY GateAssumption DEF TypeOK, HoldsSlot, SlotPcs, SlotWpcs
  <1>1. CASE SlotsLeft
    BY <1>0, <1>1 DEF SlotsLeft, Balance, HoldsSlot, SlotPcs, SlotWpcs
  <1>2. ASSUME NEW c \in Clients, TakeSlot(c)
        PROVE  Balance(slots, HoldsSlot, slots', HoldsSlot')
    <2>1. pc[c] = "slot" /\ UNCHANGED wpc  BY <1>2 DEF TakeSlot
    <2>2. CASE slots > 0 /\ slots' = slots - 1 /\ pc' = [pc EXCEPT ![c] = "begin"]
      <3>1. c \notin HoldsSlot /\ HoldsSlot' = HoldsSlot \cup {c}
        BY <1>0, <2>1, <2>2 DEF HoldsSlot, EditPcs
      <3> QED  BY <2>2, <3>1 DEF Balance
    <2>3. CASE slots' = slots /\ pc' = [pc EXCEPT ![c] = "unlock"]
      <3>1. HoldsSlot' = HoldsSlot
        BY <1>0, <2>1, <2>3 DEF HoldsSlot, EditPcs
      <3> QED  BY <2>3, <3>1 DEF Balance
    <2> QED  BY <1>2, <2>2, <2>3 DEF TakeSlot, Go
  <1>3. ASSUME NEW c \in Clients, FreeSlot(c)
        PROVE  Balance(slots, HoldsSlot, slots', HoldsSlot')
    <2>1. /\ pc[c] = "free_slot" /\ UNCHANGED wpc /\ slots' = slots + 1
          /\ pc' = [pc EXCEPT ![c] = "unlock"]
      BY <1>3 DEF FreeSlot, Go
    <2>2. c \in HoldsSlot /\ HoldsSlot' = HoldsSlot \ {c}
      BY <1>0, <2>1 DEF HoldsSlot, EditPcs
    <2> QED  BY <2>1, <2>2 DEF Balance
  <1>4. ASSUME NEW k \in Workers, WaitForSlot(k)
        PROVE  Balance(slots, HoldsSlot, slots', HoldsSlot')
    <2>1. /\ wpc[k] = "slot" /\ UNCHANGED pc /\ slots > 0 /\ slots' = slots - 1
          /\ wpc' = [wpc EXCEPT ![k] = "run"]
      BY <1>4 DEF WaitForSlot, WorkerGo
    <2>2. k \notin HoldsSlot /\ HoldsSlot' = HoldsSlot \cup {k}
      BY <1>0, <2>1 DEF HoldsSlot
    <2> QED  BY <2>1, <2>2 DEF Balance
  <1>5. ASSUME NEW k \in Workers, FreeWorkerSlot(k)
        PROVE  Balance(slots, HoldsSlot, slots', HoldsSlot')
    <2>1. /\ wpc[k] = "free_slot" /\ UNCHANGED pc /\ slots' = slots + 1
          /\ wpc' = [wpc EXCEPT ![k] = "end"]
      BY <1>5 DEF FreeWorkerSlot, WorkerGo
    <2>2. k \in HoldsSlot /\ HoldsSlot' = HoldsSlot \ {k}
      BY <1>0, <2>1 DEF HoldsSlot
    <2> QED  BY <2>1, <2>2 DEF Balance
  <1> QED  BY <1>1, <1>2, <1>3, <1>4, <1>5, SlotMoves

AtSubmit(w) == \E c \in Clients : target[c] = w /\ pc[c] = "submit"

LEMMA PermitsBalance ==
    ASSUME TypeOK, Requests, Futures, [Next]_vars
    PROVE  Balance(permits, HoldsPermit, permits', HoldsPermit')
  <1>0. /\ DOMAIN pc = Clients /\ DOMAIN work = Workers /\ None \notin Workflows
        /\ queue \in Seq(Workflows)
        /\ HoldsPermit = {w \in Workflows : InFlight(w) \/ w \in ended \/ AtSubmit(w)}
        /\ \A c \in Clients : op[c] = "create" =>
              /\ target[c] \in Workflows
              /\ \A d \in Clients : op[d] = "create" /\ target[d] = target[c] => d = c
        /\ \A c \in Clients : pc[c] \in CreatePcs => op[c] = "create"
        /\ \A c \in Clients : Preparing(c) => ~InFlight(target[c]) /\ target[c] \notin ended
    BY GateAssumption DEF TypeOK, HoldsPermit, Requests, AtSubmit, Futures
  <1>1. ASSUME UNCHANGED permits,
               \A w \in Workflows : (InFlight(w)' \/ w \in ended' \/ AtSubmit(w)')
                                       <=> (InFlight(w) \/ w \in ended \/ AtSubmit(w))
        PROVE  Balance(permits, HoldsPermit, permits', HoldsPermit')
    BY <1>0, <1>1 DEF Balance, HoldsPermit, AtSubmit
  <1>2. ASSUME NEW x \in Workflows, permits > 0, permits' = permits - 1,
               ~InFlight(x), x \notin ended, ~AtSubmit(x),
               \A w \in Workflows : (InFlight(w)' \/ w \in ended' \/ AtSubmit(w)')
                                       <=> (InFlight(w) \/ w \in ended \/ AtSubmit(w) \/ w = x)
        PROVE  Balance(permits, HoldsPermit, permits', HoldsPermit')
    <2>1. x \notin HoldsPermit /\ HoldsPermit' = HoldsPermit \cup {x}
      BY <1>0, <1>2 DEF HoldsPermit, AtSubmit
    <2> QED  BY <1>2, <2>1 DEF Balance
  <1>3. ASSUME NEW x \in Workflows, permits' = permits + 1,
               InFlight(x) \/ x \in ended \/ AtSubmit(x),
               \A w \in Workflows : (InFlight(w)' \/ w \in ended' \/ AtSubmit(w)')
                                       <=> (InFlight(w) \/ w \in ended \/ AtSubmit(w)) /\ w # x
        PROVE  Balance(permits, HoldsPermit, permits', HoldsPermit')
    <2>1. x \in HoldsPermit /\ HoldsPermit' = HoldsPermit \ {x}
      BY <1>0, <1>3 DEF HoldsPermit, AtSubmit
    <2> QED  BY <1>3, <2>1 DEF Balance
  <1>4. CASE PermitsLeft
    <2>1. \A w \in Workflows : InFlight(w)' <=> InFlight(w)
      BY <1>4 DEF PermitsLeft, InFlight, Queued
    <2>2. \A w \in Workflows : AtSubmit(w)' <=> AtSubmit(w)
      BY <1>4 DEF PermitsLeft, AtSubmit
    <2> QED  BY <1>1, <1>4, <2>1, <2>2 DEF PermitsLeft
  <1>5. ASSUME NEW c \in Clients, Admit(c)
        PROVE  Balance(permits, HoldsPermit, permits', HoldsPermit')
    <2>1. pc[c] = "admit" /\ UNCHANGED <<target, pool>>  BY <1>5 DEF Admit, Go
    <2>2. Preparing(c) /\ op[c] = "create"  BY <1>0, <2>1 DEF Preparing, CreatePcs
    <2> PICK x \in Workflows : x = target[c]  BY <1>0, <2>2
    <2>3. ~InFlight(x) /\ x \notin ended /\ ~AtSubmit(x)
      BY <1>0, <2>1, <2>2 DEF AtSubmit, CreatePcs
    <2>4. \A w \in Workflows : InFlight(w)' <=> InFlight(w)
      BY <2>1 DEF InFlight, Queued
    <2>5. CASE permits > 0 /\ permits' = permits - 1 /\ pc' = [pc EXCEPT ![c] = "submit"]
      <3>1. \A w \in Workflows : AtSubmit(w)' <=> AtSubmit(w) \/ w = x
        BY <1>0, <2>1, <2>5 DEF AtSubmit
      <3> QED  BY <1>2, <2>1, <2>3, <2>4, <2>5, <3>1
    <2>6. CASE permits' = permits /\ pc' = [pc EXCEPT ![c] = "unmark"]
      <3>1. \A w \in Workflows : AtSubmit(w)' <=> AtSubmit(w)
        BY <1>0, <2>1, <2>6 DEF AtSubmit
      <3> QED  BY <1>1, <2>1, <2>4, <2>6, <3>1
    <2> QED  BY <1>5, <2>5, <2>6 DEF Admit, Go
  <1>6. ASSUME NEW c \in Clients, Submit(c)
        PROVE  Balance(permits, HoldsPermit, permits', HoldsPermit')
    <2>1. pc[c] = "submit" /\ UNCHANGED <<target, work, ended>>  BY <1>6 DEF Submit, Go
    <2>2. Preparing(c) /\ op[c] = "create"  BY <1>0, <2>1 DEF Preparing, CreatePcs
    <2> PICK x \in Workflows : x = target[c]  BY <1>0, <2>2
    <2>3. ~InFlight(x) /\ x \notin ended /\ AtSubmit(x)
      BY <1>0, <2>1, <2>2 DEF AtSubmit
    <2>4. \A d \in Clients : pc[d] = "submit" /\ target[d] = x => d = c
      BY <1>0, <2>2 DEF CreatePcs
    <2>5. ASSUME NEW next \in {"register", "unmark"}, pc' = [pc EXCEPT ![c] = next]
          PROVE  \A w \in Workflows : AtSubmit(w)' <=> AtSubmit(w) /\ w # x
      BY <1>0, <2>1, <2>4, <2>5 DEF AtSubmit
    <2>6. CASE ~closed
      <3>1. queue' = Append(queue, x) /\ pc' = [pc EXCEPT ![c] = "register"] /\ permits' = permits
        BY <1>6, <2>6 DEF Submit, Go
      <3>2. \A w : Queued(w)' <=> Queued(w) \/ w = x
        BY <1>0, <3>1, QueueAppend
      <3>3. \A w \in Workflows : InFlight(w)' <=> InFlight(w) \/ w = x
        BY <2>1, <3>2 DEF InFlight
      <3> QED  BY <1>1, <2>1, <2>3, <2>5, <3>1, <3>3
    <2>7. CASE closed
      <3>1. queue' = queue /\ pc' = [pc EXCEPT ![c] = "unmark"] /\ permits' = permits + 1
        BY <1>6, <2>7 DEF Submit, Go
      <3>2. \A w \in Workflows : InFlight(w)' <=> InFlight(w)
        BY <2>1, <3>1 DEF InFlight, Queued
      <3> QED  BY <1>3, <2>1, <2>3, <2>5, <3>1, <3>2
    <2> QED  BY <2>6, <2>7
  <1>7. ASSUME NEW c \in Clients, Register(c)
        PROVE  Balance(permits, HoldsPermit, permits', HoldsPermit')
    <2>1. /\ pc[c] = "register" /\ UNCHANGED <<queue, work>>
          /\ pc' = [pc EXCEPT ![c] = "idle"] /\ target' = [target EXCEPT ![c] = None]
      BY <1>7 DEF Register, Answer, Return
    <2>2. op[c] = "create"  BY <1>0, <2>1 DEF CreatePcs
    <2> PICK x \in Workflows : x = target[c]  BY <1>0, <2>2
    <2>3. \A d \in Clients : d # c => target'[d] = target[d] /\ pc'[d] = pc[d]
      BY <2>1, RequestTypes
    <2>4. \A w \in Workflows : AtSubmit(w)' <=> AtSubmit(w)
      BY <1>0, <2>1, <2>3 DEF AtSubmit
    <2>5. \A w \in Workflows : InFlight(w)' <=> InFlight(w)
      BY <2>1 DEF InFlight, Queued
    <2>6. CASE x \in ended
      <3>1. permits' = permits + 1 /\ ended' = ended \ {x}
        BY <1>7, <2>6 DEF Register
      <3>2. ~InFlight(x)
        BY <1>0, <2>6 DEF Futures, InFlight
      <3>3. ~AtSubmit(x)
        BY <1>0, <2>1, <2>2 DEF AtSubmit, CreatePcs
      <3> QED  BY <1>3, <2>4, <2>5, <2>6, <3>1, <3>2, <3>3
    <2>7. CASE x \notin ended
      BY <1>1, <1>7, <2>4, <2>5, <2>7 DEF Register
    <2> QED  BY <2>6, <2>7
  <1>8. ASSUME NEW k \in Workers, WorkerStep(k)
        PROVE  Balance(permits, HoldsPermit, permits', HoldsPermit')
    <2>1. UNCHANGED request
      BY <1>8 DEF WorkerStep, Take, WaitForSlot, Generate, UnmarkGenerated, FreeWorkerSlot,
         EndFuture
    <2>2. \A w \in Workflows : AtSubmit(w)' <=> AtSubmit(w)
      BY <2>1 DEF AtSubmit
    <2>3. CASE Take(k)
      <3>1. permits' = permits /\ ended' = ended
        BY <2>3 DEF Take
      <3>2. PICK x \in Workflows :
               /\ Queued(x) /\ work[k] = None /\ work' = [work EXCEPT ![k] = x]
               /\ \A v : Queued(v)' <=> Queued(v) /\ v # x
        BY <2>3, TakeMoves
      <3>3. \A w \in Workflows : InFlight(w)' <=> InFlight(w)
        BY <1>0, <3>2 DEF InFlight
      <3> QED  BY <1>1, <2>2, <3>1, <3>3
    <2>4. CASE EndFuture(k)
      <3>1. /\ UNCHANGED queue /\ work' = [work EXCEPT ![k] = None]
            /\ ended' = IF work[k] \in hooked THEN ended ELSE ended \cup {work[k]}
            /\ permits' = IF work[k] \in hooked THEN permits + 1 ELSE permits
            /\ wpc[k] = "end"
        BY <2>4 DEF EndFuture, Readmitted
      <3> PICK x \in Workflows : x = work[k] /\ InFlight(x)
        BY <3>1 DEF TypeOK, Futures, InFlight
      <3>2. ~Queued(x) /\ x \notin ended /\ \A j \in Workers : work[j] = x => j = k
        BY <1>0 DEF Futures
      <3>3. \A w \in Workflows : InFlight(w)' <=> InFlight(w) /\ w # x
        BY <1>0, <3>1, <3>2 DEF InFlight, Queued
      <3>4. ~AtSubmit(x)
        BY <1>0 DEF AtSubmit, Preparing, CreatePcs
      <3>5. CASE x \in hooked  BY <1>3, <2>2, <3>1, <3>2, <3>3, <3>4, <3>5
      <3>6. CASE x \notin hooked  BY <1>1, <2>2, <3>1, <3>2, <3>3, <3>4, <3>6
      <3> QED  BY <3>5, <3>6
    <2>5. CASE Forwards(k)
      BY <1>1, <2>2, <2>5 DEF Forwards, InFlight, Queued
    <2> QED  BY <1>8, <2>3, <2>4, <2>5, WorkerMoves
  <1> QED  BY <1>4, <1>5, <1>6, <1>7, <1>8, PermitMoves

LEMMA CountsStep ==
    ASSUME TypeOK, Requests, Futures, Counts, [Next]_vars
    PROVE  Counts' /\ permits' \in 0..(MaxConcurrent + MaxPending) /\ slots' \in 0..MaxConcurrent
  <1>1. /\ permits \in Nat /\ slots \in Nat
        /\ MaxConcurrent \in Nat /\ MaxConcurrent + MaxPending \in Nat
    BY GateAssumption DEF TypeOK
  <1>2. IsFiniteSet(HoldsSlot)
    <2>1. HoldsSlot \in SUBSET (Clients \cup Workers)  BY DEF HoldsSlot
    <2>2. IsFiniteSet(Clients \cup Workers)  BY GateAssumption, FS_Union
    <2> QED  BY <2>1, <2>2, FS_Subset
  <1>3. /\ IsFiniteSet(HoldsPermit') /\ permits' \in 0..(MaxConcurrent + MaxPending)
        /\ permits' + Cardinality(HoldsPermit') = MaxConcurrent + MaxPending
    BY <1>1, PermitsBalance, Balanced, Zenon DEF Counts, PermitsAccounted
  <1>4. slots' \in 0..MaxConcurrent /\ slots' + Cardinality(HoldsSlot') = MaxConcurrent
    BY <1>1, <1>2, SlotsBalance, Balanced, Zenon DEF Counts, PermitsAccounted
  <1> QED  BY <1>3, <1>4, Zenon DEF Counts, PermitsAccounted

-----------------------------------------------------------------------------
(* Types, and what holds whoever asks for a design when.                   *)

\* Which steps change a count, and which delete.
LEMMA ActiveMoves ==
    ASSUME [Next]_vars
    PROVE  \/ UNCHANGED active
           \/ \E c \in Clients : MarkActive(c) \/ UnmarkRefused(c) \/ MarkEditActive(c) \/ UnmarkEdit(c)
           \/ \E k \in Workers : UnmarkGenerated(k)
  BY DEF Next, CreateStep, LockedStep, SlotStep, vars, MakeDirectory, Enter, WritePending,
     EmitDesignCreated, Admit, Submit, Register, Discard, Acquire, CheckActive,
     TakeSlot, BeginActiveOperation, Edit, FreeSlot, FindVersion, CommitVersion, PurgeMemory,
     RemoveFiles, Unlock, Leave, Shutdown, WorkerStep, Take, WaitForSlot, Generate,
     FreeWorkerSlot, EndFuture

LEMMA DeleteMoves ==
    ASSUME [Next]_vars
    PROVE  UNCHANGED deleted \/ \E c \in Clients : RemoveFiles(c)
  BY DEF Next, CreateStep, LockedStep, SlotStep, vars, MakeDirectory, Enter, WritePending,
     MarkActive, EmitDesignCreated, Admit, Submit, Register, UnmarkRefused, Discard, Acquire,
     CheckActive, TakeSlot, BeginActiveOperation, MarkEditActive, Edit, UnmarkEdit, FreeSlot,
     FindVersion, CommitVersion, PurgeMemory, Unlock, Leave, Shutdown, WorkerStep, Take,
     WaitForSlot, Generate, UnmarkGenerated, FreeWorkerSlot, EndFuture

LEMMA EarlyMoves ==
    ASSUME [Next]_vars
    PROVE  UNCHANGED early \/ \E c \in Clients : CheckActive(c) \/ Unlock(c)
  BY DEF Next, CreateStep, LockedStep, SlotStep, vars, MakeDirectory, Enter, WritePending,
     MarkActive, EmitDesignCreated, Admit, Submit, Register, UnmarkRefused, Discard, Acquire,
     TakeSlot, BeginActiveOperation, MarkEditActive, Edit, UnmarkEdit, FreeSlot,
     FindVersion, CommitVersion, PurgeMemory, RemoveFiles, Leave, Shutdown, WorkerStep, Take,
     WaitForSlot, Generate, UnmarkGenerated, FreeWorkerSlot, EndFuture

Pcs == {"idle", "lock", "check", "find", "commit", "purge", "remove", "unlock", "leave"}
          \cup CreatePcs \cup EditPcs

LEMMA TypesStep ==
    ASSUME Base, [Next]_vars
    PROVE  TypeOK'
  <1> USE DEF Base
  <1>1. /\ born' \subseteq Workflows
        /\ op' \in [Clients -> {"none", "create"} \cup Locked]
        /\ target' \in [Clients -> Workflows \cup {None}]
        /\ pc' \in [Clients -> Pcs] /\ holder' \in [Locks -> Clients \cup {None}]
        /\ answered' \in [Workflows -> Answers \cup {"none"}]
    <2> DEFINE Goal == /\ born' \subseteq Workflows
                       /\ op' \in [Clients -> {"none", "create"} \cup Locked]
                       /\ target' \in [Clients -> Workflows \cup {None}]
                       /\ pc' \in [Clients -> Pcs] /\ holder' \in [Locks -> Clients \cup {None}]
                       /\ answered' \in [Workflows -> Answers \cup {"none"}]
    <2>0. /\ born \subseteq Workflows
          /\ op \in [Clients -> {"none", "create"} \cup Locked]
          /\ target \in [Clients -> Workflows \cup {None}]
          /\ pc \in [Clients -> Pcs] /\ holder \in [Locks -> Clients \cup {None}]
          /\ answered \in [Workflows -> Answers \cup {"none"}]
          /\ {"idle", "lock", "check", "leave", "pending"} \subseteq Pcs
          /\ CreatePcs \subseteq Pcs /\ Holding \subseteq Pcs
      BY DEF TypeOK, Pcs, Answers, CreatePcs, Holding, LockedPcs
    <2>1. CASE UNCHANGED <<request, locks, born, answered>>
      BY <2>0, <2>1
    <2>2. ASSUME NEW c \in Clients, NEW w \in Workflows, MakeDirectory(c, w) PROVE Goal
      BY <2>0, <2>2 DEF MakeDirectory
    <2>3. ASSUME NEW c \in Clients, NEW w \in Workflows, NEW k \in Locked, Enter(c, k, w)
          PROVE  Goal
      BY <2>0, <2>3 DEF Enter
    <2>4. ASSUME NEW c \in Clients, Creates(c) PROVE Goal
      <3>1. ASSUME NEW next \in CreatePcs, Go(c, next), UNCHANGED <<born, answered, holder>>
            PROVE  Goal
        BY <2>0, <3>1 DEF Go
      <3>2. ASSUME NEW how \in Answers, Answer(c, how), UNCHANGED <<born, holder>> PROVE Goal
        BY <2>0, <3>2 DEF Answer, Return
      <3> QED  BY <2>4, <3>1, <3>2 DEF Creates
    <2>5. ASSUME NEW c \in Clients, Inside(c) PROVE Goal
      BY <2>0, <2>5 DEF Inside, Go
    <2>6. ASSUME NEW c \in Clients, Acquire(c) \/ Unlock(c) PROVE Goal
      BY <2>0, <2>6 DEF Acquire, Unlock, Go
    <2>7. ASSUME NEW c \in Clients, Leave(c) PROVE Goal
      BY <2>0, <2>7 DEF Leave, Return
    <2> QED  BY <2>1, <2>2, <2>3, <2>4, <2>5, <2>6, <2>7, RequestMoves
  <1>2. dirs' \subseteq Workflows
    BY <1>1, RequestsStep DEF Requests
  <1>3. active' \in [Workflows -> Nat]
    <2>0. active \in [Workflows -> Nat]  BY DEF TypeOK
    <2>1. ASSUME NEW w, active' = Counted(w) \/ active' = Uncounted(w)
          PROVE  active' \in [Workflows -> Nat]
      BY <2>0, <2>1 DEF Counted, Uncounted
    <2> QED
      BY <2>0, <2>1, ActiveMoves
      DEF MarkActive, UnmarkRefused, MarkEditActive, UnmarkEdit, UnmarkGenerated
  <1>4. deleted' \subseteq Workflows
    BY DeleteMoves DEF RemoveFiles, TypeOK
  <1>5. closed' \in BOOLEAN
    <2>1. UNCHANGED closed \/ closed' = TRUE
      BY DEF Next, CreateStep, LockedStep, SlotStep, vars, MakeDirectory, Enter, WritePending,
         MarkActive, EmitDesignCreated, Admit, Submit, Register, UnmarkRefused, Discard, Acquire,
         CheckActive, TakeSlot, BeginActiveOperation, MarkEditActive, Edit, UnmarkEdit, FreeSlot,
         FindVersion, CommitVersion, PurgeMemory, RemoveFiles, Unlock, Leave, Shutdown, WorkerStep,
         Take, WaitForSlot, Generate, UnmarkGenerated, FreeWorkerSlot, EndFuture
    <2> QED  BY <2>1 DEF TypeOK
  <1>6. LockTypes' /\ PoolTypes'
    BY LockMapStep, FuturesStep
  <1>7. permits' \in 0..(MaxConcurrent + MaxPending) /\ slots' \in 0..MaxConcurrent
    BY CountsStep
  <1>8. early' \in [Workflows -> {"no", "inside", "was"}]
    <2>0. early \in [Workflows -> {"no", "inside", "was"}]  BY DEF TypeOK
    <2>1. ASSUME NEW c \in Clients, CheckActive(c) \/ Unlock(c)
          PROVE  early' \in [Workflows -> {"no", "inside", "was"}]
      BY <2>0, <2>1 DEF CheckActive, Unlock
    <2> QED  BY <2>0, <2>1, EarlyMoves
  <1> QED
    BY <1>1, <1>2, <1>3, <1>4, <1>5, <1>6, <1>7, <1>8
    DEF TypeOK, LockTypes, PoolTypes, Pcs, Answers

LEMMA BaseInvariance == Spec => []Base
  <1>1. Init => Base
    <2> SUFFICES ASSUME Init PROVE Base  OBVIOUS
    <2> USE GateAssumption DEF Init
    <2>1. TypeOK
      <3>1. permits \in 0..(MaxConcurrent + MaxPending) /\ slots \in 0..MaxConcurrent
        OBVIOUS
      <3>2. queue \in Seq(Workflows)  OBVIOUS
      <3>3. LockTypes /\ active \in [Workflows -> Nat] /\ holder \in [Locks -> Clients \cup {None}]
        BY DEF LockTypes
      <3> QED  BY <3>1, <3>2, <3>3 DEF TypeOK, LockTypes
    <2>2. Requests  BY DEF Requests, CreatePcs, Locked, LockedPcs, EditPcs
    <2>3. LockMap
      <3>1. Owners  BY DEF Owners, Locked, Holding, LockedPcs, EditPcs
      <3>2. \A w : Users(w) = {}  BY DEF Users, Locked
      <3>3. Entries  BY <3>2, FS_EmptySet DEF Entries
      <3>4. Unshared  BY DEF Unshared
      <3> QED  BY <3>1, <3>3, <3>4 DEF LockMap
    <2>4. \A w \in Workflows : ~Queued(w) /\ ~InFlight(w)
      BY DEF InFlight, Queued
    <2>5. Futures  BY <2>4 DEF Futures, Preparing
    <2>6. HoldsPermit = {}  BY <2>4 DEF HoldsPermit
    <2>7. HoldsSlot = {}  BY DEF HoldsSlot, EditPcs
    <2>8. Counts  BY <2>6, <2>7, FS_EmptySet DEF Counts, PermitsAccounted
    <2> QED  BY <2>1, <2>2, <2>3, <2>5, <2>8 DEF Base
  <1>2. Base /\ [Next]_vars => Base'
    BY TypesStep, RequestsStep, LockMapStep, FuturesStep, CountsStep DEF Base
  <1> QED  BY <1>1, <1>2, PTL DEF Spec

\* The lock that serializes the operations of a workflow is one lock: two requests past
\* their acquire are never on the same workflow (_workflow_operation), also
\* when clients act on designs whose creation is still running.
THEOREM OneRequestInside ==
    Spec => [](\A c, d \in Clients : pc[c] \in Holding /\ pc[d] \in Holding
                                        /\ target[c] = target[d] => c = d)
  <1>1. Base => \A c, d \in Clients : pc[c] \in Holding /\ pc[d] \in Holding
                                         /\ target[c] = target[d] => c = d
    BY DEF Base, Requests, Holding, LockMap, Owners
  <1> QED  BY <1>1, BaseInvariance, PTL

\* No permit and no slot is lost or given back twice, whatever is refused, raises or ends
\* before its callback is registered (_submit_background, _guarded_operation, edit_design).
THEOREM PermitsAddUp == Spec => [](TypeOK /\ PermitsAccounted)
  <1>1. Base => TypeOK /\ PermitsAccounted
    BY DEF Base, Counts
  <1> QED  BY <1>1, BaseInvariance, PTL

-----------------------------------------------------------------------------
(* The active count and the directories.                                   *)

\* No two requests are inside on one workflow.
LEMMA Alone ==
    ASSUME Base, NEW c \in Clients, NEW d \in Clients, pc[c] \in Holding, pc[d] \in Holding,
           target[c] = target[d]
    PROVE  c = d
  BY DEF Base, Requests, Holding, LockMap, Owners

\* A creation shares its workflow with requests that take its lock only.
LEMMA CreatorAlone ==
    ASSUME Base, NEW c \in Clients, pc[c] \in CreatePcs
    PROVE  /\ target[c] \in Workflows /\ answered[target[c]] = "none"
           /\ pc[c] # "register" => ~InFlight(target[c]) /\ target[c] \notin ended
           /\ \A d \in Clients : d # c /\ target[d] = target[c] => pc[d] \in LockedPcs
  <1>1. op[c] = "create" /\ target[c] \in Workflows /\ answered[target[c]] = "none"
    BY DEF Base, Requests, TypeOK
  <1>2. pc[c] # "register" => ~InFlight(target[c]) /\ target[c] \notin ended
    BY <1>1 DEF Base, Futures, Preparing
  <1>3. ASSUME NEW d \in Clients, d # c, target[d] = target[c] PROVE pc[d] \in LockedPcs
    <2>1. None \notin Workflows  BY GateAssumption
    <2>2. op[d] # "none" /\ op[d] # "create"
      BY <1>1, <1>3, <2>1 DEF Base, Requests
    <2>3. op[d] \in Locked
      BY <2>2 DEF Base, TypeOK
    <2> QED  BY <2>3 DEF Base, Requests
  <1> QED  BY <1>1, <1>2, <1>3

LEMMA AnsweredMoves ==
    ASSUME Base, [Next]_vars, NEW w \in Workflows, answered'[w] # answered[w]
    PROVE  /\ answered[w] = "none" /\ answered'[w] # "none"
           /\ \E c \in Clients : target[c] = w /\ (answered'[w] = "refused" => Discard(c))
  <1>1. PICK c \in Clients : WritePending(c) \/ EmitDesignCreated(c) \/ Register(c) \/ Discard(c)
    BY DEF Next, CreateStep, LockedStep, SlotStep, vars, MakeDirectory, Enter, MarkActive, Admit,
       Submit, UnmarkRefused, Acquire, CheckActive, TakeSlot, BeginActiveOperation,
       MarkEditActive, Edit, UnmarkEdit, FreeSlot, FindVersion, CommitVersion, PurgeMemory,
       RemoveFiles, Unlock, Leave, Shutdown, WorkerStep, Take, WaitForSlot, Generate,
       UnmarkGenerated, FreeWorkerSlot, EndFuture
  <1>2. PICK how \in Answers :
           answered' = [answered EXCEPT ![target[c]] = how] /\ (how = "refused" => Discard(c))
    BY <1>1 DEF WritePending, EmitDesignCreated, Register, Discard, Answer, Answers
  <1>3. target[c] = w  BY <1>2 DEF Base, TypeOK
  <1>4. op[c] = "create"
    BY <1>1 DEF WritePending, EmitDesignCreated, Register, Discard, Base, Requests, CreatePcs
  <1> QED  BY <1>2, <1>3, <1>4 DEF Base, Requests, TypeOK, Answers

\* Nobody moves the request of another thread.
LEMMA OwnMoves ==
    ASSUME Base, [Next]_vars, NEW c \in Clients
    PROVE  \/ pc'[c] = pc[c] /\ target'[c] = target[c] /\ op'[c] = op[c]
           \/ \E w \in Workflows, k \in Locked : MakeDirectory(c, w) \/ Enter(c, k, w)
           \/ CreateStep(c)
           \/ LockedStep(c)
  <1> DEFINE Same == pc'[c] = pc[c] /\ target'[c] = target[c] /\ op'[c] = op[c]
  <1> USE RequestTypes DEF Base
  <1>1. ASSUME NEW d \in Clients, NEW w \in Workflows, NEW k \in Locked,
               MakeDirectory(d, w) \/ Enter(d, k, w), d # c
        PROVE  Same
    BY <1>1 DEF MakeDirectory, Enter
  <1>2. ASSUME NEW d \in Clients, CreateStep(d), d # c PROVE Same
    BY <1>2 DEF CreateStep, WritePending, MarkActive, EmitDesignCreated, Admit, Submit, Register,
       UnmarkRefused, Discard, Go, Answer, Return
  <1>3. ASSUME NEW d \in Clients, LockedStep(d), ~Leave(d), d # c PROVE Same
    BY <1>3 DEF LockedStep, SlotStep, Acquire, CheckActive, TakeSlot, BeginActiveOperation,
       MarkEditActive, Edit, UnmarkEdit, FreeSlot, FindVersion, CommitVersion, PurgeMemory,
       RemoveFiles, Unlock, Go
  <1>4. ASSUME NEW d \in Clients, Leave(d), d # c PROVE Same
    BY <1>4 DEF Leave, Return
  <1>5. ASSUME NEW k \in Workers, WorkerStep(k) PROVE Same
    BY <1>5 DEF WorkerStep, Take, WaitForSlot, Generate, UnmarkGenerated, FreeWorkerSlot, EndFuture
  <1>6. CASE Shutdown \/ UNCHANGED vars
    BY <1>6 DEF Shutdown, vars
  <1>7. Locked # {}  BY DEF Locked
  <1> QED  BY <1>1, <1>2, <1>3, <1>4, <1>5, <1>6, <1>7 DEF Next

\* How a request gets past its check, to its edit, and to writing its design.
LEMMA InsideMoves ==
    ASSUME Base, [Next]_vars, NEW c \in Clients, pc'[c] \in Checked
    PROVE  /\ op[c] \in Locked /\ pc[c] \in Holding /\ target'[c] = target[c]
           /\ pc[c] \in Checked \/ (CheckActive(c) /\ active[target[c]] = 0
                                       /\ (Exposed(target[c]) => early'[target[c]] = "inside"))
           /\ pc'[c] \in {"edit", "unmark_edit"} =>
                pc[c] \in {"edit", "unmark_edit"} \/ MarkEditActive(c)
           /\ pc'[c] \in OnDisk => pc[c] \in OnDisk \/ target[c] \in dirs
  <1> DEFINE Goal == /\ pc[c] \in Holding /\ target'[c] = target[c]
                     /\ pc[c] \in Checked \/ (CheckActive(c) /\ active[target[c]] = 0
                            /\ (Exposed(target[c]) => early'[target[c]] = "inside"))
                     /\ pc'[c] \in {"edit", "unmark_edit"} =>
                          pc[c] \in {"edit", "unmark_edit"} \/ MarkEditActive(c)
                     /\ pc'[c] \in OnDisk => pc[c] \in OnDisk \/ target[c] \in dirs
  <1> USE RequestTypes DEF Base
  <1>1. CASE pc'[c] = pc[c] /\ target'[c] = target[c]
    BY <1>1 DEF Checked, Holding
  <1>2. ASSUME NEW w \in Workflows, NEW k \in Locked, MakeDirectory(c, w) \/ Enter(c, k, w)
        PROVE  FALSE
    BY <1>2 DEF MakeDirectory, Enter, Checked, Holding, LockedPcs, EditPcs
  <1>3. CASE CreateStep(c)
    <2>1. pc'[c] \in {"mark", "idle", "announce", "admit", "submit", "unmark", "register", "discard"}
      BY <1>3 DEF CreateStep, WritePending, MarkActive, EmitDesignCreated, Admit, Submit, Register,
         UnmarkRefused, Discard, Go, Answer, Return
    <2> QED  BY <2>1 DEF Checked, Holding, LockedPcs, EditPcs
  <1>4. CASE CheckActive(c)
    <2>1. pc[c] = "check" /\ target[c] \in Workflows /\ op[c] \in Locked
      BY <1>4 DEF CheckActive, Holding, LockedPcs
    <2>2. early \in [Workflows -> {"no", "inside", "was"}]
      BY DEF TypeOK
    <2> QED
      BY <1>4, <2>1, <2>2
      DEF CheckActive, Inactive, Go, Locked, LockedPcs, Checked, Holding, OnDisk
  <1>5. CASE SlotStep(c) \/ TakeSlot(c)
    <2> USE DEF Checked, Holding, LockedPcs, EditPcs, OnDisk, Go
    <2>1. CASE BeginActiveOperation(c) \/ TakeSlot(c)
      BY <2>1 DEF BeginActiveOperation, FailedBegin, TakeSlot
    <2>2. CASE MarkEditActive(c)
      BY <2>2 DEF MarkEditActive
    <2>3. CASE Edit(c) \/ UnmarkEdit(c) \/ FreeSlot(c)
      BY <2>3 DEF Edit, UnmarkEdit, FreeSlot
    <2> QED  BY <1>5, <2>1, <2>2, <2>3 DEF SlotStep
  <1>6. CASE FindVersion(c) \/ CommitVersion(c) \/ PurgeMemory(c) \/ RemoveFiles(c)
    BY <1>6 DEF FindVersion, CommitVersion, PurgeMemory, RemoveFiles, Go, Checked, Holding,
       LockedPcs, EditPcs, OnDisk
  <1>7. CASE Acquire(c) \/ Unlock(c)
    BY <1>7 DEF Acquire, Unlock, Go, Checked, Holding, LockedPcs, EditPcs
  <1>8. CASE Leave(c)
    BY <1>8 DEF Leave, Return, Checked, Holding, LockedPcs, EditPcs
  <1>9. Goal
    BY <1>1, <1>2, <1>3, <1>4, <1>5, <1>6, <1>7, <1>8, OwnMoves DEF LockedStep
  <1>10. op[c] \in Locked  BY <1>9
  <1> QED  BY <1>9, <1>10

\* A request that edits goes on until it has uncounted its edit.
LEMMA EditorMoves ==
    ASSUME Base, [Next]_vars, NEW c \in Clients, pc[c] \in {"edit", "unmark_edit"}
    PROVE  \/ UnmarkEdit(c)
           \/ pc'[c] \in {"edit", "unmark_edit"} /\ target'[c] = target[c]
  <1> USE RequestTypes DEF Base
  <1>1. ASSUME NEW w \in Workflows, NEW k \in Locked, MakeDirectory(c, w) \/ Enter(c, k, w)
        PROVE  FALSE
    BY <1>1 DEF MakeDirectory, Enter
  <1>2. CASE CreateStep(c)
    BY <1>2 DEF CreateStep, WritePending, MarkActive, EmitDesignCreated, Admit, Submit, Register,
       UnmarkRefused, Discard
  <1>3. CASE LockedStep(c)
    BY <1>3 DEF LockedStep, SlotStep, Acquire, CheckActive, TakeSlot, BeginActiveOperation,
       MarkEditActive, Edit, FreeSlot, FindVersion, CommitVersion, PurgeMemory,
       RemoveFiles, Unlock, Leave, Go
  <1> QED  BY <1>1, <1>2, <1>3, OwnMoves

\* Whose mark a step adds or takes away.
MarksSame       == \A w \in Workflows : Marked(w)' <=> Marked(w)
MarkAdded(x)    == \A w \in Workflows : Marked(w)' <=> Marked(w) \/ w = x
MarkRemoved(x)  == \A w \in Workflows : Marked(w)' <=> Marked(w) /\ w # x

\* A creation that raises after it was counted.
Raised(c) == EmitDesignCreated(c) /\ Answer(c, "raised")

LEMMA CreationMarks ==
    ASSUME Base, NEW c \in Clients, CreateStep(c)
    PROVE  /\ MarkActive(c) => MarkAdded(target[c])
           /\ UnmarkRefused(c) \/ Raised(c) => MarkRemoved(target[c])
           /\ ~MarkActive(c) /\ ~UnmarkRefused(c) /\ ~Raised(c) => MarksSame
  <1>0. /\ pc[c] \in CreatePcs /\ DOMAIN pc = Clients /\ DOMAIN target = Clients
        /\ UNCHANGED <<work, wpc>>
    BY RequestTypes
    DEF Base, CreateStep, WritePending, MarkActive, EmitDesignCreated, Admit, Submit, Register,
       UnmarkRefused, Discard, CreatePcs
  <1> PICK x \in Workflows : x = target[c]
    BY <1>0, CreatorAlone
  <1>1. \A d \in Clients : d # c /\ target[d] = x => pc[d] \notin MarkPcs
    BY <1>0, CreatorAlone DEF LockedPcs, EditPcs, MarkPcs
  <1>2. pc[c] # "register" => ~Queued(x) /\ ~Generated(x)
    BY <1>0, CreatorAlone DEF InFlight, Generated
  <1>3. \A w \in Workflows : Generated(w)' <=> Generated(w)
    BY <1>0 DEF Generated
  <1>4. ASSUME UNCHANGED target, \A d \in Clients : d # c => pc'[d] = pc[d]
        PROVE  \A w \in Workflows : AtMark(w)' <=> IF w = x THEN pc'[c] \in MarkPcs ELSE AtMark(w)
    BY <1>1, <1>4 DEF AtMark
  <1>5. ASSUME pc' = [pc EXCEPT ![c] = "idle"], target' = [target EXCEPT ![c] = None]
        PROVE  \A w \in Workflows : AtMark(w)' <=> AtMark(w) /\ w # x
    <2>1. \A d \in Clients : d # c => pc'[d] = pc[d] /\ target'[d] = target[d]  BY <1>0, <1>5
    <2>2. pc'[c] = "idle"  BY <1>0, <1>5
    <2> QED  BY <1>1, <2>1, <2>2 DEF AtMark, MarkPcs
  <1>6. AtMark(x) <=> pc[c] \in MarkPcs
    BY <1>1 DEF AtMark
  <1>7. UNCHANGED queue => \A w \in Workflows : Queued(w)' <=> Queued(w)
    BY DEF Queued
  <1> USE DEF Go, Answer, Return, MarkPcs, MarkAdded, MarkRemoved, MarksSame, Marked
  <1>8. CASE MarkActive(c)
    BY <1>0, <1>3, <1>4, <1>7, <1>8 DEF MarkActive, UnmarkRefused, Raised, EmitDesignCreated
  <1>9. CASE UnmarkRefused(c)
    <2>1. /\ pc[c] = "unmark" /\ pc' = [pc EXCEPT ![c] = "discard"] /\ UNCHANGED <<target, queue>>
          /\ ~MarkActive(c)
      BY <1>9 DEF MarkActive, UnmarkRefused
    <2>2. \A w \in Workflows : AtMark(w)' <=> AtMark(w) /\ w # x
      BY <1>0, <1>4, <2>1
    <2>3. MarkRemoved(x)
      BY <1>2, <1>3, <1>7, <2>1, <2>2
    <2> QED  BY <1>9, <2>1, <2>3
  <1>10. CASE EmitDesignCreated(c)
    <2>1. CASE Raised(c)
      BY <1>2, <1>3, <1>5, <1>7, <2>1 DEF MarkActive, Raised, EmitDesignCreated
    <2>2. CASE ~Raised(c)
      BY <1>0, <1>3, <1>4, <1>6, <1>7, <1>10, <2>2
      DEF Raised, EmitDesignCreated, MarkActive, UnmarkRefused
    <2> QED  BY <2>1, <2>2
  <1>11. CASE WritePending(c) \/ Register(c) \/ Discard(c)
    <2>1. pc[c] \in {"pending", "register", "discard"} /\ UNCHANGED queue
      BY <1>11 DEF WritePending, Register, Discard
    <2>2. \A w \in Workflows : AtMark(w)' <=> AtMark(w)
      <3>1. ~AtMark(x)  BY <1>6, <2>1
      <3> QED  BY <1>0, <1>4, <1>5, <1>11, <3>1 DEF WritePending, Register, Discard
    <2> QED  BY <1>3, <1>7, <2>1, <2>2 DEF MarkActive, UnmarkRefused, Raised, EmitDesignCreated
  <1>12. CASE Admit(c)
    BY <1>0, <1>3, <1>4, <1>6, <1>7, <1>12
    DEF Admit, MarkActive, UnmarkRefused, Raised, EmitDesignCreated
  <1>13. CASE Submit(c)
    <2>1. pc[c] = "submit" /\ ~MarkActive(c) /\ ~UnmarkRefused(c) /\ ~Raised(c)
      BY <1>13 DEF Submit, MarkActive, UnmarkRefused, Raised, EmitDesignCreated
    <2>2. CASE closed
      BY <1>0, <1>3, <1>4, <1>6, <1>7, <1>13, <2>1, <2>2 DEF Submit
    <2>3. CASE ~closed
      <3>1. queue' = Append(queue, x) /\ pc' = [pc EXCEPT ![c] = "register"] /\ UNCHANGED target
        BY <1>13, <2>3 DEF Submit
      <3>2. \A w \in Workflows : Queued(w)' <=> Queued(w) \/ w = x
        BY <3>1, QueueAppend DEF Base, TypeOK
      <3>3. \A w \in Workflows : AtMark(w)' <=> AtMark(w) /\ w # x
        BY <1>0, <1>4, <3>1
      <3>4. AtMark(x)  BY <1>6, <2>1
      <3>5. MarksSame  BY <1>3, <3>2, <3>3, <3>4
      <3> QED  BY <2>1, <3>5
    <2> QED  BY <2>2, <2>3
  <1> QED  BY <1>8, <1>9, <1>10, <1>11, <1>12, <1>13 DEF CreateStep

LEMMA WorkerMarks ==
    ASSUME Base, NEW k \in Workers, WorkerStep(k)
    PROVE  /\ UnmarkGenerated(k) => MarkRemoved(work[k])
           /\ ~UnmarkGenerated(k) => MarksSame
  <1> USE DEF MarkRemoved, MarksSame, Marked
  <1>0. /\ UNCHANGED request /\ DOMAIN work = Workers /\ DOMAIN wpc = Workers
        /\ None \notin Workflows
    BY GateAssumption
    DEF Base, TypeOK, WorkerStep, Take, WaitForSlot, Generate, UnmarkGenerated, FreeWorkerSlot,
       EndFuture
  <1>1. \A w \in Workflows : AtMark(w)' <=> AtMark(w)
    BY <1>0 DEF AtMark
  <1>2. UNCHANGED queue => \A w \in Workflows : Queued(w)' <=> Queued(w)
    BY DEF Queued
  <1>3. CASE Take(k)
    <2>1. PICK x \in Workflows :
             /\ Queued(x) /\ work[k] = None /\ work' = [work EXCEPT ![k] = x]
             /\ wpc' = [wpc EXCEPT ![k] = "slot"]
             /\ \A v : Queued(v)' <=> Queued(v) /\ v # x
      BY <1>3, TakeMoves DEF Base
    <2>2. \A w \in Workflows : Generated(w)' <=> Generated(w) \/ w = x
      BY <1>0, <2>1 DEF Generated
    <2>3. ~UnmarkGenerated(k)  BY <1>3 DEF Take, UnmarkGenerated
    <2> QED  BY <1>1, <2>1, <2>2, <2>3
  <1>4. CASE WaitForSlot(k) \/ Generate(k) \/ FreeWorkerSlot(k) \/ EndFuture(k)
    <2>1. UNCHANGED queue /\ ~UnmarkGenerated(k)
      BY <1>4 DEF WaitForSlot, Generate, FreeWorkerSlot, EndFuture, UnmarkGenerated
    <2>2. \A w \in Workflows : Generated(w)' <=> Generated(w)
      BY <1>0, <1>4 DEF WaitForSlot, Generate, FreeWorkerSlot, EndFuture, WorkerGo, Generated
    <2> QED  BY <1>1, <1>2, <2>1, <2>2
  <1>5. CASE UnmarkGenerated(k)
    <2>1. /\ wpc[k] = "unmark" /\ wpc' = [wpc EXCEPT ![k] = "free_slot"]
          /\ UNCHANGED <<work, queue>>
      BY <1>5 DEF UnmarkGenerated, WorkerGo
    <2>2. PICK x \in Workflows : x = work[k]
      BY <1>0, <2>1 DEF Base, TypeOK, Futures
    <2>3. \A j \in Workers : work[j] = x => j = k
      BY <1>0, <2>2 DEF Base, Futures
    <2>4. ~Queued(x)
      BY <1>0, <2>2 DEF Base, Futures
    <2>5. ~AtMark(x)
      <3> SUFFICES ASSUME NEW c \in Clients, target[c] = x, pc[c] \in MarkPcs PROVE FALSE
        BY DEF AtMark
      <3>1. Preparing(c)  BY DEF Preparing, MarkPcs, Base, Requests, CreatePcs
      <3>2. ~InFlight(x)  BY <3>1 DEF Base, Futures
      <3> QED  BY <2>2, <3>2 DEF InFlight
    <2>6. \A w \in Workflows : Generated(w)' <=> Generated(w) /\ w # x
      <3>1. \A j \in Workers : wpc'[j] = IF j = k THEN "free_slot" ELSE wpc[j]
        BY <1>0, <2>1
      <3> QED  BY <2>1, <2>2, <2>3, <3>1 DEF Generated
    <2> QED  BY <1>1, <1>2, <1>5, <2>1, <2>2, <2>4, <2>5, <2>6
  <1> QED  BY <1>3, <1>4, <1>5 DEF WorkerStep

LEMMA MarkMoves ==
    ASSUME Base, [Next]_vars
    PROVE  \/ \E c \in Clients : MarkActive(c) /\ MarkAdded(target[c])
           \/ \E c \in Clients : (UnmarkRefused(c) \/ Raised(c)) /\ MarkRemoved(target[c])
           \/ \E k \in Workers : UnmarkGenerated(k) /\ MarkRemoved(work[k])
           \/ /\ MarksSame
              /\ \/ UNCHANGED active
                 \/ \E c \in Clients : MarkEditActive(c) \/ UnmarkEdit(c)
  <1>1. ASSUME NEW c \in Clients, CreateStep(c), ~MarkActive(c), ~UnmarkRefused(c), ~Raised(c)
        PROVE  MarksSame /\ UNCHANGED active
    BY <1>1, CreationMarks
    DEF CreateStep, WritePending, EmitDesignCreated, Admit, Submit, Register, Discard
  <1>2. ASSUME NEW k \in Workers, WorkerStep(k), ~UnmarkGenerated(k)
        PROVE  MarksSame /\ UNCHANGED active
    BY <1>2, WorkerMarks
    DEF WorkerStep, Take, WaitForSlot, Generate, FreeWorkerSlot, EndFuture
  <1>3. ASSUME UNCHANGED pool,
               \A c \in Clients : (target'[c] = target[c] /\ pc'[c] = pc[c])
                                     \/ (pc[c] \notin MarkPcs /\ pc'[c] \notin MarkPcs)
        PROVE  MarksSame
    BY <1>3 DEF MarksSame, Marked, Queued, Generated, AtMark
  <1> USE RequestTypes DEF Base
  <1>4. ASSUME NEW c \in Clients, NEW w \in Workflows, NEW k \in Locked,
               MakeDirectory(c, w) \/ Enter(c, k, w)
        PROVE  MarksSame /\ UNCHANGED active
    BY <1>3, <1>4 DEF MakeDirectory, Enter, MarkPcs
  <1>5. ASSUME NEW c \in Clients, LockedStep(c)
        PROVE  MarksSame /\ (UNCHANGED active \/ MarkEditActive(c) \/ UnmarkEdit(c))
    <2>1. CASE SlotStep(c)
      BY <1>3, <2>1 DEF SlotStep, BeginActiveOperation, MarkEditActive, Edit, UnmarkEdit, FreeSlot,
         FailedBegin, Go, MarkPcs
    <2>2. CASE Acquire(c) \/ CheckActive(c) \/ TakeSlot(c) \/ FindVersion(c)
      BY <1>3, <2>2 DEF Acquire, CheckActive, TakeSlot, FindVersion, Go, MarkPcs, Requests, Locked,
         Holding, LockedPcs
    <2>3. CASE CommitVersion(c) \/ PurgeMemory(c) \/ RemoveFiles(c) \/ Unlock(c) \/ Leave(c)
      BY <1>3, <2>3 DEF CommitVersion, PurgeMemory, RemoveFiles, Unlock, Leave, Return, Go, MarkPcs
    <2> QED  BY <1>5, <2>1, <2>2, <2>3 DEF LockedStep
  <1>6. CASE Shutdown \/ UNCHANGED vars
    BY <1>3, <1>6 DEF Shutdown, vars
  <1>7. Locked # {}  BY DEF Locked
  <1> QED  BY <1>1, <1>2, <1>4, <1>5, <1>6, <1>7, CreationMarks, WorkerMarks
    DEF Next, CreateStep, WorkerStep

LEMMA AcquaintedStep ==
    ASSUME Base, Acquainted, [Next]_vars
    PROVE  Acquainted'
  <1> SUFFICES ASSUME NEW c \in Clients, NEW d \in Clients, op'[c] \in Locked, pc'[d] = "pending"
               PROVE  target'[c] # target'[d]
    BY DEF Acquainted
  <1> USE RequestTypes DEF Base
  <1>1. \/ op[c] \in Locked /\ target'[c] = target[c] /\ target[c] \in born
        \/ \E w \in Workflows, k \in Locked : Enter(c, k, w)
    <2>1. CASE CreateStep(c)
      <3>1. op'[c] \in {op[c], "none"} /\ pc[c] \in CreatePcs
        BY <2>1 DEF CreateStep, WritePending, MarkActive, EmitDesignCreated, Admit, Submit,
           Register, UnmarkRefused, Discard, Go, Answer, Return, CreatePcs
      <3> QED  BY <3>1 DEF Requests, Locked
    <2>2. CASE LockedStep(c) /\ ~Leave(c)
      <3>1. op'[c] = op[c] /\ target'[c] = target[c]
        BY <2>2 DEF LockedStep, SlotStep, Acquire, CheckActive, TakeSlot, BeginActiveOperation,
           MarkEditActive, Edit, UnmarkEdit, FreeSlot, FindVersion, CommitVersion, PurgeMemory,
           RemoveFiles, Unlock, Go
      <3> QED  BY <3>1 DEF Requests, Locked
    <2>3. CASE Leave(c)
      BY <2>3 DEF Leave, Return, Locked
    <2>4. ASSUME NEW w \in Workflows, MakeDirectory(c, w) PROVE FALSE
      BY <2>4 DEF MakeDirectory, Locked
    <2>5. CASE pc'[c] = pc[c] /\ target'[c] = target[c] /\ op'[c] = op[c]
      BY <2>5 DEF Requests, Locked
    <2> QED  BY <2>1, <2>2, <2>3, <2>4, <2>5, OwnMoves
  <1>2. \/ pc[d] = "pending" /\ op[d] = "create" /\ target'[d] = target[d]
        \/ target'[d] \in Workflows \ born
    <2>1. Preparing(d)'
      <3>1. op'[d] = "create"
        BY RequestsStep DEF Requests, CreatePcs
      <3> QED  BY <3>1 DEF Preparing
    <2>2. CASE Preparing(d) /\ target'[d] = target[d]
      <3>1. pc[d] = "pending"
        <4>1. CASE pc'[d] = pc[d]  BY <4>1
        <4>2. ASSUME NEW w \in Workflows, NEW k \in Locked, MakeDirectory(d, w) \/ Enter(d, k, w)
              PROVE  FALSE
          BY <2>2, <4>2 DEF MakeDirectory, Enter, Preparing, Requests, CreatePcs
        <4>3. CASE CreateStep(d)
          BY <4>3 DEF CreateStep, WritePending, MarkActive, EmitDesignCreated, Admit, Submit,
             Register, UnmarkRefused, Discard, Go, Answer, Return
        <4>4. CASE LockedStep(d)
          <5>1. pc[d] \in CreatePcs  BY <2>2 DEF Preparing, Requests
          <5> QED
            BY <4>4, <5>1 DEF LockedStep, SlotStep, Acquire, CheckActive, TakeSlot,
               BeginActiveOperation, MarkEditActive, Edit, UnmarkEdit, FreeSlot, FindVersion,
               CommitVersion, PurgeMemory, RemoveFiles, Unlock, Leave, CreatePcs
        <4> QED  BY <4>1, <4>2, <4>3, <4>4, OwnMoves
      <3> QED  BY <2>2, <3>1 DEF Preparing
    <2> QED  BY <2>1, <2>2, PreparingMoves
  <1>3. CASE op[c] \in Locked /\ target'[c] = target[c] /\ target[c] \in born
    BY <1>2, <1>3 DEF Acquainted
  <1>4. ASSUME NEW w \in Workflows, NEW k \in Locked, Enter(c, k, w)
        PROVE  target'[c] # target'[d]
    <2>1. target'[c] = w /\ Known(w) /\ w \in born
      BY <1>4, KnownIsBorn DEF Enter
    <2>2. target[d] = w => ~(pc[d] = "pending" /\ op[d] = "create")
      BY <2>1 DEF Known, Listed, Requests
    <2> QED  BY <1>2, <2>1, <2>2
  <1> QED  BY <1>1, <1>3, <1>4

\* A step that counts the creation of a workflow is one that leaves its gap, and a
\* gap opens from the pending status or from the count.
LEMMA MarkGained ==
    ASSUME Base, [Next]_vars, NEW w \in Workflows, ~Marked(w), Marked(w)'
    PROVE  Exposed(w) /\ answered[w] = "none"
  <1>1. PICK c \in Clients : MarkActive(c) /\ MarkAdded(target[c])
    BY MarkMoves DEF MarksSame, MarkRemoved
  <1>2. w = target[c]  BY <1>1 DEF MarkAdded
  <1> QED  BY <1>1, <1>2, CreatorAlone DEF MarkActive, CreatePcs, Exposed

LEMMA GapMoves ==
    ASSUME Base, [Next]_vars, NEW w \in Workflows, ~Exposed(w), Exposed(w)'
    PROVE  \E c \in Clients : target[c] = w /\ pc[c] \in {"pending", "unmark"}
  <1> USE RequestTypes DEF Base
  <1>1. PICK c \in Clients : target'[c] = w /\ pc'[c] \in {"mark", "discard"}
    BY DEF Exposed
  <1>2. CASE pc'[c] = pc[c] /\ target'[c] = target[c]
    BY <1>1, <1>2 DEF Exposed
  <1>3. ASSUME NEW v \in Workflows, NEW k \in Locked, MakeDirectory(c, v) \/ Enter(c, k, v)
        PROVE  FALSE
    BY <1>1, <1>3 DEF MakeDirectory, Enter
  <1>4. CASE CreateStep(c)
    BY <1>1, <1>4 DEF CreateStep, WritePending, MarkActive, EmitDesignCreated, Admit, Submit,
       Register, UnmarkRefused, Discard, Go, Answer, Return
  <1>5. CASE LockedStep(c)
    <2>1. CASE CheckActive(c)
      <3>1. op[c] \in Locked  BY <2>1 DEF CheckActive, Holding, LockedPcs
      <3> QED  BY <1>1, <2>1, <3>1 DEF CheckActive, Go, Locked
    <2>2. CASE ~CheckActive(c)
      BY <1>1, <1>5, <2>2 DEF LockedStep, SlotStep, Acquire, TakeSlot,
         BeginActiveOperation, MarkEditActive, Edit, UnmarkEdit, FreeSlot, FindVersion,
         CommitVersion, PurgeMemory, RemoveFiles, Unlock, Leave, Return, Go, FailedBegin
    <2> QED  BY <2>1, <2>2
  <1> QED  BY <1>2, <1>3, <1>4, <1>5, OwnMoves

\* A request that is past its check and not early after a step found, or had, its
\* workflow to itself before it.
LEMMA ToItself ==
    ASSUME Base, Marking, [Next]_vars, NEW c \in Clients,
           pc'[c] \in Checked, early'[target[c]] # "inside"
    PROVE  /\ target[c] \in Workflows /\ target'[c] = target[c] /\ pc[c] \in Holding
           /\ early[target[c]] # "inside"
           /\ ~Marked(target[c]) /\ ~Exposed(target[c])
  <1>0. /\ op[c] \in Locked /\ pc[c] \in Holding /\ target'[c] = target[c]
        /\ target[c] \in Workflows /\ early \in [Workflows -> {"no", "inside", "was"}]
    BY InsideMoves, RequestTypes DEF Base, TypeOK
  <1> PICK w \in Workflows : w = target[c]
    BY <1>0
  <1>1. early[w] # "inside"
    <2> SUFFICES ASSUME early[w] = "inside" PROVE FALSE  OBVIOUS
    <2>1. PICK d \in Clients : Unlock(d) /\ target[d] = w
      BY <1>0, EarlyMoves DEF CheckActive, Unlock
    <2>2. d = c
      BY <1>0, <2>1, Alone DEF Unlock, Holding, LockedPcs
    <2>3. pc'[c] = "leave"
      BY <2>1, <2>2, RequestTypes DEF Unlock, Go, Base
    <2> QED  BY <2>3 DEF Checked, Holding
  <1>2. ~Marked(w) /\ ~Exposed(w)
    <2>1. CASE pc[c] \in Checked
      BY <1>1, <2>1 DEF Marking, Guarded
    <2>2. CASE active[w] = 0 /\ (Exposed(w) => early'[w] = "inside")
      <3>1. ~Marked(w)
        BY <2>2 DEF Marking, MarkingOf, Edits
      <3> QED  BY <2>2, <3>1
    <2> QED  BY <2>1, <2>2, InsideMoves
  <1> QED  BY <1>0, <1>1, <1>2

LEMMA GuardedStep ==
    ASSUME Base, Acquainted, Marking, [Next]_vars, NEW c \in Clients
    PROVE  Guarded(c)'
  <1> SUFFICES ASSUME pc'[c] \in Checked, early'[target'[c]] # "inside",
                      NEW w, w = target'[c]
               PROVE  ~Marked(w)' /\ ~Exposed(w)'
    BY DEF Guarded
  <1>0. w = target[c] /\ op[c] \in Locked
    BY InsideMoves
  <1>1. w \in Workflows /\ ~Marked(w) /\ ~Exposed(w)
    BY <1>0, ToItself
  <1>2. ~Marked(w)'
    BY <1>1, MarkGained
  <1>3. ~Exposed(w)'
    <2> SUFFICES ASSUME NEW d \in Clients, target[d] = w, pc[d] \in {"pending", "unmark"}
                 PROVE  FALSE
      BY <1>1, GapMoves
    <2>1. pc[d] # "pending"  BY <1>0 DEF Acquainted
    <2>2. pc[d] # "unmark"  BY <1>1 DEF Marked, AtMark, MarkPcs
    <2> QED  BY <2>1, <2>2
  <1> QED  BY <1>0, <1>2, <1>3

\* A step on the count of a workflow.
LEMMA MarkingStep ==
    ASSUME Base, Acquainted, Marking, [Next]_vars
    PROVE  Marking'
  <1>0. /\ active \in [Workflows -> Nat] /\ DOMAIN pc = Clients /\ DOMAIN target = Clients
        /\ \A w \in Workflows : MarkingOf(w) /\ Edits(w) \in {0, 1}
    BY RequestTypes DEF Base, TypeOK, Marking, Edits
  <1>1. ASSUME NEW c \in Clients, MarkActive(c), MarkAdded(target[c]), NEW w \in Workflows
        PROVE  MarkingOf(w)'
    <2>1. /\ pc[c] = "mark" /\ pc' = [pc EXCEPT ![c] = "announce"] /\ UNCHANGED <<target, answered>>
          /\ active' = Counted(target[c])
      BY <1>1 DEF MarkActive, Go
    <2> PICK x \in Workflows : x = target[c]
      BY <2>1, CreatorAlone DEF CreatePcs
    <2>2. /\ answered[x] = "none" /\ ~InFlight(x)
          /\ \A d \in Clients : d # c /\ target[d] = x => pc[d] \notin MarkPcs
      BY <2>1, CreatorAlone DEF CreatePcs, LockedPcs, EditPcs, MarkPcs
    <2>3. ~Marked(x)
      BY <2>1, <2>2 DEF Marked, Generated, AtMark, InFlight, MarkPcs
    <2>4. active[x] = Edits(x)  BY <1>0, <2>2, <2>3 DEF MarkingOf
    <2>5. active'[x] = 1 + Edits(x) /\ \A v \in Workflows : v # x => active'[v] = active[v]
      BY <1>0, <2>1, <2>4 DEF Counted
    <2>6. \A v \in Workflows : Edits(v)' = Edits(v)
      BY <1>0, <2>1 DEF Edits, Editor
    <2>7. Marked(w)' <=> Marked(w) \/ w = x
      BY <1>1 DEF MarkAdded
    <2> QED  BY <1>0, <2>1, <2>5, <2>6, <2>7 DEF MarkingOf
  <1>2. ASSUME NEW c \in Clients, UnmarkRefused(c) \/ Raised(c), MarkRemoved(target[c]),
               NEW w \in Workflows
        PROVE  MarkingOf(w)'
    <2>1. pc[c] \in {"unmark", "announce"}
      BY <1>2 DEF UnmarkRefused, Raised, EmitDesignCreated
    <2> PICK x \in Workflows : x = target[c]
      BY <2>1, CreatorAlone DEF CreatePcs
    <2>2. answered[x] = "none" /\ Marked(x) /\ active[x] = 1 + Edits(x)
      <3>1. answered[x] = "none"
        BY <2>1, CreatorAlone DEF CreatePcs
      <3>2. Marked(x)  BY <2>1 DEF Marked, AtMark, MarkPcs
      <3> QED  BY <1>0, <3>1, <3>2 DEF MarkingOf
    <2>3. /\ pc'[c] \in {"discard", "idle"}
          /\ \A d \in Clients : d # c => pc'[d] = pc[d] /\ target'[d] = target[d]
      BY <1>0, <1>2 DEF UnmarkRefused, Raised, Answer, Return, Go
    <2>4. /\ active'[x] = Edits(x) \/ (answered'[x] = "raised" /\ active'[x] = 1 + Edits(x))
          /\ \A v \in Workflows : v # x => active'[v] = active[v] /\ answered'[v] = answered[v]
      <3>1. CASE UnmarkRefused(c)
        BY <1>0, <2>2, <3>1 DEF UnmarkRefused, Uncounted
      <3>2. CASE Raised(c)
        <4>1. answered \in [Workflows -> Answers \cup {"none"}]
          BY DEF Base, TypeOK, Answers
        <4> QED  BY <2>2, <3>2, <4>1 DEF Raised, EmitDesignCreated, Answer
      <3> QED  BY <1>2, <3>1, <3>2
    <2>5. \A v \in Workflows : Edits(v)' = Edits(v)
      <3>1. \A v \in Workflows : Editor(v)' <=> Editor(v)
        BY <2>1, <2>3 DEF Editor
      <3> QED  BY <3>1 DEF Edits
    <2>6. Marked(w)' <=> Marked(w) /\ w # x
      BY <1>2 DEF MarkRemoved
    <2> QED  BY <1>0, <2>4, <2>5, <2>6 DEF MarkingOf
  <1>3. ASSUME NEW k \in Workers, UnmarkGenerated(k), MarkRemoved(work[k]), NEW w \in Workflows
        PROVE  MarkingOf(w)'
    <2>1. wpc[k] = "unmark" /\ UNCHANGED <<target, pc, answered>> /\ active' = Uncounted(work[k])
      BY <1>3 DEF UnmarkGenerated
    <2> PICK x \in Workflows : x = work[k]
      BY <2>1 DEF Base, TypeOK, Futures
    <2>2. active[x] = 1 + Edits(x)
      <3>1. Marked(x)  BY <2>1 DEF Marked, Generated
      <3> QED  BY <1>0, <3>1 DEF MarkingOf
    <2>3. active'[x] = Edits(x) /\ \A v \in Workflows : v # x => active'[v] = active[v]
      BY <1>0, <2>1, <2>2 DEF Uncounted
    <2>4. \A v \in Workflows : Edits(v)' = Edits(v)
      BY <2>1 DEF Edits, Editor
    <2>5. Marked(w)' <=> Marked(w) /\ w # x
      BY <1>3 DEF MarkRemoved
    <2> QED  BY <1>0, <2>1, <2>3, <2>4, <2>5 DEF MarkingOf
  <1>4. ASSUME NEW c \in Clients, MarkEditActive(c) \/ UnmarkEdit(c), MarksSame,
               NEW w \in Workflows
        PROVE  MarkingOf(w)'
    <2>1. /\ pc[c] \in {"mark_edit", "unmark_edit"} /\ UNCHANGED <<target, answered>>
          /\ \A d \in Clients : d # c => pc'[d] = pc[d]
      BY <1>0, <1>4 DEF MarkEditActive, UnmarkEdit, Go
    <2>2. pc[c] \in Holding
      BY <2>1 DEF Holding, LockedPcs, EditPcs
    <2> PICK x \in Workflows : x = target[c]
      BY <2>2, RequestTypes DEF Base
    <2>3. \A d \in Clients : d # c /\ pc[d] \in {"edit", "unmark_edit"} => target[d] # x
      BY <2>2, Alone DEF Holding, LockedPcs, EditPcs
    <2>4. /\ \A v \in Workflows : v # x => active'[v] = active[v]
          /\ \/ ~Editor(x) /\ Editor(x)' /\ active'[x] = active[x] + 1
             \/ Editor(x) /\ ~Editor(x)' /\ active'[x] = active[x] - 1
      <3>1. CASE MarkEditActive(c)
        <4>1. pc[c] = "mark_edit" /\ pc'[c] = "edit" /\ active' = Counted(x)
          BY <1>0, <3>1 DEF MarkEditActive, Go
        <4> QED  BY <1>0, <2>1, <2>3, <4>1 DEF Counted, Editor
      <3>2. CASE UnmarkEdit(c)
        <4>1. pc[c] = "unmark_edit" /\ pc'[c] = "free_slot" /\ active' = Uncounted(x)
          BY <1>0, <3>2 DEF UnmarkEdit, Go
        <4>2. Editor(x) /\ ~Editor(x)'
          BY <2>1, <2>3, <4>1 DEF Editor
        <4>3. active[x] >= 1
          BY <1>0, <4>2 DEF MarkingOf, Edits
        <4>4. active'[x] = active[x] - 1
          BY <1>0, <4>1, <4>3 DEF Uncounted
        <4> QED  BY <1>0, <4>1, <4>2, <4>4 DEF Uncounted
      <3> QED  BY <1>4, <3>1, <3>2
    <2>5. \A v \in Workflows : v # x => (Editor(v)' <=> Editor(v))
      BY <2>1 DEF Editor
    <2>6. Marked(w)' <=> Marked(w)
      BY <1>4 DEF MarksSame
    <2> QED  BY <1>0, <2>1, <2>4, <2>5, <2>6 DEF MarkingOf, Edits
  <1>5. ASSUME MarksSame, UNCHANGED active, NEW w \in Workflows
        PROVE  MarkingOf(w)'
    <2>1. ASSUME NEW c \in Clients, MarkEditActive(c) \/ UnmarkEdit(c) PROVE FALSE
      <3>1. pc[c] \in {"mark_edit", "unmark_edit"}
        BY <2>1 DEF MarkEditActive, UnmarkEdit
      <3> PICK x \in Workflows : x = target[c]
        BY <3>1, RequestTypes DEF Base, Holding, LockedPcs, EditPcs
      <3>2. CASE MarkEditActive(c)
        BY <1>0, <1>5, <3>2 DEF MarkEditActive, Counted
      <3>3. CASE UnmarkEdit(c)
        <4>1. Editor(x)  BY <3>3 DEF UnmarkEdit, Editor
        <4>2. active[x] >= 1  BY <1>0, <4>1 DEF MarkingOf, Edits
        <4> QED  BY <1>0, <1>5, <3>3, <4>2 DEF UnmarkEdit, Uncounted
      <3> QED  BY <2>1, <3>2, <3>3
    <2>2. Editor(w) => Editor(w)'
      BY <2>1, EditorMoves DEF Editor
    <2>3. Editor(w)' => Editor(w)
      <3> SUFFICES ASSUME NEW c \in Clients, target'[c] = w, pc'[c] \in {"edit", "unmark_edit"}
                   PROVE  Editor(w)
        BY DEF Editor
      <3>1. pc'[c] \in Checked  BY DEF Checked, Holding, LockedPcs, EditPcs
      <3>2. target[c] = w /\ pc[c] \in {"edit", "unmark_edit"}
        BY <2>1, <3>1, InsideMoves
      <3> QED  BY <3>2 DEF Editor
    <2>4. Edits(w)' = Edits(w)
      BY <2>2, <2>3 DEF Edits
    <2>5. answered[w] = "raised" => answered'[w] = "raised"
      BY AnsweredMoves
    <2> QED  BY <1>0, <1>5, <2>4, <2>5 DEF MarkingOf, MarksSame
  <1>6. \A w \in Workflows : MarkingOf(w)'
    BY <1>1, <1>2, <1>3, <1>4, <1>5, MarkMoves
  <1> QED  BY <1>6, GuardedStep DEF Marking

\* Who writes the directory of a workflow that has none, and who removes one.
LEMMA DirectoryGained ==
    ASSUME Base, Directories, [Next]_vars, NEW w \in Workflows, w \notin dirs, w \in dirs'
    PROVE  \/ \E c \in Clients : target[c] = w /\ Preparing(c)
           \/ Marked(w) /\ InFlight(w)
           \/ w \notin born
           \/ early[w] = "inside"
  <1> USE DEF Base
  <1>1. ASSUME NEW k \in Workers, WorkerStep(k)
        PROVE  Marked(w) /\ InFlight(w)
    <2>1. wpc[k] = "run" /\ work[k] = w
      BY <1>1 DEF WorkerStep, Take, WaitForSlot, Generate, UnmarkGenerated, FreeWorkerSlot,
         EndFuture, Touched
    <2> QED  BY <2>1 DEF Marked, Generated, InFlight
  <1>2. ASSUME NEW c \in Clients, CreateStep(c)
        PROVE  target[c] = w /\ Preparing(c)
    <2>1. pc[c] = "announce" /\ target[c] = w
      BY <1>2 DEF CreateStep, WritePending, MarkActive, EmitDesignCreated, Admit, Submit, Register,
         UnmarkRefused, Discard, Discarded, Touched
    <2> QED  BY <2>1 DEF CreatePcs, Requests, Preparing
  <1>3. ASSUME NEW c \in Clients, LockedStep(c)
        PROVE  early[w] = "inside"
    BY <1>3 DEF LockedStep, SlotStep, Acquire, CheckActive, TakeSlot, BeginActiveOperation,
       MarkEditActive, Edit, UnmarkEdit, FreeSlot, FindVersion, CommitVersion, PurgeMemory,
       RemoveFiles, Unlock, Leave, Touched, Directories, OnDisk
  <1>4. ASSUME NEW c \in Clients, NEW v \in Workflows, NEW k \in Locked,
               MakeDirectory(c, v) \/ Enter(c, k, v)
        PROVE  w \notin born
    BY <1>4 DEF MakeDirectory, Enter
  <1>5. CASE Shutdown \/ UNCHANGED vars
    BY <1>5 DEF Shutdown, vars
  <1>6. Locked # {}  BY DEF Locked
  <1> QED  BY <1>1, <1>2, <1>3, <1>4, <1>5, <1>6 DEF Next

LEMMA DirectoryLost ==
    ASSUME Base, [Next]_vars, NEW w \in Workflows, w \in dirs, w \notin dirs'
    PROVE  \E c \in Clients : target[c] = w /\ (Discard(c) \/ RemoveFiles(c))
  BY DEF Next, CreateStep, LockedStep, SlotStep, vars, MakeDirectory, Enter, WritePending,
     MarkActive, EmitDesignCreated, Admit, Submit, Register, UnmarkRefused, Discard, Discarded,
     Acquire, CheckActive, TakeSlot, BeginActiveOperation, MarkEditActive, Edit, UnmarkEdit,
     FreeSlot, FindVersion, CommitVersion, PurgeMemory, RemoveFiles, Unlock, Leave, Shutdown,
     WorkerStep, Take, WaitForSlot, Generate, UnmarkGenerated, FreeWorkerSlot, EndFuture, Touched

LEMMA FlightGained ==
    ASSUME Base, [Next]_vars, NEW w \in Workflows, ~InFlight(w), InFlight(w)'
    PROVE  answered[w] = "none"
  <1>1. ~UNCHANGED <<queue, work>>
    BY DEF InFlight, Queued
  <1>2. ASSUME NEW c \in Clients, Submit(c) PROVE answered[w] = "none"
    <2> PICK x \in Workflows : x = target[c]
      BY <1>2, CreatorAlone DEF Submit, CreatePcs
    <2>1. queue' = Append(queue, x) /\ UNCHANGED work
      BY <1>1, <1>2 DEF Submit
    <2>2. Queued(w)' <=> Queued(w) \/ w = x
      BY <2>1, QueueAppend DEF Base, TypeOK
    <2>3. w = x  BY <2>1, <2>2 DEF InFlight
    <2> QED  BY <1>2, <2>3, CreatorAlone DEF Submit, CreatePcs
  <1>3. ASSUME NEW k \in Workers, Take(k) PROVE FALSE
    <2>1. PICK x \in Workflows :
             /\ Queued(x) /\ work' = [work EXCEPT ![k] = x]
             /\ \A v : Queued(v)' <=> Queued(v) /\ v # x
      BY <1>3, TakeMoves DEF Base
    <2> QED  BY <2>1 DEF InFlight, Base, TypeOK
  <1>4. ASSUME NEW k \in Workers, EndFuture(k) PROVE FALSE
    <2>1. UNCHANGED queue /\ work' = [work EXCEPT ![k] = None] /\ w # None
      BY <1>4, GateAssumption DEF EndFuture
    <2> QED  BY <2>1 DEF InFlight, Queued, Base, TypeOK
  <1> QED
    BY <1>1, <1>2, <1>3, <1>4, PoolMoves, WorkerMoves DEF Register, Forwards

LEMMA CountGained ==
    ASSUME Base, Directories, [Next]_vars, NEW w \in Workflows, active[w] = 0, active'[w] # 0
    PROVE  answered[w] = "none" \/ w \in dirs \/ early[w] = "inside"
  <1>0. active \in [Workflows -> Nat]  BY DEF Base, TypeOK
  <1>1. ASSUME NEW c \in Clients, MarkActive(c) PROVE answered[w] = "none"
    <2>1. pc[c] = "mark" /\ active' = Counted(target[c])  BY <1>1 DEF MarkActive
    <2>2. w = target[c]  BY <1>0, <2>1 DEF Counted
    <2> QED  BY <2>1, <2>2, CreatorAlone DEF CreatePcs
  <1>2. ASSUME NEW c \in Clients, MarkEditActive(c) PROVE w \in dirs \/ early[w] = "inside"
    <2>1. pc[c] = "mark_edit" /\ active' = Counted(target[c])  BY <1>2 DEF MarkEditActive
    <2>2. w = target[c]  BY <1>0, <2>1 DEF Counted
    <2> QED  BY <2>1, <2>2 DEF Directories, OnDisk
  <1>3. ASSUME NEW v, active' = Uncounted(v) PROVE FALSE
    BY <1>0, <1>3 DEF Uncounted
  <1> QED
    BY <1>1, <1>2, <1>3, ActiveMoves DEF UnmarkRefused, UnmarkEdit, UnmarkGenerated

\* A workflow nobody entered early stays so backwards, and one becomes early inside only
\* while its creation is in a gap.
LEMMA EarlyGained ==
    ASSUME Base, [Next]_vars, NEW w \in Workflows
    PROVE  /\ early'[w] = "no" => early[w] = "no"
           /\ early'[w] = "inside" /\ early[w] # "inside" =>
                 \E c \in Clients : target[c] = w /\ Preparing(c)
  <1>0. early \in [Workflows -> {"no", "inside", "was"}]  BY DEF Base, TypeOK
  <1>1. ASSUME NEW c \in Clients, Unlock(c)
        PROVE  (early'[w] = "no" => early[w] = "no") /\ (early'[w] = "inside" => early[w] = "inside")
    BY <1>0, <1>1 DEF Unlock
  <1>2. ASSUME NEW c \in Clients, CheckActive(c)
        PROVE  /\ early'[w] = "no" => early[w] = "no"
               /\ early'[w] = "inside" => early[w] = "inside" \/ Exposed(w)
    BY <1>0, <1>2 DEF CheckActive
  <1>3. Exposed(w) => \E c \in Clients : target[c] = w /\ Preparing(c)
    BY DEF Exposed, Preparing, Base, Requests, CreatePcs
  <1> QED  BY <1>1, <1>2, <1>3, EarlyMoves

LEMMA DirectoriesStep ==
    ASSUME Base, Guard, [Next]_vars
    PROVE  Directories'
  <1> USE DEF Guard
  <1>0. /\ born \subseteq Workflows /\ deleted \subseteq Workflows /\ born \subseteq born'
        /\ \A c \in Clients : op[c] \in Locked => target[c] \in Workflows
    <2>1. born \subseteq born'
      BY RequestMoves DEF Base, MakeDirectory, Enter, Creates, Inside, Acquire, Unlock, Leave
    <2> QED  BY <2>1, RequestTypes DEF Base, TypeOK
  <1>1. ASSUME NEW c \in Clients, pc'[c] \in OnDisk, early'[target'[c]] # "inside"
        PROVE  target'[c] \in dirs'
    <2>1. pc'[c] \in Checked
      BY <1>1 DEF OnDisk, Checked, Holding, LockedPcs, EditPcs
    <2>2. /\ op[c] \in Locked /\ pc[c] \in Holding /\ target'[c] = target[c]
          /\ pc[c] \in OnDisk \/ target[c] \in dirs
      BY <1>1, <2>1, InsideMoves
    <2>3. early[target[c]] # "inside" /\ ~Exposed(target[c])
      BY <1>1, <2>1, <2>2, ToItself
    <2> PICK w \in Workflows : w = target[c]
      BY <1>0, <2>2
    <2>4. w \in dirs  BY <2>2, <2>3 DEF Directories
    <2>5. ASSUME NEW d \in Clients, target[d] = w, Discard(d) PROVE FALSE
      BY <2>3, <2>5 DEF Discard, Exposed
    <2>6. ASSUME NEW d \in Clients, target[d] = w, RemoveFiles(d) PROVE FALSE
      <3>1. d = c
        BY <2>2, <2>6, Alone DEF RemoveFiles, Holding, LockedPcs
      <3>2. pc'[c] = "unlock"
        BY <2>6, <3>1, RequestTypes DEF RemoveFiles, Go, Base
      <3> QED  BY <1>1, <3>2 DEF OnDisk
    <2> QED  BY <2>2, <2>4, <2>5, <2>6, DirectoryLost
  <1>2. ASSUME NEW w \in deleted'
        PROVE  /\ w \in born' /\ w \notin dirs' /\ ~Marked(w)' /\ early'[w] # "inside"
               /\ \A c \in Clients : target'[c] = w => ~Preparing(c)'
    <2>1. CASE w \in deleted
      <3>1. /\ w \in Workflows /\ w \in born /\ w \notin dirs /\ ~Marked(w) /\ early[w] # "inside"
            /\ \A c \in Clients : target[c] = w => ~Preparing(c)
        BY <1>0, <2>1 DEF Directories
      <3>2. w \notin dirs'  BY <3>1, DirectoryGained
      <3>3. ~Marked(w)'
        <4>1. ~Exposed(w)  BY <3>1 DEF Exposed, Preparing, Base, Requests, CreatePcs
        <4> QED  BY <3>1, <4>1, MarkGained
      <3>4. early'[w] # "inside"  BY <3>1, EarlyGained
      <3>5. \A c \in Clients : target'[c] = w => ~Preparing(c)'
        BY <3>1, PreparingMoves DEF Base
      <3> QED  BY <1>0, <3>1, <3>2, <3>3, <3>4, <3>5
    <2>2. CASE w \notin deleted
      <3>1. PICK c \in Clients : RemoveFiles(c)
        BY <1>2, <2>2, DeleteMoves
      <3>2. /\ w = target[c] /\ w \notin dirs' /\ early[w] # "inside"
            /\ UNCHANGED <<queue, work, wpc, early, target, op, born>>
        BY <1>2, <2>2, <3>1 DEF RemoveFiles, Go
      <3>3. pc[c] \in Checked /\ op[c] \in Locked
        BY <3>1, RequestTypes DEF RemoveFiles, Checked, Holding, LockedPcs, Base
      <3>4. w \in Workflows /\ w \in born /\ ~Marked(w) /\ ~Exposed(w)
        BY <1>0, <3>2, <3>3 DEF Marking, Guarded, Base, Requests, Locked
      <3>5. ~Marked(w)'
        BY <3>4, MarkGained
      <3>6. \A d \in Clients : target[d] = w => ~Preparing(d)
        <4> SUFFICES ASSUME NEW d \in Clients, target[d] = w, Preparing(d) PROVE FALSE  OBVIOUS
        <4>1. pc[d] \in CreatePcs \ {"register"}  BY DEF Preparing, Base, Requests
        <4>2. pc[d] # "pending"  BY <3>2, <3>3 DEF Acquainted
        <4>3. pc[d] \notin {"mark", "discard"}  BY <3>4 DEF Exposed
        <4>4. pc[d] \notin MarkPcs  BY <3>4 DEF Marked, AtMark
        <4> QED  BY <4>1, <4>2, <4>3, <4>4 DEF CreatePcs, MarkPcs
      <3>7. \A d \in Clients : target'[d] = w => ~Preparing(d)'
        BY <3>4, <3>6, PreparingMoves DEF Base
      <3> QED  BY <3>2, <3>4, <3>5, <3>7
    <2> QED  BY <2>1, <2>2
  <1>3. ASSUME NEW w \in Workflows, answered'[w] = "refused", early'[w] = "no"
        PROVE  w \notin dirs' /\ active'[w] = 0 /\ ~InFlight(w)'
    <2>0. early[w] = "no"  BY <1>3, EarlyGained
    <2>1. CASE answered[w] = "refused"
      <3>1. w \notin dirs /\ active[w] = 0 /\ ~InFlight(w) /\ w \in born
        BY <2>0, <2>1 DEF Directories, Base, Requests
      <3>2. \A c \in Clients : target[c] = w => ~Preparing(c)
        BY <2>1 DEF Preparing, Base, Requests
      <3> QED  BY <2>0, <2>1, <3>1, <3>2, DirectoryGained, CountGained, FlightGained
    <2>2. CASE answered[w] # "refused"
      <3>1. PICK c \in Clients : target[c] = w /\ Discard(c)
        BY <1>3, <2>2, AnsweredMoves
      <3>2. pc[c] = "discard" /\ dirs' = dirs \ {w} /\ UNCHANGED <<active, queue, work>>
        BY <3>1 DEF Discard, Discarded
      <3>3. /\ answered[w] = "none" /\ ~InFlight(w)
            /\ \A d \in Clients : d # c /\ target[d] = w => pc[d] \notin MarkPcs
        BY <3>1, <3>2, CreatorAlone DEF CreatePcs, LockedPcs, EditPcs, MarkPcs
      <3>4. ~Marked(w)
        BY <3>1, <3>2, <3>3 DEF Marked, Generated, AtMark, InFlight, MarkPcs
      <3>5. Exposed(w)  BY <3>1, <3>2 DEF Exposed
      <3>6. ~Editor(w)
        BY <2>0, <3>5 DEF Editor, Marking, Guarded, Checked, Holding, LockedPcs, EditPcs
      <3>7. active[w] = 0
        BY <3>3, <3>4, <3>6 DEF Marking, MarkingOf, Edits
      <3>8. ~InFlight(w)'
        BY <3>2, <3>3 DEF InFlight, Queued
      <3> QED  BY <3>2, <3>7, <3>8
    <2> QED  BY <2>1, <2>2
  <1> QED  BY <1>1, <1>2, <1>3 DEF Directories

-----------------------------------------------------------------------------
(* The properties.                                                         *)

LEMMA GuardInvariance == Spec => [](Base /\ Guard)
  <1>1. Init => Guard
    <2> SUFFICES ASSUME Init PROVE Guard  OBVIOUS
    <2> USE GateAssumption DEF Init
    <2>1. Acquainted  BY DEF Acquainted, Locked
    <2>2. \A w : ~Queued(w) /\ ~AtMark(w) /\ ~Editor(w)
      BY DEF Queued, AtMark, MarkPcs, Editor
    <2>3. \A w \in Workflows : ~Marked(w)
      BY <2>2 DEF Marked, Generated
    <2>4. Marking
      BY <2>2, <2>3 DEF Marking, MarkingOf, Edits, Guarded, Checked, Holding, LockedPcs, EditPcs
    <2>5. Directories
      BY DEF Directories, OnDisk
    <2> QED  BY <2>1, <2>4, <2>5 DEF Guard
  <1>2. Base /\ Guard /\ [Next]_vars => Guard'
    BY AcquaintedStep, MarkingStep, DirectoriesStep DEF Guard
  <1> QED  BY <1>1, <1>2, BaseInvariance, PTL DEF Spec

\* One thread at a time works on a design, be it a generation of the pool or a request inside
\* the lock of the design, and nothing writes a design again once its DELETE has succeeded.
\* A request that entered in a gap of create_design may work beside the generation it did not
\* see, nothing else beside them, and only its own DELETE may be undone
\* (_workflow_operation, _submit_background, delete_design, create_design).
THEOREM DesignsStayGuarded == Spec => []DesignsAreGuarded
  <1>1. ASSUME Base, Guard PROVE OneWriter
    <2> SUFFICES ASSUME NEW w \in Workflows
                 PROVE  Cardinality(Editing(w)) + Cardinality(Generating(w))
                            <= IF early[w] = "inside" THEN 2 ELSE 1
      BY DEF OneWriter
    <2>1. \A c, d \in Editing(w) : c = d
      BY <1>1, Alone DEF Editing, Bodies, Holding, LockedPcs, EditPcs
    <2>2. \A j, k \in Generating(w) : j = k
      BY <1>1, GateAssumption DEF Base, Futures, Generating
    <2>3. early[w] = "inside" \/ Editing(w) = {} \/ Generating(w) = {}
      <3> SUFFICES ASSUME early[w] # "inside", NEW c \in Editing(w), NEW k \in Generating(w)
                   PROVE  FALSE
        OBVIOUS
      <3>1. Marked(w)  BY DEF Generating, Marked, Generated
      <3>2. ~Marked(w)
        BY <1>1 DEF Editing, Bodies, Guard, Marking, Guarded, Checked, Holding, LockedPcs, EditPcs
      <3> QED  BY <3>1, <3>2
    <2>4. ASSUME NEW S, \A x, y \in S : x = y
          PROVE  S # {} => Cardinality(S) = 1
      <3> SUFFICES ASSUME NEW x \in S PROVE Cardinality(S) = 1  OBVIOUS
      <3>1. S = {x}  BY <2>4
      <3> QED  BY <3>1, FS_Singleton
    <2>5. Cardinality({}) = 0  BY FS_EmptySet
    <2> HIDE DEF Editing, Generating
    <2>6. Cardinality(Editing(w)) = IF Editing(w) = {} THEN 0 ELSE 1  BY <2>1, <2>4, <2>5
    <2>7. Cardinality(Generating(w)) = IF Generating(w) = {} THEN 0 ELSE 1  BY <2>2, <2>4, <2>5
    <2> QED  BY <2>3, <2>6, <2>7
  <1>2. Base /\ Guard => DesignsAreGuarded
    BY <1>1 DEF DesignsAreGuarded, DeletedStaysDeleted, Guard, Directories
  <1> QED  BY <1>2, GuardInvariance, PTL

\* A quiet service is as it started, also when clients act on designs whose creation is still
\* running: every permit and slot is back, no workflow is counted as active or has a lock,
\* unless its creation raised, and a refused creation leaves no directory, unless a request
\* entered in its gap (create_design, _submit_background, edit_design, _workflow_operation).
THEOREM QuietServiceIsClean == Spec => []NothingLeaks
  <1>1. ASSUME Base, Guard PROVE QuietMeansReleased
    <2> SUFFICES ASSUME NEW w \in Workflows, Quiet(w)
                 PROVE  /\ active[w] = 0 \/ answered[w] = "raised"
                        /\ lockOf[w] = None /\ users[w] = 0
      BY DEF QuietMeansReleased
    <2>1. ~Marked(w) /\ ~Editor(w)
      BY DEF Quiet, Marked, Editor, InFlight, Generated, AtMark
    <2>2. active[w] = 0 \/ answered[w] = "raised"
      BY <1>1, <2>1 DEF Guard, Marking, MarkingOf, Edits
    <2>3. Users(w) = {}
      BY DEF Quiet, Users
    <2>4. lockOf[w] = None /\ users[w] = 0
      BY <1>1, <2>3, FS_EmptySet DEF Base, LockMap, Entries
    <2> QED  BY <2>2, <2>4
  <1>2. ASSUME Base, Guard PROVE RefusedLeavesNoOrphan
    BY <1>2 DEF Guard, Directories, RefusedLeavesNoOrphan
  <1>3. Base /\ Guard => NothingLeaks
    BY <1>1, <1>2 DEF NothingLeaks, Base, Counts
  <1> QED  BY <1>3, GuardInvariance, PTL
=============================================================================
