------------------------- MODULE VectorOutboxProofs -------------------------
(***************************************************************************)
(* What the service notes down beside a design, and has to find again.     *)
(*                                                                         *)
(* For any number of request threads and workers, any number of writes and *)
(* any number of errors, deaths and stops, the outbox of VectorOutbox says *)
(* succeeded only of a projection of the rows as they are, and no rebuild  *)
(* publishes over a newer one.                                             *)
(*                                                                         *)
(* For any number of emitting threads, torn writes, failed fsyncs and      *)
(* deaths, and however a browser follows the workflow, the journal of      *)
(* EventJournal keeps its numbers in order and what it acknowledged.       *)
(***************************************************************************)
EXTENDS VectorOutbox, EventPolling, FiniteSetTheorems, SequenceTheorems, TLAPS

\* A thread in the middle of a reconciliation.
Inside(t) == thread[t].at \in {"read", "build", "settle", "mark"}

\* Who is inside holds the lock, so there is one; until it is through nobody
\* else marks the operation succeeded.
Exclusive ==
    \A t \in Threads : Inside(t) => reconcileLock = t /\ outbox.status # "succeeded"

\* Nobody is inside while the process is dead.
Dormant == up \/ \A t \in Threads : ~Inside(t)

\* What the thread inside knows of the rows, the claim and the projection.
Knowledge ==
    \A t \in Threads :
        /\ thread[t].of <= rows
        /\ thread[t].at \in {"build", "settle", "mark"} /\ outbox.status = "attempt"
               => outbox.of = thread[t].of
        /\ thread[t].at = "build" => index.of <= thread[t].of
        /\ thread[t].at = "settle" => index = [of |-> thread[t].of, intact |-> TRUE]

Counted == rows <= requests /\ index.of <= rows

Core == Exclusive /\ Knowledge /\ SucceededMeansCurrent /\ ClaimHasOwner

IInv == TypeOK /\ Counted /\ Dormant /\ Core

-----------------------------------------------------------------------------

(* What After and Moved do to the step of a thread.                        *)
LEMMA AfterStep ==
    ASSUME OutboxAssumption, TypeOK, NEW t \in Threads, NEW r
    PROVE  /\ After(t, r) \in [Threads -> [at : Steps, of : 0 .. MaxRequests]]
           /\ After(t, r)[t].at \in {"look", "backoff", "leave", "idle", "schedule"}
           /\ After(t, r)[t].of = 0
           /\ \A u \in Threads \ {t} : After(t, r)[u] = thread[u]
BY DEF After, TypeOK, Steps, OutboxAssumption

LEMMA MovedStep ==
    ASSUME OutboxAssumption, TypeOK, NEW t \in Threads, NEW s \in Steps
    PROVE  /\ Moved(t, s) \in [Threads -> [at : Steps, of : 0 .. MaxRequests]]
           /\ Moved(t, s)[t] = [at |-> s, of |-> thread[t].of]
           /\ \A u \in Threads \ {t} : Moved(t, s)[u] = thread[u]
BY DEF Moved, TypeOK

\* No step of a thread outside, and none of the start or the end, touches what
\* a reconciliation relies on.
LEMMA Outside ==
    ASSUME OutboxAssumption, TypeOK, TypeOK', Core,
           UNCHANGED <<rows, outbox, index, reconcileLock, up, stranded>>,
           \A u \in Threads : \/ thread'[u] = thread[u]
                             \/ /\ ~Inside(u) /\ ~Inside(u)'
                                /\ thread'[u].of <= rows
    PROVE  Core'
<1>1. Exclusive'
  BY DEF Core, Exclusive, Inside
<1>2. Knowledge'
  BY DEF Core, Knowledge, Inside, TypeOK
<1>3. SucceededMeansCurrent' /\ ClaimHasOwner'
  BY DEF Core, SucceededMeansCurrent, ClaimHasOwner, Inside
<1> QED BY <1>1, <1>2, <1>3 DEF Core

(* Every step keeps the types, and the index behind the rows.              *)
LEMMA Typed ==
    ASSUME OutboxAssumption, TypeOK, Counted, Knowledge, [Next]_vars
    PROVE  TypeOK' /\ Counted'
<1> USE OutboxAssumption DEF Moved, After, Threads, Steps, TypeOK
<1>3. ASSUME NEW t \in Callers, NEW keeps \in BOOLEAN, Change(t, keeps)
      PROVE  TypeOK' /\ Counted'
  <2>1. rows' \in 0 .. MaxRequests /\ rows' = rows + 1 /\ requests' = requests + 1
    BY <1>3 DEF Change, Request, TypeOK, Counted
  <2>2. thread' \in [Threads -> [at : Steps, of : 0 .. MaxRequests]]
    BY <1>3 DEF Change, Threads, Steps
  <2>3. outbox' \in [status : Statuses, of : 0 .. MaxRequests]
    BY <1>3, <2>1 DEF Change, Enqueued, Statuses
  <2>4. writeLock' \in Callers \cup {Nobody}
    BY <1>3 DEF Change
  <2>5. requests' \in 0 .. MaxRequests /\ Counted'
    BY <1>3, <2>1 DEF Change, Request, Counted
  <2> QED BY <1>3, <2>1, <2>2, <2>3, <2>4, <2>5 DEF Change
<1>4. ASSUME NEW t \in Callers, Reindex(t) \/ Start(t)
      PROVE  TypeOK' /\ Counted'
  <2>1. thread' \in [Threads -> [at : Steps, of : 0 .. MaxRequests]]
    BY <1>4 DEF Reindex, Start, Threads, Steps
  <2>2. CASE Reindex(t)
    <3>1. outbox' \in [status : Statuses, of : 0 .. MaxRequests]
      BY <2>2 DEF Reindex, Enqueued, Statuses
    <3>2. requests' \in 0 .. MaxRequests /\ Counted'
      BY <2>2 DEF Reindex, Request, Counted
    <3> QED BY <2>1, <2>2, <3>1, <3>2 DEF Reindex
  <2>3. CASE Start(t)
    BY <2>1, <2>3 DEF Start, Counted, bounds
  <2> QED BY <1>4, <2>2, <2>3
<1>12. CASE Restart
  <2>1. thread' \in [Threads -> [at : Steps, of : 0 .. MaxRequests]]
        /\ handle' \in Workers \cup {Nobody}
    BY <1>12 DEF Restart, Threads, Steps
  <2>2. outbox' \in [status : Statuses, of : 0 .. MaxRequests]
    BY <1>12 DEF Restart, Recovered, Marked, Statuses
  <2> QED BY <1>12, <2>1, <2>2 DEF Restart, Counted, bounds
<1>5. ASSUME NEW t \in Threads, Schedule(t) \/ Spawn(t)
      PROVE  TypeOK' /\ Counted'
  <2>1. thread' \in [Threads -> [at : Steps, of : 0 .. MaxRequests]]
    BY <1>5 DEF Schedule, Spawn, Done, Idle, Threads, Steps, TypeOK
  <2> QED BY <1>5, <2>1 DEF Schedule, Spawn, Done, TypeOK, Counted, Threads, bounds, history
<1>6. ASSUME NEW t \in Threads, Claim(t) \/ Read(t) \/ MarkFailed(t) \/ Settle(t)
      PROVE  TypeOK' /\ Counted'
  <2>1. thread' \in [Threads -> [at : Steps, of : 0 .. MaxRequests]]
    BY <1>6 DEF Claim, Read, MarkFailed, Settle, Steps, TypeOK
  <2> QED BY <1>6, <2>1 DEF Claim, Read, MarkFailed, Settle, FailedBy, SettledBy, Enqueued,
                            Marked, Owned, TypeOK, Counted, Statuses, bounds, history
<1>7. ASSUME NEW t \in Threads, Build(t) \/ BuildRaises(t)
      PROVE  TypeOK' /\ Counted'
  <2>1. thread' \in [Threads -> [at : Steps, of : 0 .. MaxRequests]]
    BY <1>7 DEF Build, BuildRaises, Steps
  <2>2. index' \in [of : 0 .. MaxRequests, intact : BOOLEAN]
    <3>1. [of |-> thread[t].of, intact |-> TRUE] \in [of : 0 .. MaxRequests, intact : BOOLEAN]
      OBVIOUS
    <3>2. [of |-> thread[t].of, intact |-> FALSE] \in [of : 0 .. MaxRequests, intact : BOOLEAN]
      OBVIOUS
    <3>3. index' \in {index, [of |-> thread[t].of, intact |-> TRUE],
                      [of |-> thread[t].of, intact |-> FALSE]}
      BY <1>7 DEF Build, BuildRaises
    <3> QED BY <3>1, <3>2, <3>3
  <2>3. index'.of <= rows
    <3>1. thread[t].of <= rows /\ index.of <= rows
      BY DEF Counted, Knowledge
    <3> QED BY <1>7, <3>1 DEF Build, BuildRaises
  <2>4. troubles' \in 0 .. MaxTroubles
    BY <1>7 DEF Build, BuildRaises, Trouble, bounds
  <2>5. UNCHANGED <<rows, outbox, writeLock, reconcileLock, handle, stopping, up, stranded,
                    unattended, requests>>
    BY <1>7 DEF Build, BuildRaises, bounds, history
  <2> QED BY <2>1, <2>2, <2>3, <2>4, <2>5 DEF Counted
<1>13. ASSUME NEW t \in Threads, ScheduleRaises(t) \/ LookRaises(t)
       PROVE  TypeOK' /\ Counted'
  <2>1. thread' \in [Threads -> [at : Steps, of : 0 .. MaxRequests]]
    BY <1>13 DEF ScheduleRaises, LookRaises, Done, Idle, Steps
  <2>2. troubles' \in 0 .. MaxTroubles
    BY <1>13 DEF ScheduleRaises, LookRaises, Trouble
  <2>3. stranded' \in BOOLEAN /\ unattended' \in BOOLEAN
    BY <1>13 DEF ScheduleRaises, LookRaises, history
  <2>4. writeLock' \in Callers \cup {Nobody}
    BY <1>13 DEF ScheduleRaises, LookRaises, Done
  <2>5. UNCHANGED <<rows, outbox, index, reconcileLock, handle, stopping, up, requests>>
    BY <1>13 DEF ScheduleRaises, LookRaises
  <2> QED BY <2>1, <2>2, <2>3, <2>4, <2>5 DEF Counted
<1>14. ASSUME NEW t \in Threads, DatabaseRaises(t)
       PROVE  TypeOK' /\ Counted'
  <2>1. thread' \in [Threads -> [at : Steps, of : 0 .. MaxRequests]]
    BY <1>14 DEF DatabaseRaises, Steps
  <2>2. outbox' \in [status : Statuses, of : 0 .. MaxRequests]
    BY <1>14 DEF DatabaseRaises, FailedBy, SettledBy, Enqueued, Marked, Owned, Statuses
  <2>3. troubles' \in 0 .. MaxTroubles
    BY <1>14 DEF DatabaseRaises, Trouble
  <2>4. stranded' \in BOOLEAN /\ unattended' \in BOOLEAN /\ reconcileLock' = Nobody
    BY <1>14 DEF DatabaseRaises
  <2>5. UNCHANGED <<rows, index, writeLock, handle, stopping, up, requests>>
    BY <1>14 DEF DatabaseRaises
  <2> QED BY <2>1, <2>2, <2>3, <2>4, <2>5 DEF Counted
<1>8. ASSUME NEW t \in Threads, Loop(t) \/ Look(t) \/ Backoff(t) \/ Leave(t) \/ Left(t)
      PROVE  TypeOK' /\ Counted'
  <2>1. thread' \in [Threads -> [at : Steps, of : 0 .. MaxRequests]]
    BY <1>8 DEF Loop, Look, Backoff, Leave, Left, Steps
  <2> QED BY <1>8, <2>1 DEF Loop, Look, Backoff, Leave, Left, memory, bounds, history, TypeOK,
                       Counted
<1>9. CASE Close
  BY <1>9 DEF Close, Trouble, Counted, history
<1>11. CASE Die
  <2>1. thread' \in [Threads -> [at : Steps, of : 0 .. MaxRequests]]
    BY <1>11 DEF Die, Idle
  <2>2. troubles' \in 0 .. MaxTroubles
    BY <1>11 DEF Die, Trouble
  <2> QED BY <1>11, <2>1, <2>2 DEF Die, Counted, history
<1>10. CASE UNCHANGED vars
  BY <1>10 DEF vars, TypeOK, Counted
<1> QED BY <1>3, <1>4, <1>5, <1>6, <1>7, <1>8, <1>9, <1>10, <1>11, <1>12, <1>13, <1>14
      DEF Next, Step, WriteSummary, Purge

LEMMA DormantNext ==
    ASSUME Dormant, [Next]_vars
    PROVE  Dormant'
<1>1. CASE Die
  BY <1>1 DEF Die, Dormant, Inside, Idle
<1>2. CASE Close \/ UNCHANGED vars
  BY <1>2 DEF Close, vars, Dormant, Inside
<1>3. CASE Restart \/ \E t \in Callers : WriteSummary(t) \/ Purge(t) \/ Reindex(t) \/ Start(t)
  BY <1>3 DEF WriteSummary, Purge, Change, Reindex, Start, Restart, At, Dormant
<1>4. CASE \E t \in Threads : \/ Step(t)
                             \/ ScheduleRaises(t) \/ DatabaseRaises(t) \/ BuildRaises(t)
                             \/ LookRaises(t)
  BY <1>4 DEF Step, Schedule, ScheduleRaises, Spawn, Claim, Read, Build, BuildRaises, MarkFailed,
              Settle, DatabaseRaises, Loop, Look, LookRaises, Backoff, Leave, Left, At, memory,
              Dormant
<1> QED BY <1>1, <1>2, <1>3, <1>4 DEF Next

(* Only the thread inside changes the projection or ends the operation.    *)
LEMMA CoreNext ==
    ASSUME OutboxAssumption, IInv, [Next]_vars
    PROVE  Core'
<1> USE OutboxAssumption DEF Core
<1>1. TypeOK /\ TypeOK' /\ Core /\ Counted
  BY Typed DEF IInv
<1>2. ASSUME NEW t \in Callers, NEW keeps \in BOOLEAN, Change(t, keeps)
      PROVE  Core'
  <2>1. /\ outbox'.status = "pending" /\ rows' = rows + 1 /\ up
        /\ index' = index /\ reconcileLock' = reconcileLock
    BY <1>2 DEF Change, Request, Enqueued, At
  <2>2. /\ ~Inside(t) /\ ~Inside(t)'
        /\ thread'[t].of = thread[t].of
        /\ \A u \in Threads \ {t} : thread'[u] = thread[u]
    BY <1>1, <1>2 DEF Change, Moved, At, Inside, TypeOK, Threads
  <2>3. Exclusive' /\ SucceededMeansCurrent' /\ ClaimHasOwner'
    BY <1>1, <2>1, <2>2 DEF Exclusive, SucceededMeansCurrent, ClaimHasOwner, Inside, Threads
  <2>4. Knowledge'
    <3>1. \A u \in Threads : thread[u].of <= rows + 1
      BY <1>1 DEF Knowledge, TypeOK
    <3> QED BY <1>1, <2>1, <2>2, <3>1 DEF Knowledge, Inside, Threads
  <2> QED BY <2>3, <2>4
<1>3. ASSUME NEW t \in Callers, Reindex(t)
      PROVE  Core'
  <2>1. outbox'.status = "pending" /\ UNCHANGED <<rows, index, reconcileLock>>
    BY <1>3 DEF Reindex, Enqueued
  <2>2. /\ ~Inside(t) /\ ~Inside(t)'
        /\ thread'[t].of = thread[t].of
        /\ \A u \in Threads \ {t} : thread'[u] = thread[u]
    BY <1>1, <1>3 DEF Reindex, Moved, At, Inside, TypeOK, Threads
  <2> QED BY <1>1, <2>1, <2>2
        DEF Exclusive, Knowledge, SucceededMeansCurrent, ClaimHasOwner, Inside, Threads
<1>4. ASSUME NEW t \in Threads,
             \/ t \in Callers /\ Start(t)
             \/ Schedule(t) \/ ScheduleRaises(t) \/ Spawn(t)
             \/ Loop(t) \/ Look(t) \/ LookRaises(t) \/ Backoff(t) \/ Leave(t) \/ Left(t)
      PROVE  Core'
  <2>1. UNCHANGED <<rows, outbox, index, reconcileLock, up, stranded>>
    BY <1>4 DEF Start, Schedule, ScheduleRaises, Spawn, Loop, Look, LookRaises, Backoff, Leave,
                Left, memory, history
  <2>2. \A u \in Threads : \/ thread'[u] = thread[u]
                           \/ /\ ~Inside(u) /\ ~Inside(u)'
                              /\ thread'[u].of <= rows
    <3>1. \A u \in Threads : thread[u].of <= rows
      BY <1>1 DEF Knowledge
    <3>2. 0 <= rows
      BY <1>1 DEF TypeOK
    <3>3. CASE Spawn(t)
      BY <1>1, <3>1, <3>2, <3>3 DEF Spawn, Done, Idle, At, Inside, TypeOK, Threads
    <3>4. CASE Schedule(t) \/ ScheduleRaises(t)
      BY <1>1, <3>1, <3>2, <3>4
         DEF Schedule, ScheduleRaises, Done, Idle, Moved, At, Inside, TypeOK
    <3> QED BY <1>1, <1>4, <3>1, <3>3, <3>4
          DEF Start, Loop, Look, LookRaises, Backoff, Leave, Left, Moved, At, Inside, TypeOK
  <2> QED BY <1>1, <2>1, <2>2, Outside
<1>5. ASSUME NEW t \in Threads, Claim(t)
      PROVE  Core'
  <2>1. CASE ~Reconcilable
    <3>1. /\ UNCHANGED <<rows, outbox, index, reconcileLock, up, stranded>>
          /\ thread' = After(t, "idle")
      BY <1>5, <2>1 DEF Claim, history
    <3>2. 0 <= rows
      BY <1>1 DEF TypeOK
    <3>3. ~Inside(t) /\ ~Inside(t)' /\ thread'[t].of <= rows
      BY <1>1, <1>5, <3>1, <3>2, AfterStep DEF Claim, At, Inside
    <3>4. \A u \in Threads \ {t} : thread'[u] = thread[u]
      BY <1>1, <3>1, AfterStep
    <3> QED BY <1>1, <3>1, <3>3, <3>4, Outside
  <2>2. CASE Reconcilable
    <3>1. /\ outbox' = Marked("attempt") /\ reconcileLock' = t /\ reconcileLock = Nobody
          /\ UNCHANGED <<rows, index, up, stranded>>
      BY <1>5, <2>2 DEF Claim, history
    <3>2. /\ thread'[t] = [at |-> "read", of |-> thread[t].of]
          /\ \A u \in Threads \ {t} : thread'[u] = thread[u]
      BY <1>1, <1>5, <2>2 DEF Claim, Moved, TypeOK, Reconcilable
    <3>3. \A u \in Threads : ~Inside(u)
      BY <1>1, <3>1 DEF Exclusive, Threads, OutboxAssumption
    <3> QED BY <1>1, <3>1, <3>2, <3>3
          DEF Marked, Exclusive, Knowledge, SucceededMeansCurrent, ClaimHasOwner, Inside
  <2> QED BY <2>1, <2>2
<1>6. ASSUME NEW t \in Threads,
             \/ Read(t) \/ Build(t) \/ BuildRaises(t) \/ MarkFailed(t) \/ Settle(t)
             \/ DatabaseRaises(t) /\ Inside(t)
      PROVE  Core'
  <2>1. Inside(t) /\ reconcileLock = t /\ up /\ UNCHANGED <<rows, up>>
    BY <1>1, <1>6 DEF Read, Build, BuildRaises, MarkFailed, Settle, DatabaseRaises, At, Inside,
                      Exclusive
  <2>2. \A u \in Threads \ {t} : ~Inside(u)
    BY <1>1, <2>1 DEF Exclusive
  <2>3. \A u \in Threads \ {t} : thread'[u] = thread[u] /\ thread[u].of <= rows
    BY <1>1, <1>6, AfterStep
       DEF Read, Build, BuildRaises, MarkFailed, Settle, DatabaseRaises, Moved, TypeOK, Knowledge
  <2>4. \A u \in Threads \ {t} : ~Inside(u)'
    BY <2>2, <2>3 DEF Inside
  <2>5. thread[t].of <= rows /\ index.of <= rows /\ 0 <= rows /\ rows <= rows
    BY <1>1 DEF Knowledge, Counted, TypeOK
  <2>6. CASE Read(t)
    <3>1. CASE outbox.status = "attempt"
      <4>1. /\ outbox' = [status |-> "attempt", of |-> rows]
            /\ thread'[t] = [at |-> "build", of |-> rows]
            /\ UNCHANGED <<rows, index, reconcileLock, stranded>>
        BY <1>1, <2>6, <3>1 DEF Read, TypeOK, history
      <4> QED BY <2>1, <2>3, <2>4, <2>5, <4>1
            DEF Exclusive, Knowledge, SucceededMeansCurrent, ClaimHasOwner, Inside
    <3>2. CASE outbox.status # "attempt"
      <4>1. /\ thread' = After(t, "pending") /\ UNCHANGED <<rows, outbox, index>>
        BY <2>6, <3>2 DEF Read
      <4>2. ~Inside(t)' /\ thread'[t].of = 0
        BY <1>1, <4>1, AfterStep DEF Inside
      <4> QED BY <1>1, <2>1, <2>3, <2>4, <2>5, <3>2, <4>1, <4>2
            DEF Exclusive, Knowledge, SucceededMeansCurrent, ClaimHasOwner, Inside
    <3> QED BY <3>1, <3>2
  <2>7. CASE DatabaseRaises(t)
    <3>1. /\ UNCHANGED <<rows, index>> /\ stranded' = (outbox'.status = "attempt")
          /\ ~Inside(t)' /\ thread'[t].of = thread[t].of
      BY <1>1, <2>7 DEF DatabaseRaises, Moved, Inside, TypeOK
    <3>2. outbox'.status = "succeeded" => index = [of |-> rows, intact |-> TRUE]
      <4>1. outbox.status # "succeeded"
        BY <1>1, <2>1 DEF Exclusive
      <4>2. CASE outbox' \in {outbox, FailedBy(t)}
        BY <4>1, <4>2 DEF FailedBy, Marked
      <4>3. CASE At(t, "settle") /\ outbox' = SettledBy(t)
        BY <1>1, <4>1, <4>3 DEF SettledBy, Enqueued, Marked, Knowledge, At
      <4> QED BY <2>7, <4>2, <4>3 DEF DatabaseRaises
    <3> QED BY <1>1, <2>3, <2>4, <2>5, <3>1, <3>2
          DEF Exclusive, Knowledge, SucceededMeansCurrent, ClaimHasOwner, Inside
  <2>8. CASE Build(t)
    <3>1. /\ UNCHANGED <<rows, outbox, reconcileLock, stranded>>
          /\ index' = [of |-> thread[t].of, intact |-> TRUE]
          /\ thread'[t] = [at |-> "settle", of |-> thread[t].of] /\ thread[t].at = "build"
      BY <1>1, <2>8 DEF Build, Moved, TypeOK, At, history
    <3>2. Exclusive' /\ ClaimHasOwner' /\ SucceededMeansCurrent'
      BY <1>1, <2>1, <2>4, <3>1 DEF Exclusive, SucceededMeansCurrent, ClaimHasOwner, Inside
    <3>3. /\ index'.of = thread[t].of
          /\ outbox.status = "attempt" => outbox.of = thread[t].of
      BY <1>1, <3>1 DEF Knowledge
    <3>4. \A u \in Threads \ {t} : /\ thread'[u].of <= rows
                                   /\ thread'[u].at \notin {"build", "settle", "mark"}
      BY <2>3, <2>4 DEF Inside
    <3>5. thread'[t].of = thread[t].of /\ thread'[t].at = "settle"
      BY <3>1
    <3>6. Knowledge'
      BY <2>5, <3>1, <3>3, <3>4, <3>5 DEF Knowledge
    <3> QED BY <3>2, <3>6
  <2>9. CASE BuildRaises(t)
    <3>1. /\ UNCHANGED <<rows, outbox, reconcileLock, stranded>>
          /\ thread'[t] = [at |-> "mark", of |-> thread[t].of] /\ thread[t].at = "build"
      BY <1>1, <2>9 DEF BuildRaises, Moved, TypeOK, At, history
    <3> QED BY <1>1, <2>1, <2>3, <2>4, <2>5, <3>1
          DEF Exclusive, Knowledge, SucceededMeansCurrent, ClaimHasOwner, Inside
  <2>10. CASE MarkFailed(t)
    <3>1. /\ UNCHANGED <<rows, index, stranded>>
          /\ outbox'.status \notin {"attempt", "succeeded"}
      BY <1>1, <2>1, <2>10 DEF MarkFailed, FailedBy, Marked, Owned, Exclusive, Knowledge, At,
                                   history
    <3>2. ~Inside(t)' /\ thread'[t].of = 0
      BY <1>1, <2>10, AfterStep DEF MarkFailed, Inside
    <3> QED BY <1>1, <2>3, <2>4, <2>5, <3>1, <3>2
          DEF Exclusive, Knowledge, SucceededMeansCurrent, ClaimHasOwner, Inside
  <2>11. CASE Settle(t)
    <3>1. /\ UNCHANGED <<rows, index, stranded>> /\ outbox'.status # "attempt"
          /\ outbox'.status = "succeeded" => rows = thread[t].of
      BY <1>1, <2>1, <2>11
         DEF Settle, SettledBy, Marked, Owned, Enqueued, Exclusive, Knowledge, At, history
    <3>2. ~Inside(t)' /\ thread'[t].of = 0
      BY <1>1, <2>11, AfterStep DEF Settle, Inside
    <3>3. index = [of |-> thread[t].of, intact |-> TRUE]
      BY <1>1, <2>11 DEF Settle, At, Knowledge
    <3> QED BY <1>1, <2>3, <2>4, <2>5, <3>1, <3>2, <3>3
          DEF Exclusive, Knowledge, SucceededMeansCurrent, ClaimHasOwner, Inside
  <2> QED BY <1>6, <2>6, <2>7, <2>8, <2>9, <2>10, <2>11
<1>7. CASE Close
  <2>1. UNCHANGED <<rows, outbox, index, reconcileLock, up, stranded, thread>>
    BY <1>7 DEF Close, history
  <2> QED BY <1>1, <2>1, Outside
<1>8. CASE Die
  <2>1. UNCHANGED <<rows, outbox, index, stranded>> /\ ~up'
        /\ \A u \in Threads : thread'[u] = [at |-> "idle", of |-> 0]
    BY <1>8 DEF Die, Idle, history
  <2>2. 0 <= rows
    BY <1>1 DEF TypeOK
  <2> QED BY <1>1, <2>1, <2>2
        DEF Exclusive, Knowledge, SucceededMeansCurrent, ClaimHasOwner, Inside
<1>9. CASE Restart
  <2>1. /\ UNCHANGED <<rows, index, reconcileLock>>
        /\ outbox'.status # "attempt"
        /\ outbox'.status = "succeeded" => outbox.status = "succeeded"
    BY <1>9 DEF Restart, Recovered, Marked
  <2>2. \A u \in Threads : ~Inside(u) /\ thread[u].of <= rows /\ 0 <= rows
    BY <1>1, <1>9 DEF IInv, Dormant, Restart, Knowledge, TypeOK
  <2>3. \A u \in Threads : thread'[u] = thread[u] \/ thread'[u] = [at |-> "loop", of |-> 0]
    BY <1>1, <1>9 DEF Restart, TypeOK, Threads
  <2>4. \A u \in Threads : /\ thread'[u].of <= rows
                           /\ thread'[u].at \notin {"read", "build", "settle", "mark"}
    BY <2>2, <2>3 DEF Inside
  <2> QED BY <1>1, <2>1, <2>4
        DEF Exclusive, Knowledge, SucceededMeansCurrent, ClaimHasOwner, Inside
<1>11. ASSUME NEW t \in Threads, DatabaseRaises(t), ~Inside(t)
       PROVE  Core'
  <2>1. At(t, "claim") /\ reconcileLock = Nobody /\ UNCHANGED <<rows, outbox, index, up>>
    BY <1>11 DEF DatabaseRaises, At, Inside
  <2>2. reconcileLock' = Nobody /\ stranded' = (outbox.status = "attempt")
    BY <1>11, <2>1 DEF DatabaseRaises
  <2>3. \A u \in Threads : ~Inside(u)
    BY <1>1, <2>1 DEF Exclusive, Threads, OutboxAssumption
  <2>4. \A u \in Threads : /\ thread'[u].of = thread[u].of
                           /\ thread'[u].at \notin {"read", "build", "settle", "mark"}
    BY <1>1, <1>11, <2>3 DEF DatabaseRaises, Moved, TypeOK, Inside
  <2> QED BY <1>1, <2>1, <2>2, <2>4
        DEF Exclusive, Knowledge, SucceededMeansCurrent, ClaimHasOwner, Inside
<1>10. CASE UNCHANGED vars
  BY <1>1, <1>10, Outside DEF vars
<1> QED BY <1>2, <1>3, <1>4, <1>5, <1>6, <1>7, <1>8, <1>9, <1>10, <1>11
      DEF Next, Step, WriteSummary, Purge, Threads

LEMMA Inductive == IInv /\ [Next]_vars => IInv'
BY Typed, DormantNext, CoreNext, OutboxAssumption DEF IInv, Core

LEMMA Initial == Init => IInv
<1> SUFFICES ASSUME Init PROVE IInv
  OBVIOUS
<1>1. TypeOK /\ Counted
  <2>1. thread \in [Threads -> [at : Steps, of : 0 .. MaxRequests]]
    BY OutboxAssumption DEF Init, Idle, Steps
  <2>2. outbox \in [status : Statuses, of : 0 .. MaxRequests]
    BY OutboxAssumption DEF Init, Statuses
  <2>3. index \in [of : 0 .. MaxRequests, intact : BOOLEAN] /\ index.of = 0
    BY OutboxAssumption DEF Init
  <2>4. /\ rows = 0 /\ requests = 0 /\ troubles = 0
        /\ 0 \in 0 .. MaxRequests /\ 0 \in 0 .. MaxTroubles
    BY OutboxAssumption DEF Init
  <2>5. Counted
    BY <2>3, <2>4 DEF Counted
  <2> QED BY <2>1, <2>2, <2>3, <2>4, <2>5 DEF Init, TypeOK
<1>2. Dormant /\ Core
  BY DEF Init, Dormant, Core, Exclusive, Knowledge, SucceededMeansCurrent, ClaimHasOwner,
         Inside, Idle
<1> QED BY <1>1, <1>2 DEF IInv

THEOREM Invariance == Spec => []IInv
BY Initial, Inductive, PTL DEF Spec

(* Every value of the state is of its type, and so the bookkeeping of the  *)
(* threads stays within the steps of the code.                             *)
THEOREM TypeCorrect == Spec => []TypeOK
BY Invariance, PTL DEF IInv

(* The outbox says succeeded only of a complete projection of the rows.    *)
THEOREM SucceededIsCurrent == Spec => []SucceededMeansCurrent
BY Invariance, PTL DEF IInv, Core

(* A claimed operation has a thread, or a database error has dropped it.   *)
THEOREM ClaimIsOwned == Spec => []ClaimHasOwner
BY Invariance, PTL DEF IInv, Core

(* All of what the outbox says is true: its types, its successes and its   *)
(* claims.                                                                 *)
THEOREM OutboxIsSafe == Spec => []OutboxSafe
<1>1. IInv => OutboxSafe
  BY DEF IInv, Core, OutboxSafe
<1> QED BY <1>1, Invariance, PTL

LEMMA IndexMovesOn == IInv /\ [Next]_vars => index'.of >= index.of
<1> SUFFICES ASSUME IInv, [Next]_vars PROVE index'.of >= index.of
  OBVIOUS
<1>1. index.of \in Nat /\ \A t \in Threads : thread[t].of \in Nat
  BY OutboxAssumption DEF IInv, TypeOK
<1>2. CASE UNCHANGED index
  BY <1>1, <1>2
<1>3. ASSUME NEW t \in Threads, Build(t) \/ BuildRaises(t)
      PROVE  index'.of >= index.of
  <2>1. index.of <= thread[t].of
    BY <1>3 DEF IInv, Core, Knowledge, Build, BuildRaises, At
  <2>2. index'.of = thread[t].of \/ index' = index
    BY <1>3 DEF Build, BuildRaises
  <2> QED BY <1>1, <2>1, <2>2
<1>4. (\E t \in Threads : Build(t) \/ BuildRaises(t)) \/ UNCHANGED index
  BY DEF Next, vars, Step, WriteSummary, Purge, Change, Reindex, Start, Restart, Schedule,
         ScheduleRaises, Spawn, Claim, Read, MarkFailed, Settle, DatabaseRaises, Loop, Look,
         LookRaises, Backoff, Leave, Left, Close, Die, memory
<1> QED BY <1>2, <1>3, <1>4

(* No rebuild publishes over the projection of newer rows.                 *)
THEOREM ProjectionMovesOn == Spec => ProjectionNeverGoesBack
<1>1. IInv /\ [Next]_vars => [index'.of >= index.of]_vars
  BY IndexMovesOn
<1> QED BY <1>1, Invariance, PTL DEF Spec, ProjectionNeverGoesBack

-----------------------------------------------------------------------------
(* The journal of one workflow.                                            *)

\* Every event has a number the process could have given it, and a number the cache holds is
\* passed by a readable record only after a failed fsync or on the line still open.
NumbersAreRecent ==
    /\ Len(lines) <= emitted
    /\ \A i \in DOMAIN lines : lines[i].event <= emitted /\ lines[i].seq <= emitted
    /\ cache # Unknown =>
          /\ cache <= emitted
          /\ \A i \in Parsed :
                \/ lines[i].seq <= cache
                \/ lines[i].seq = cache + 1 /\ (unsynced > 0 \/ (open /\ i = Len(lines)))

Lost == told \ {lines[i].event : i \in Parsed}

\* The line still open holds no acknowledged event, and pays for the one that may be lost on it.
LossIsPaid ==
    /\ open => lines[Len(lines)].event \notin told
    /\ Cardinality(Lost) + (IF open THEN 1 ELSE 0) <= tears

JournalInvariant ==
    /\ JournalTypeOK /\ active \in BOOLEAN
    /\ NumbersAreRecent /\ SequencesOrdered /\ LossIsPaid

\* A set of numbers below a bound has a greatest one: the sequence number a restart derives
\* from the file is the number of a line of it (_last_persisted_sequence).
LEMMA GreatestNumber ==
    ASSUME NEW n \in Nat, NEW T \in SUBSET (0..n), T # {}
    PROVE  Max(T) \in T /\ \A k \in T : k <= Max(T)
<1> DEFINE U == {j \in 0..n : \E k \in T : j <= k}
<1>1. IsFiniteSet(U) /\ Cardinality(U) \in Nat
  <2>1. IsFiniteSet(0..n)
    BY FS_Interval
  <2>2. U \in SUBSET (0..n)
    OBVIOUS
  <2>3. IsFiniteSet(U)
    BY <2>1, <2>2, FS_Subset
  <2> QED
    BY <2>3, FS_CardinalityType
<1>2. PICK k0 \in T : TRUE
  OBVIOUS
<1>3. 0 \in U /\ T \subseteq U
  BY <1>2
<1> DEFINE m == Cardinality(U) - 1
<1>4. \A j \in U : j <= m
  <2>1. SUFFICES ASSUME NEW j \in U PROVE j <= m
    OBVIOUS
  <2>2. j \in Nat /\ 0..j \in SUBSET U
    BY <2>1
  <2>3. Cardinality(0..j) = j + 1
    BY <2>2, FS_Interval
  <2>4. Cardinality(0..j) <= Cardinality(U)
    BY <1>1, <2>2, FS_Subset
  <2> QED
    BY <1>1, <2>2, <2>3, <2>4
<1>5. m \in Nat
  <2> HIDE DEF U
  <2>1. 0 <= m
    BY <1>3, <1>4
  <2> QED
    BY <1>1, <2>1
<1>6. m \in U
  <2> HIDE DEF U
  <2>1. U \in SUBSET (0..m)
    BY <1>4, <1>5 DEF U
  <2>2. IsFiniteSet(0..m) /\ Cardinality(0..m) = m + 1
    BY <1>5, FS_Interval
  <2>3. Cardinality(0..m) = Cardinality(U)
    BY <1>1, <2>2
  <2>4. 0..m = U
    BY <2>1, <2>2, <2>3, FS_Subset
  <2>5. m \in 0..m
    BY <1>5
  <2> QED
    BY <2>4, <2>5
<1>7. m \in T /\ \A k \in T : k <= m
  BY <1>3, <1>4, <1>5, <1>6
<1>8. \E x \in T : \A y \in T : x >= y
  BY <1>5, <1>7
<1> QED
  BY <1>8 DEF Max

\* The number the next record follows: no readable record has a greater one, but the one a
\* failed fsync wrote (EventLogService.append).
LEMMA NextNumberIsFresh ==
    ASSUME JournalInvariant
    PROVE  /\ LastSequence \in 0..emitted
           /\ \A i \in Parsed :
                 \/ lines[i].seq <= LastSequence
                 \/ lines[i].seq = LastSequence + 1 /\ (unsynced > 0 \/ (open /\ i = Len(lines)))
<1> USE JournalAssumption
<1>1. emitted \in Nat /\ Parsed \in SUBSET DOMAIN lines /\ lines \in Seq(Line)
  BY DEF JournalInvariant, JournalTypeOK, Parsed
<1>2. \A i \in DOMAIN lines : lines[i].seq \in 1..emitted
  <2>1. SUFFICES ASSUME NEW i \in DOMAIN lines PROVE lines[i].seq \in 1..emitted
    OBVIOUS
  <2>2. lines[i] \in Line
    BY <1>1, <2>1
  <2>3. lines[i].seq \in Nat /\ lines[i].seq >= 1
    BY <2>2 DEF JournalAssumption, Line
  <2> QED
    BY <1>1, <2>1, <2>3 DEF JournalInvariant, NumbersAreRecent
<1>3. CASE cache = Unknown
  <2> DEFINE T == {0} \cup {lines[i].seq : i \in Parsed}
  <2>1. T \in SUBSET (0..emitted) /\ T # {}
    BY <1>1, <1>2
  <2>2. Max(T) \in T /\ \A k \in T : k <= Max(T)
    BY <1>1, <2>1, GreatestNumber
  <2>3. LastSequence = Max(T)
    BY <1>3 DEF LastSequence, LastPersisted
  <2> QED
    BY <2>1, <2>2, <2>3
<1>4. CASE cache # Unknown
  <2>1. LastSequence = cache /\ cache \in Nat
    BY <1>4 DEF LastSequence, JournalInvariant, JournalTypeOK
  <2> QED
    BY <1>4, <1>1, <2>1 DEF JournalInvariant, NumbersAreRecent
<1> QED
  BY <1>3, <1>4

\* What a write leaves of the file: the line that was open no longer parses, or a new last
\* line has the next number; the others are as they were (EventLogService.append).
LEMMA WrittenLine ==
    ASSUME JournalInvariant, emitted < MaxEvents,
           NEW tag \in Tags, NEW parses \in BOOLEAN, NEW ends \in BOOLEAN,
           Write(tag, parses, ends)
    PROVE  /\ lines' \in Seq(Line) /\ Len(lines') <= emitted' /\ lines' # <<>>
           /\ emitted' = emitted + 1 /\ open' = ~ends
           /\ open => /\ Len(lines') = Len(lines)
                      /\ Parsed' = Parsed \ {Len(lines)}
                      /\ \A i \in DOMAIN lines : /\ lines'[i].event = lines[i].event
                                                 /\ lines'[i].seq = lines[i].seq
           /\ ~open => /\ Len(lines') = Len(lines) + 1
                       /\ Parsed' = Parsed \cup (IF parses THEN {Len(lines) + 1} ELSE {})
                       /\ \A i \in DOMAIN lines : lines'[i] = lines[i]
                       /\ lines'[Len(lines) + 1].event = emitted + 1
                       /\ lines'[Len(lines) + 1].seq = LastSequence + 1
<1> DEFINE n == Len(lines)
<1>1. /\ lines \in Seq(Line) /\ n \in Nat /\ n <= emitted /\ emitted \in 0..MaxEvents
      /\ open \in BOOLEAN /\ (open => lines # <<>>) /\ MaxEvents \in Nat
  BY JournalAssumption DEF JournalAssumption, JournalInvariant, JournalTypeOK, NumbersAreRecent
<1>2. DOMAIN lines = 1..n /\ \A i \in 1..n : lines[i] \in Line
  BY <1>1
<1>3. emitted' = emitted + 1 /\ open' = ~ends
  BY DEF Write, LeftOpen
<1>4. CASE open
  <2> DEFINE last == [lines[n] EXCEPT !.parses = FALSE]
  <2>1. n \in 1..n
    BY <1>1, <1>4
  <2>2. lines' = [lines EXCEPT ![n] = last]
    BY <1>4 DEF Write
  <2>3. last \in Line /\ last.event = lines[n].event /\ last.seq = lines[n].seq /\ ~last.parses
    BY <1>2, <2>1 DEF Line
  <2> HIDE DEF last
  <2>4. /\ lines' \in Seq(Line) /\ Len(lines') = n
        /\ \A i \in 1..n : lines'[i] = IF i = n THEN last ELSE lines[i]
    BY <1>1, <2>1, <2>2, <2>3, ExceptSeq
  <2>5. DOMAIN lines' = 1..n
    BY <2>4
  <2>6. Parsed' = Parsed \ {n}
    BY <1>2, <2>1, <2>3, <2>4, <2>5 DEF Parsed
  <2>7. \A i \in DOMAIN lines : lines'[i].event = lines[i].event /\ lines'[i].seq = lines[i].seq
    BY <1>2, <2>3, <2>4
  <2>8. Len(lines') <= emitted' /\ lines' # <<>>
    BY <1>1, <1>3, <2>1, <2>4, SMTT(30)
  <2> QED
    BY <1>3, <1>4, <2>4, <2>6, <2>7, <2>8
<1>5. CASE ~open
  <2> DEFINE new == [event |-> emitted + 1, seq |-> LastSequence + 1,
                     parses |-> parses, tag |-> tag]
  <2>1. lines' = Append(lines, new)
    BY <1>5 DEF Write
  <2>2. LastSequence \in 0..emitted
    BY NextNumberIsFresh
  <2>3. new \in Line /\ new.event = emitted + 1 /\ new.seq = LastSequence + 1
        /\ new.parses = parses
    BY <1>1, <2>2 DEF Line
  <2> HIDE DEF new
  <2>4. /\ lines' \in Seq(Line) /\ Len(lines') = n + 1
        /\ \A i \in 1..n : lines'[i] = lines[i]
        /\ lines'[n + 1] = new
    BY <1>1, <2>1, <2>3
  <2>5. DOMAIN lines' = 1..(n + 1)
    BY <2>4
  <2>6. Parsed' = Parsed \cup (IF parses THEN {n + 1} ELSE {})
    BY <1>1, <1>2, <2>3, <2>4, <2>5 DEF Parsed
  <2>7. Len(lines') <= emitted' /\ lines' # <<>>
    BY <1>1, <1>3, <2>4
  <2> QED
    BY <1>2, <1>3, <1>5, <2>3, <2>4, <2>6, <2>7
<1> QED
  BY <1>1, <1>4, <1>5

\* A record is written after those with smaller numbers: a number is used twice only after a
\* failed fsync, and on a line the next write spoils (EventLogService.append).
LEMMA WriteKeepsNumbers ==
    ASSUME JournalInvariant, emitted < MaxEvents,
           NEW tag \in Tags, NEW parses \in BOOLEAN, NEW ends \in BOOLEAN,
           Write(tag, parses, ends), unsynced' \in Nat, unsynced <= unsynced'
    PROVE  /\ SequencesOrdered'
           /\ \A i \in DOMAIN lines' :
                 lines'[i].event <= emitted' /\ lines'[i].seq <= emitted'
           /\ \A i \in Parsed' :
                 \/ lines'[i].seq <= LastSequence
                 \/ /\ lines'[i].seq = LastSequence + 1
                    /\ unsynced > 0 \/ (~open /\ i = Len(lines'))
<1> DEFINE n == Len(lines)
<1>1. /\ lines \in Seq(Line) /\ n \in Nat /\ emitted \in 0..MaxEvents
      /\ open \in BOOLEAN /\ (open => lines # <<>>) /\ MaxEvents \in Nat /\ unsynced \in Nat
  BY JournalAssumption DEF JournalAssumption, JournalInvariant, JournalTypeOK
<1>2. /\ DOMAIN lines = 1..n
      /\ \A i \in 1..n : lines[i].seq \in Nat /\ lines[i].event \in Nat
                         /\ lines[i].seq <= emitted /\ lines[i].event <= emitted
  <2>1. DOMAIN lines = 1..n
    BY <1>1
  <2>2. \A i \in 1..n : lines[i] \in Line
    BY <1>1
  <2>3. \A i \in 1..n : lines[i].event <= emitted /\ lines[i].seq <= emitted
    BY <2>1 DEF JournalInvariant, NumbersAreRecent
  <2>4. \A i \in 1..n : lines[i].seq \in Nat /\ lines[i].event \in Nat
    <3>1. SUFFICES ASSUME NEW i \in 1..n PROVE lines[i].seq \in Nat /\ lines[i].event \in Nat
      OBVIOUS
    <3>2. lines[i] \in Line
      BY <2>2
    <3> QED
      BY <1>1, <3>2 DEF Line
  <2> QED
    BY <2>1, <2>3, <2>4
<1>3. /\ LastSequence \in 0..emitted
      /\ \A i \in Parsed :
            \/ lines[i].seq <= LastSequence
            \/ lines[i].seq = LastSequence + 1 /\ (unsynced > 0 \/ (open /\ i = Len(lines)))
  BY NextNumberIsFresh
<1>4. Parsed \in SUBSET (1..n)
  BY <1>2 DEF Parsed
<1>5. \A i, j \in Parsed : i < j =>
         \/ lines[i].seq < lines[j].seq
         \/ unsynced > 0 /\ lines[i].seq = lines[j].seq
  BY DEF JournalInvariant, SequencesOrdered
<1>6. lines' \in Seq(Line) /\ emitted' = emitted + 1
  BY WrittenLine
<1>7. CASE open
  <2>0. /\ Len(lines') = n /\ Parsed' = Parsed \ {n}
        /\ \A i \in DOMAIN lines : /\ lines'[i].event = lines[i].event
                                   /\ lines'[i].seq = lines[i].seq
    BY <1>7, WrittenLine
  <2>1. /\ Len(lines') = n /\ Parsed' = Parsed \ {n} /\ n \in 1..n
        /\ \A i \in 1..n : lines'[i].event = lines[i].event /\ lines'[i].seq = lines[i].seq
    BY <1>1, <1>2, <1>7, <2>0
  <2>2. DOMAIN lines' = 1..n
    BY <1>6, <2>1
  <2>3. \A i, j \in Parsed' : i < j =>
           \/ lines'[i].seq < lines'[j].seq
           \/ unsynced' > 0 /\ lines'[i].seq = lines'[j].seq
    <3>1. SUFFICES ASSUME NEW i \in Parsed', NEW j \in Parsed', i < j
                   PROVE  \/ lines'[i].seq < lines'[j].seq
                          \/ unsynced' > 0 /\ lines'[i].seq = lines'[j].seq
      OBVIOUS
    <3>2. i \in Parsed /\ j \in Parsed /\ i \in 1..n /\ j \in 1..n
      BY <1>4, <2>1, <3>1
    <3>3. lines[i].seq < lines[j].seq \/ (unsynced > 0 /\ lines[i].seq = lines[j].seq)
      BY <1>5, <3>1, <3>2
    <3>4. lines'[i].seq = lines[i].seq /\ lines'[j].seq = lines[j].seq
      BY <2>1, <3>2
    <3> QED
      BY <1>1, <3>3, <3>4
  <2>4. \A i \in DOMAIN lines' : lines'[i].event <= emitted' /\ lines'[i].seq <= emitted'
    BY <1>1, <1>2, <1>6, <2>1, <2>2
  <2>5. \A i \in Parsed' : \/ lines'[i].seq <= LastSequence
                           \/ lines'[i].seq = LastSequence + 1 /\ unsynced > 0
    BY <1>3, <1>4, <2>1
  <2> QED
    BY <2>3, <2>4, <2>5 DEF SequencesOrdered
<1>8. CASE ~open
  <2>1. /\ Len(lines') = n + 1
        /\ Parsed' \subseteq Parsed \cup {n + 1}
        /\ \A i \in 1..n : lines'[i] = lines[i]
        /\ lines'[n + 1].event = emitted + 1
        /\ lines'[n + 1].seq = LastSequence + 1
    BY <1>2, <1>8, WrittenLine
  <2>2. DOMAIN lines' = 1..(n + 1)
    BY <1>1, <1>6, <2>1
  <2>3. \A i \in Parsed :
           \/ lines[i].seq <= LastSequence
           \/ unsynced > 0 /\ lines[i].seq = LastSequence + 1
    BY <1>3, <1>8
  <2>4. \A i, j \in Parsed' : i < j =>
           \/ lines'[i].seq < lines'[j].seq
           \/ unsynced' > 0 /\ lines'[i].seq = lines'[j].seq
    <3>1. SUFFICES ASSUME NEW i \in Parsed', NEW j \in Parsed', i < j
                   PROVE  \/ lines'[i].seq < lines'[j].seq
                          \/ unsynced' > 0 /\ lines'[i].seq = lines'[j].seq
      OBVIOUS
    <3>2. i \in Parsed /\ i \in 1..n
      BY <1>1, <1>4, <2>1, <3>1
    <3>3. CASE j \in Parsed
      <4>1. j \in 1..n /\ lines'[i] = lines[i] /\ lines'[j] = lines[j]
        BY <1>4, <2>1, <3>2, <3>3
      <4>2. lines[i].seq < lines[j].seq \/ (unsynced > 0 /\ lines[i].seq = lines[j].seq)
        BY <1>5, <3>1, <3>2, <3>3
      <4> QED
        BY <1>1, <4>1, <4>2
    <3>4. CASE j = n + 1
      <4>1. lines'[i] = lines[i] /\ lines'[j].seq = LastSequence + 1 /\ lines[i].seq \in Nat
        BY <1>2, <2>1, <3>2, <3>4
      <4>2. \/ lines[i].seq <= LastSequence
            \/ unsynced > 0 /\ lines[i].seq = LastSequence + 1
        BY <2>3, <3>2
      <4> QED
        BY <1>1, <1>3, <4>1, <4>2
    <3> QED
      BY <2>1, <3>3, <3>4
  <2>5. \A i \in DOMAIN lines' : lines'[i].event <= emitted' /\ lines'[i].seq <= emitted'
    BY <1>1, <1>2, <1>3, <1>6, <2>1, <2>2
  <2>6. \A i \in Parsed' :
           \/ lines'[i].seq <= LastSequence
           \/ lines'[i].seq = LastSequence + 1 /\ (unsynced > 0 \/ i = Len(lines'))
    BY <1>3, <1>4, <1>8, <2>1
  <2> QED
    BY <1>8, <2>4, <2>5, <2>6 DEF SequencesOrdered
<1> QED
  BY <1>1, <1>7, <1>8

\* A write loses no acknowledged event: the line it spoils was never answered for, and a line
\* it opens is not either (EventLogService.append).
LEMMA WriteLosesNothingTold ==
    ASSUME JournalInvariant, emitted < MaxEvents,
           NEW tag \in Tags, NEW parses \in BOOLEAN, NEW ends \in BOOLEAN,
           Write(tag, parses, ends)
    PROVE  /\ told \ {lines'[i].event : i \in Parsed'} \subseteq Lost
           /\ lines'[Len(lines')].event \notin told
           /\ ~open /\ parses => emitted + 1 \in {lines'[i].event : i \in Parsed'}
<1> DEFINE n == Len(lines)
<1>1. /\ lines \in Seq(Line) /\ n \in Nat /\ emitted \in Nat /\ told \subseteq 1..emitted
      /\ open \in BOOLEAN /\ (open => lines # <<>>)
  BY JournalAssumption DEF JournalAssumption, JournalInvariant, JournalTypeOK
<1>2. DOMAIN lines = 1..n /\ Parsed \in SUBSET (1..n)
  BY <1>1 DEF Parsed
<1>3. CASE open
  <2>1. /\ Len(lines') = n /\ Parsed' = Parsed \ {n} /\ n \in 1..n
        /\ \A i \in 1..n : lines'[i].event = lines[i].event
    BY <1>1, <1>2, <1>3, WrittenLine, SMTT(30)
  <2>2. lines[n].event \notin told
    BY <1>3 DEF JournalInvariant, LossIsPaid
  <2>3. told \ {lines'[i].event : i \in Parsed'} \subseteq Lost
    BY <1>2, <2>1, <2>2 DEF Lost
  <2> QED
    BY <1>3, <2>1, <2>2, <2>3
<1>4. CASE ~open
  <2>1. /\ Len(lines') = n + 1
        /\ Parsed' = Parsed \cup (IF parses THEN {n + 1} ELSE {})
        /\ \A i \in 1..n : lines'[i] = lines[i]
        /\ lines'[n + 1].event = emitted + 1
    BY <1>2, <1>4, WrittenLine
  <2>2. told \ {lines'[i].event : i \in Parsed'} \subseteq Lost
    BY <1>2, <2>1 DEF Lost
  <2>3. parses => emitted + 1 \in {lines'[i].event : i \in Parsed'}
    <3>1. SUFFICES ASSUME parses PROVE emitted + 1 \in {lines'[i].event : i \in Parsed'}
      OBVIOUS
    <3>2. n + 1 \in Parsed'
      BY <2>1, <3>1
    <3> QED
      BY <2>1, <3>2
  <2>4. lines'[Len(lines')].event \notin told
    BY <1>1, <2>1
  <2> QED
    BY <2>2, <2>3, <2>4
<1> QED
  BY <1>1, <1>3, <1>4

\* The acknowledged events that are gone can be counted, and there are as many torn lines.
LEMMA LossIsCounted ==
    ASSUME JournalInvariant
    PROVE  /\ IsFiniteSet(Lost) /\ Cardinality(Lost) \in Nat /\ tears \in Nat
           /\ open => Cardinality(Lost) + 1 <= tears
           /\ Cardinality(Lost) <= tears
<1>1. emitted \in Nat /\ told \in SUBSET (1..emitted) /\ tears \in Nat /\ open \in BOOLEAN
  BY JournalAssumption DEF JournalAssumption, JournalInvariant, JournalTypeOK
<1>2. IsFiniteSet(1..emitted)
  BY <1>1, FS_Interval
<1>3. Lost \in SUBSET (1..emitted)
  BY <1>1 DEF Lost
<1>4. IsFiniteSet(Lost) /\ Cardinality(Lost) \in Nat
  BY <1>2, <1>3, FS_Subset, FS_CardinalityType
<1> QED
  BY <1>1, <1>4 DEF JournalInvariant, LossIsPaid

\* The journal stays sound over an append that returns (EventLogService.append).
LEMMA AppendKeepsJournal ==
    ASSUME JournalInvariant, active' \in BOOLEAN, NEW tag \in Tags, AppendEvent(tag)
    PROVE  JournalInvariant'
<1>1. /\ emitted < MaxEvents /\ Write(tag, TRUE, TRUE)
      /\ cache' = LastSequence + 1 /\ told' = told \cup {emitted + 1}
      /\ tears' = tears /\ unsynced' = unsynced /\ deaths' = deaths
  BY DEF AppendEvent, CachedSequence
<1>2. /\ emitted \in Nat /\ MaxEvents \in Nat /\ emitted <= MaxEvents /\ unsynced \in Nat
      /\ told \subseteq 1..emitted /\ open \in BOOLEAN
      /\ tears \in 0..MaxFaults /\ unsynced \in 0..MaxFaults /\ deaths \in 0..MaxFaults
  BY JournalAssumption DEF JournalAssumption, JournalInvariant, JournalTypeOK
<1>3. LastSequence \in 0..emitted
  BY NextNumberIsFresh
<1>4. /\ lines' \in Seq(Line) /\ Len(lines') <= emitted' /\ lines' # <<>>
      /\ emitted' = emitted + 1 /\ open' = FALSE
  BY <1>1, WrittenLine
<1>5. /\ SequencesOrdered'
      /\ \A i \in DOMAIN lines' : lines'[i].event <= emitted' /\ lines'[i].seq <= emitted'
      /\ \A i \in Parsed' : lines'[i].seq <= LastSequence \/ lines'[i].seq = LastSequence + 1
  <2>1. unsynced' \in Nat /\ unsynced <= unsynced' /\ TRUE \in BOOLEAN
    BY <1>1, <1>2
  <2> QED
    BY <1>1, <2>1, WriteKeepsNumbers
<1>6. JournalTypeOK'
  <2>1. Len(lines') \in Nat /\ Len(lines') <= MaxEvents /\ emitted' \in 0..MaxEvents
    BY <1>1, <1>2, <1>4
  <2>2. told' \subseteq 1..emitted'
    BY <1>1, <1>2, <1>4
  <2>3. cache' \in 0..MaxEvents
    BY <1>1, <1>2, <1>3
  <2> QED
    BY <1>1, <1>2, <1>4, <2>1, <2>2, <2>3 DEF JournalTypeOK
<1>7. NumbersAreRecent'
  <2>1. \A i \in Parsed' : lines'[i].seq <= cache'
    <3>1. SUFFICES ASSUME NEW i \in Parsed' PROVE lines'[i].seq <= cache'
      OBVIOUS
    <3>2. i \in DOMAIN lines'
      BY <3>1 DEF Parsed
    <3>3. lines'[i] \in Line
      BY <1>4, <3>2
    <3>4. lines'[i].seq \in Nat
      BY <1>2, <3>3 DEF Line
    <3> QED
      BY <1>1, <1>3, <1>5, <3>1, <3>4
  <2>2. cache' <= emitted'
    BY <1>1, <1>2, <1>3, <1>4
  <2> QED
    BY <1>4, <1>5, <2>1, <2>2 DEF NumbersAreRecent
<1>8. LossIsPaid'
  <2>1. /\ told \ {lines'[i].event : i \in Parsed'} \subseteq Lost
        /\ ~open => emitted + 1 \in {lines'[i].event : i \in Parsed'}
    BY <1>1, WriteLosesNothingTold
  <2>2. /\ IsFiniteSet(Lost) /\ Cardinality(Lost) \in Nat /\ tears \in Nat
        /\ open => Cardinality(Lost) + 1 <= tears
        /\ Cardinality(Lost) <= tears
    BY LossIsCounted
  <2>3. Cardinality(Lost') \in Nat /\ Cardinality(Lost') <= tears
    <3>1. CASE open
      <4>1. Lost' \in SUBSET (Lost \cup {emitted + 1})
        BY <1>1, <2>1 DEF Lost
      <4>2. /\ IsFiniteSet(Lost \cup {emitted + 1})
            /\ Cardinality(Lost \cup {emitted + 1}) \in Nat
            /\ Cardinality(Lost \cup {emitted + 1}) <= Cardinality(Lost) + 1
        <5>1. /\ IsFiniteSet(Lost \cup {emitted + 1})
              /\ \/ Cardinality(Lost \cup {emitted + 1}) = Cardinality(Lost)
                 \/ Cardinality(Lost \cup {emitted + 1}) = Cardinality(Lost) + 1
          BY <2>2, FS_AddElement
        <5> QED
          BY <2>2, <5>1
      <4>3. /\ Cardinality(Lost') \in Nat
            /\ Cardinality(Lost') <= Cardinality(Lost \cup {emitted + 1})
        BY <4>1, <4>2, FS_Subset, FS_CardinalityType
      <4> QED
        BY <2>2, <3>1, <4>2, <4>3
    <3>2. CASE ~open
      <4>1. Lost' \in SUBSET Lost
        BY <1>1, <2>1, <3>2 DEF Lost
      <4>2. Cardinality(Lost') \in Nat /\ Cardinality(Lost') <= Cardinality(Lost)
        BY <2>2, <4>1, FS_Subset, FS_CardinalityType
      <4> QED
        BY <2>2, <4>2
    <3> QED
      BY <1>2, <3>1, <3>2
  <2> QED
    BY <1>1, <1>4, <2>3 DEF LossIsPaid
<1> QED
  BY <1>5, <1>6, <1>7, <1>8 DEF JournalInvariant

\* A torn line costs nothing that was acknowledged yet, and is paid for at once.
LEMMA TornLineKeepsJournal ==
    ASSUME JournalInvariant, active' \in BOOLEAN, NEW tag \in Tags, TearLine(tag),
           told' = told, unsynced' = unsynced,
           \/ cache' = cache /\ deaths' = deaths
           \/ cache' = Unknown /\ deaths' = deaths + 1 /\ FaultsLeft
    PROVE  JournalInvariant'
<1>1. PICK parses \in BOOLEAN : Write(tag, parses, FALSE)
  BY DEF TearLine
<1>2. emitted < MaxEvents /\ FaultsLeft /\ tears' = tears + 1
  BY DEF TearLine
<1>3. /\ emitted \in Nat /\ MaxEvents \in Nat /\ emitted <= MaxEvents /\ unsynced \in Nat
      /\ told \subseteq 1..emitted /\ open \in BOOLEAN /\ MaxFaults \in Nat
      /\ tears \in 0..MaxFaults /\ unsynced \in 0..MaxFaults /\ deaths \in 0..MaxFaults
      /\ cache \in {Unknown} \cup 0..MaxEvents
  BY JournalAssumption DEF JournalAssumption, JournalInvariant, JournalTypeOK
<1>4. /\ lines' \in Seq(Line) /\ Len(lines') <= emitted' /\ lines' # <<>>
      /\ emitted' = emitted + 1 /\ open' = TRUE
  BY <1>1, <1>2, WrittenLine
<1>5. /\ SequencesOrdered'
      /\ \A i \in DOMAIN lines' : lines'[i].event <= emitted' /\ lines'[i].seq <= emitted'
      /\ \A i \in Parsed' :
            \/ lines'[i].seq <= LastSequence
            \/ /\ lines'[i].seq = LastSequence + 1
               /\ unsynced > 0 \/ (~open /\ i = Len(lines'))
  <2>1. unsynced' \in Nat /\ unsynced <= unsynced' /\ FALSE \in BOOLEAN
    BY <1>3
  <2> QED
    BY <1>1, <1>2, <2>1, WriteKeepsNumbers
<1>6. JournalTypeOK'
  <2>1. Len(lines') \in Nat
    BY <1>4
  <2>2. tears' \in 0..MaxFaults /\ deaths' \in 0..MaxFaults
    BY <1>2, <1>3 DEF FaultsLeft
  <2> QED
    BY <1>2, <1>3, <1>4, <2>1, <2>2 DEF JournalTypeOK
<1>7. NumbersAreRecent'
  <2>1. CASE cache' = Unknown
    BY <1>4, <1>5, <2>1 DEF NumbersAreRecent
  <2>2. CASE cache' # Unknown
    <3>1. cache' = cache /\ LastSequence = cache /\ cache <= emitted /\ cache \in Nat
      BY <1>3, <2>2 DEF LastSequence, JournalInvariant, NumbersAreRecent
    <3>2. \A i \in Parsed' :
             \/ lines'[i].seq <= cache'
             \/ lines'[i].seq = cache' + 1 /\ (unsynced' > 0 \/ (open' /\ i = Len(lines')))
      BY <1>4, <1>5, <3>1
    <3>3. cache' <= emitted'
      BY <1>3, <1>4, <3>1
    <3> QED
      BY <1>4, <1>5, <3>2, <3>3 DEF NumbersAreRecent
  <2> QED
    BY <2>1, <2>2
<1>8. LossIsPaid'
  <2>1. /\ told \ {lines'[i].event : i \in Parsed'} \subseteq Lost
        /\ lines'[Len(lines')].event \notin told
    BY <1>1, <1>2, WriteLosesNothingTold
  <2>2. /\ IsFiniteSet(Lost) /\ Cardinality(Lost) \in Nat /\ tears \in Nat
        /\ Cardinality(Lost) <= tears
    BY LossIsCounted
  <2>3. Lost' \in SUBSET Lost
    BY <2>1 DEF Lost
  <2>4. Cardinality(Lost') \in Nat /\ Cardinality(Lost') <= Cardinality(Lost)
    BY <2>2, <2>3, FS_Subset, FS_CardinalityType
  <2>5. Cardinality(Lost') + (IF open' THEN 1 ELSE 0) <= tears'
    BY <1>2, <1>4, <2>2, <2>4
  <2> QED
    BY <2>1, <2>5 DEF LossIsPaid
<1> QED
  BY <1>5, <1>6, <1>7, <1>8 DEF JournalInvariant

\* A record whose fsync failed, or whose writer died before it could answer, is in the file
\* and was not acknowledged.
LEMMA UnansweredKeepsJournal ==
    ASSUME JournalInvariant, active' \in BOOLEAN, NEW tag \in Tags,
           emitted < MaxEvents, FaultsLeft, Write(tag, TRUE, TRUE),
           told' = told, tears' = tears,
           \/ cache' = cache /\ unsynced' = unsynced + 1 /\ deaths' = deaths
           \/ cache' = Unknown /\ unsynced' = unsynced /\ deaths' = deaths + 1
    PROVE  JournalInvariant'
<1>1. /\ emitted \in Nat /\ MaxEvents \in Nat /\ emitted <= MaxEvents /\ unsynced \in Nat
      /\ told \subseteq 1..emitted /\ open \in BOOLEAN /\ MaxFaults \in Nat
      /\ tears \in 0..MaxFaults /\ unsynced \in 0..MaxFaults /\ deaths \in 0..MaxFaults
      /\ cache \in {Unknown} \cup 0..MaxEvents
  BY JournalAssumption DEF JournalAssumption, JournalInvariant, JournalTypeOK
<1>2. TRUE \in BOOLEAN /\ unsynced' \in Nat /\ unsynced <= unsynced'
  BY <1>1
<1>3. /\ lines' \in Seq(Line) /\ Len(lines') <= emitted' /\ lines' # <<>>
      /\ emitted' = emitted + 1 /\ open' = FALSE
  BY <1>2, WrittenLine
<1>4. /\ SequencesOrdered'
      /\ \A i \in DOMAIN lines' : lines'[i].event <= emitted' /\ lines'[i].seq <= emitted'
      /\ \A i \in Parsed' : lines'[i].seq <= LastSequence \/ lines'[i].seq = LastSequence + 1
  BY <1>2, WriteKeepsNumbers
<1>5. JournalTypeOK'
  <2>1. Len(lines') \in Nat /\ Len(lines') <= MaxEvents /\ emitted' \in 0..MaxEvents
    BY <1>1, <1>3
  <2>2. unsynced' \in 0..MaxFaults /\ deaths' \in 0..MaxFaults
    BY <1>1 DEF FaultsLeft
  <2>3. told' \subseteq 1..emitted' /\ cache' \in {Unknown} \cup 0..MaxEvents
    BY <1>1, <1>3
  <2> QED
    BY <1>1, <1>3, <2>1, <2>2, <2>3 DEF JournalTypeOK
<1>6. NumbersAreRecent'
  <2>1. CASE cache' = Unknown
    BY <1>3, <1>4, <2>1 DEF NumbersAreRecent
  <2>2. CASE cache' # Unknown
    <3>1. /\ cache' = cache /\ LastSequence = cache /\ cache <= emitted /\ cache \in Nat
          /\ unsynced' > 0
      BY <1>1, <2>2 DEF LastSequence, JournalInvariant, NumbersAreRecent
    <3>2. \A i \in Parsed' :
             \/ lines'[i].seq <= cache'
             \/ lines'[i].seq = cache' + 1 /\ (unsynced' > 0 \/ (open' /\ i = Len(lines')))
      BY <1>4, <3>1
    <3>3. cache' <= emitted'
      BY <1>1, <1>3, <3>1
    <3> QED
      BY <1>3, <1>4, <3>2, <3>3 DEF NumbersAreRecent
  <2> QED
    BY <2>1, <2>2
<1>7. LossIsPaid'
  <2>1. told \ {lines'[i].event : i \in Parsed'} \subseteq Lost
    BY <1>2, WriteLosesNothingTold
  <2>2. /\ IsFiniteSet(Lost) /\ Cardinality(Lost) \in Nat /\ tears \in Nat
        /\ Cardinality(Lost) <= tears
    BY LossIsCounted
  <2>3. Lost' \in SUBSET Lost
    BY <2>1 DEF Lost
  <2>4. Cardinality(Lost') \in Nat /\ Cardinality(Lost') <= Cardinality(Lost)
    BY <2>2, <2>3, FS_Subset, FS_CardinalityType
  <2>5. Cardinality(Lost') + (IF open' THEN 1 ELSE 0) <= tears'
    BY <1>3, <2>2, <2>4
  <2> QED
    BY <1>3, <2>5 DEF LossIsPaid
<1> QED
  BY <1>4, <1>5, <1>6, <1>7 DEF JournalInvariant

\* A death between two appends takes the cache and leaves the file.
LEMMA DeathKeepsJournal ==
    ASSUME JournalInvariant, active' \in BOOLEAN, NEW tag \in Tags, ProcessDies(tag)
    PROVE  JournalInvariant'
<1>1. FaultsLeft /\ deaths' = deaths + 1 /\ cache' = Unknown /\ told' = told /\ unsynced' = unsynced
  BY DEF ProcessDies
<1>2. CASE UNCHANGED <<lines, open, emitted, tears>>
  <2>1. lines' = lines /\ open' = open /\ emitted' = emitted /\ tears' = tears
    BY <1>2
  <2>2. Parsed' = Parsed /\ Lost' = Lost
    BY <1>1, <2>1 DEF Parsed, Lost
  <2>3. JournalTypeOK'
    <3>1. deaths' \in 0..MaxFaults
      BY <1>1, JournalAssumption
         DEF JournalAssumption, JournalInvariant, JournalTypeOK, FaultsLeft
    <3> QED
      BY <1>1, <2>1, <3>1 DEF JournalInvariant, JournalTypeOK
  <2>4. NumbersAreRecent'
    BY <1>1, <2>1 DEF JournalInvariant, NumbersAreRecent
  <2>5. SequencesOrdered'
    BY <1>1, <2>1, <2>2 DEF JournalInvariant, SequencesOrdered
  <2>6. LossIsPaid'
    BY <1>1, <2>1, <2>2 DEF JournalInvariant, LossIsPaid
  <2> QED
    BY <2>3, <2>4, <2>5, <2>6 DEF JournalInvariant
<1>3. CASE TearLine(tag)
  BY <1>1, <1>3, TornLineKeepsJournal
<1>4. CASE emitted < MaxEvents /\ Write(tag, TRUE, TRUE) /\ UNCHANGED tears
  BY <1>1, <1>4, UnansweredKeepsJournal
<1> QED
  BY <1>2, <1>3, <1>4 DEF ProcessDies

\* Whatever follows a workflow leaves the journal to those that emit: a step of a browser, of
\* a stream or of a thread past its append does not touch it (workflow_events.py, event_log.py).
LEMMA OnlyEmittersWrite ==
    ASSUME JournalInvariant, FollowNext
    PROVE  /\ active' \in BOOLEAN
           /\ \/ UNCHANGED journal
              \/ \E tag \in Tags : \/ AppendEvent(tag) \/ AppendTorn(tag)
                                   \/ AppendUnsynced(tag) \/ ProcessDies(tag)
<1>1. active \in BOOLEAN /\ \A terminal \in BOOLEAN : Tag(terminal) \in Tags
  BY DEF JournalInvariant, Tag, Tags
<1> DEFINE Goal == /\ active' \in BOOLEAN
                   /\ \/ UNCHANGED journal
                      \/ \E tag \in Tags : \/ AppendEvent(tag) \/ AppendTorn(tag)
                                           \/ AppendUnsynced(tag) \/ ProcessDies(tag)
<1>2. CASE Poll
  BY <1>1, <1>2 DEF Poll, streamVars
<1>3. CASE Server
  <2>1. CASE Activate \/ Deactivate
    BY <2>1 DEF Activate, Deactivate
  <2>2. CASE Crash
    BY <1>1, <2>2 DEF Crash
  <2>3. ASSUME NEW t \in Emitters, EmitterStep(t) PROVE Goal
    BY <1>1, <2>3 DEF EmitterStep, Snapshot, Put, Evict
  <2>4. ASSUME NEW t \in Emitters, NEW terminal \in BOOLEAN, Emit(t, terminal) PROVE Goal
    BY <1>1, <2>4 DEF Emit
  <2>5. ASSUME NEW t \in Emitters, NEW terminal \in BOOLEAN, EmitFails(t, terminal) PROVE Goal
    BY <1>1, <2>5 DEF EmitFails
  <2> QED
    BY <1>3, <2>1, <2>2, <2>3, <2>4, <2>5 DEF Server
<1>4. CASE Browser
  <2>1. UNCHANGED <<journal, active>>
    BY <1>4 DEF Browser, Connect, StreamStep, Disconnect, Replay, Receive, FillGap, TimeOut,
                CheckActive, CatchUp
  <2> QED
    BY <1>1, <2>1
<1> QED
  BY <1>2, <1>3, <1>4 DEF FollowNext

\* The records are numbered in the order of the file, no two readable ones alike unless an
\* fsync failed, and no more acknowledged events are lost than lines were torn: whatever the
\* number of threads, of readers, of torn writes, of failed fsyncs and of restarts, whoever
\* follows the workflow and however (EventLogService.append and emit).
THEOREM JournalStaysSound == FollowSpec => []JournalSound
<1>1. FollowInit => JournalInvariant
  <2>1. SUFFICES ASSUME FollowInit PROVE JournalInvariant
    OBVIOUS
  <2>2. /\ lines = <<>> /\ open = FALSE /\ cache = Unknown /\ emitted = 0 /\ told = {}
        /\ tears = 0 /\ unsynced = 0 /\ deaths = 0 /\ active = FALSE
    BY <2>1 DEF FollowInit, StreamInit, JournalInit
  <2>3. JournalTypeOK
    <3>1. MaxEvents \in Nat /\ MaxFaults \in Nat
      BY JournalAssumption DEF JournalAssumption
    <3>2. lines \in Seq(Line) /\ Len(lines) = 0
      BY <2>2, EmptySeq
    <3>3. told \subseteq 1..emitted
      BY <2>2
    <3>4. 0 \in 0..MaxEvents /\ 0 \in 0..MaxFaults /\ Len(lines) <= MaxEvents
      BY <3>1, <3>2
    <3>5. open = FALSE /\ cache \in {Unknown} \cup 0..MaxEvents
      BY <2>2
    <3> QED
      BY <2>2, <3>2, <3>3, <3>4, <3>5, Zenon DEF JournalTypeOK
  <2>4. Parsed = {} /\ Lost = {}
    BY <2>2 DEF Parsed, Lost
  <2>5. NumbersAreRecent /\ SequencesOrdered
    BY <2>2, <2>4 DEF NumbersAreRecent, SequencesOrdered
  <2>6. LossIsPaid
    BY <2>2, <2>4, FS_EmptySet DEF LossIsPaid
  <2> QED
    BY <2>2, <2>3, <2>5, <2>6 DEF JournalInvariant
<1>2. JournalInvariant /\ [FollowNext]_<<streamVars, polling>> => JournalInvariant'
  <2>1. SUFFICES ASSUME JournalInvariant, [FollowNext]_<<streamVars, polling>>
                 PROVE  JournalInvariant'
    OBVIOUS
  <2>2. /\ active' \in BOOLEAN
        /\ \/ UNCHANGED journal
           \/ \E tag \in Tags : \/ AppendEvent(tag) \/ AppendTorn(tag)
                                \/ AppendUnsynced(tag) \/ ProcessDies(tag)
    <3>1. CASE FollowNext
      BY <2>1, <3>1, OnlyEmittersWrite
    <3>2. CASE UNCHANGED <<streamVars, polling>>
      BY <2>1, <3>2 DEF streamVars, JournalInvariant
    <3> QED
      BY <2>1, <3>1, <3>2
  <2>3. CASE UNCHANGED journal
    <3>1. /\ lines' = lines /\ open' = open /\ emitted' = emitted /\ tears' = tears
          /\ cache' = cache /\ told' = told /\ unsynced' = unsynced /\ deaths' = deaths
      BY <2>3 DEF journal
    <3>2. Parsed' = Parsed /\ Lost' = Lost
      BY <3>1 DEF Parsed, Lost
    <3>3. JournalTypeOK'
      BY <2>1, <3>1 DEF JournalInvariant, JournalTypeOK
    <3>4. NumbersAreRecent'
      BY <2>1, <3>1, <3>2 DEF JournalInvariant, NumbersAreRecent
    <3>5. SequencesOrdered'
      BY <2>1, <3>1, <3>2 DEF JournalInvariant, SequencesOrdered
    <3>6. LossIsPaid'
      BY <2>1, <3>1, <3>2 DEF JournalInvariant, LossIsPaid
    <3> QED
      BY <2>2, <3>3, <3>4, <3>5, <3>6 DEF JournalInvariant
  <2>4. ASSUME NEW tag \in Tags,
               AppendEvent(tag) \/ AppendTorn(tag) \/ AppendUnsynced(tag) \/ ProcessDies(tag)
        PROVE  JournalInvariant'
    <3>1. CASE AppendEvent(tag)
      BY <2>1, <2>2, <3>1, AppendKeepsJournal
    <3>2. CASE AppendTorn(tag)
      BY <2>1, <2>2, <3>2, TornLineKeepsJournal DEF AppendTorn
    <3>3. CASE AppendUnsynced(tag)
      BY <2>1, <2>2, <3>3, UnansweredKeepsJournal DEF AppendUnsynced
    <3>4. CASE ProcessDies(tag)
      BY <2>1, <2>2, <3>4, DeathKeepsJournal
    <3> QED
      BY <2>4, <3>1, <3>2, <3>3, <3>4
  <2> QED
    BY <2>2, <2>3, <2>4
<1>3. JournalInvariant => JournalSound
  <2>1. SUFFICES ASSUME JournalInvariant PROVE JournalSound
    OBVIOUS
  <2>2. LossBounded
    BY <2>1, LossIsCounted DEF Lost, LossBounded
  <2> QED
    BY <2>1, <2>2 DEF JournalInvariant, JournalSound
<1> QED
  BY <1>1, <1>2, <1>3, PTL DEF FollowSpec
=============================================================================
