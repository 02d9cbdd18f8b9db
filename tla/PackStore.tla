----------------------------- MODULE PackStore -----------------------------
(***************************************************************************)
(* DocumentPackService: the directories of imported document packs, their  *)
(* rows in memory, and the lock per pack under which they are read,        *)
(* corrected and deleted. An import takes no lock: nobody is thought to    *)
(* know its pack, yet GET /document-packs lists it once its summary is     *)
(* written.                                                                *)
(*                                                                         *)
(* A file is the number of the revision it was written for, 0 when absent; *)
(* what the documents say is left out.                                     *)
(***************************************************************************)
EXTENDS Integers, FiniteSets

CONSTANTS
    Threads,      \* threads that serve requests
    Packs,        \* packs that can be imported, numbered from 1
    MaxRevision,  \* bound: revisions of a pack, the imported one included
    MaxTroubles   \* bound: failed writes, purges and removals, and deaths

ASSUME PackAssumption ==
    /\ IsFiniteSet(Threads) /\ 0 \notin Threads /\ Packs \subseteq Nat \ {0}
    /\ MaxRevision \in Nat \ {0} /\ MaxTroubles \in Nat

VARIABLES
    dirs,      \* packs with a directory
    file,      \* the files of that directory
    buried,    \* packs with a tombstone
    tomb,      \* the files of the tombstone
    memory,    \* the revision document_pack_memory holds of a pack
    named,     \* pack names given out
    table,     \* _pack_locks: the lock object of a pack, 0 when there is none
    users,     \* _pack_lock_users
    pc, job,   \* each thread's step and request
    key,       \* the lock object a thread took from the table
    troubles,
    torn,      \* history: packs left between two revisions
    lost       \* history: packs gone while something else knew of them

store == <<dirs, file, buried, tomb, memory, named, torn, lost>>
locks == <<table, users>>
flow  == <<pc, job, key>>

None     == 0
Files    == {"index", "spec", "summary", "corrections", "reports"}
Revision == 0 .. MaxRevision
Nothing  == [f \in Files |-> 0]
NoJob    == [kind |-> "none", chat |-> None, pack |-> None, revision |-> 0, then |-> "idle"]

\* What get_summary reads is there.
Whole(d) == d["index"] # 0 /\ d["spec"] # 0 /\ d["summary"] # 0
Known(p) == p \in dirs /\ Whole(file[p])
Agree(d) == \A f \in {"spec", "summary", "reports"} : d[f] = d["corrections"]

\* The steps taken with the lock of the pack held.
Held == {"look", "note", "revise", "bury", "purge", "remove"}
Holds(t) == pc[t] \in Held

Trouble == troubles < MaxTroubles /\ troubles' = troubles + 1

Goto(t, s) == pc' = [pc EXCEPT ![t] = s] /\ UNCHANGED <<job, key>>

\* The lock is released and left, then the thread goes on at s.
LeaveFor(t, s) ==
    /\ pc' = [pc EXCEPT ![t] = "leave"]
    /\ job' = [job EXCEPT ![t].then = s]
    /\ UNCHANGED key

-----------------------------------------------------------------------------
(* _pack_operation.                                                        *)

Keys    == 1 .. Cardinality(Threads)
FreeKey == CHOOSE k \in Keys : \A t \in Threads : key[t] # k

Enter(t) ==
    /\ pc[t] = "enter"
    /\ LET p == job[t].pack
           k == IF table[p] # None THEN table[p] ELSE FreeKey
       IN  /\ table' = [table EXCEPT ![p] = k]
           /\ users' = [users EXCEPT ![p] = @ + 1]
           /\ key' = [key EXCEPT ![t] = k]
    /\ pc' = [pc EXCEPT ![t] = "wait"]
    /\ UNCHANGED <<store, job, troubles>>

Acquire(t) ==
    /\ pc[t] = "wait"
    /\ \A u \in Threads : Holds(u) => key[u] # key[t]
    /\ Goto(t, job[t].then)
    /\ UNCHANGED <<store, locks, troubles>>

\* The object goes with its last user.
Leave(t) ==
    /\ pc[t] = "leave"
    /\ LET p == job[t].pack
       IN  /\ users' = [users EXCEPT ![p] = @ - 1]
           /\ table' = [table EXCEPT ![p] = IF users[p] = 1 THEN None ELSE @]
    /\ key' = [key EXCEPT ![t] = None]
    /\ pc' = [pc EXCEPT ![t] = job[t].then]
    /\ UNCHANGED <<store, job, troubles>>

-----------------------------------------------------------------------------
(* ingest_zip: the graph of nodes, of which write_artifacts and            *)
(* memory_writeback touch what others see.                                 *)

Write(p, files, revision) ==
    /\ dirs' = dirs \cup {p}
    /\ file' = [file EXCEPT ![p] = [f \in Files |-> IF f \in files THEN revision ELSE @[f]]]

\* A write that finds the directory gone makes it again.
Late(p) == lost' = IF p \in dirs THEN lost ELSE lost \cup {p}

\* An archive that cannot be read leaves no directory.
Make(t) ==
    /\ pc[t] = "make"
    /\ \/ \E p \in Packs \ named :
            /\ \A q \in Packs \ named : p <= q
            /\ named' = named \cup {p}
            /\ job' = [job EXCEPT ![t].pack = p] /\ pc' = [pc EXCEPT ![t] = "publish"]
            /\ Write(p, {"index", "spec", "summary"}, 1) /\ UNCHANGED key
       \/ Goto(t, "unmade") /\ UNCHANGED <<dirs, file, named>>
    /\ UNCHANGED <<buried, tomb, memory, torn, lost, locks, troubles>>

Publish(t) ==
    /\ pc[t] = "publish"
    /\ Write(job[t].pack, {"corrections", "reports"}, 1) /\ Late(job[t].pack)
    /\ Goto(t, "remember")
    /\ UNCHANGED <<buried, tomb, memory, named, torn, locks, troubles>>

\* The errors of the memory are caught.
Remember(t) ==
    /\ pc[t] = "remember"
    /\ \/ /\ memory' = [memory EXCEPT ![job[t].pack] = 1] /\ Late(job[t].pack)
          /\ UNCHANGED troubles
       \/ Trouble /\ UNCHANGED <<memory, lost>>
    /\ Goto(t, "report")
    /\ UNCHANGED <<dirs, file, buried, tomb, named, torn, locks>>

\* The outcome is written over the summary and the reports, corrected meanwhile or not.
ReportMemory(t) ==
    /\ pc[t] = "report"
    /\ LET p == job[t].pack
       IN  /\ Write(p, {"summary", "reports"}, 1) /\ Late(p)
           /\ torn' = IF file[p]["corrections"] > 1 THEN torn \cup {p} ELSE torn
    /\ Goto(t, "made")
    /\ UNCHANGED <<buried, tomb, memory, named, locks, troubles>>

\* A failed write removes what there is.
Unmake(t) ==
    /\ pc[t] \in {"publish", "report"} /\ Trouble
    /\ LET p == job[t].pack
       IN  /\ dirs' = dirs \ {p} /\ file' = [file EXCEPT ![p] = Nothing]
           /\ lost' = lost \cup {p}
    /\ Goto(t, "unmade")
    /\ UNCHANGED <<buried, tomb, memory, named, torn, locks>>

-----------------------------------------------------------------------------
(* apply_correction, delete_pack and the readers.                          *)

\* get_summary: the thread goes on at "seen" or at "unseen".
Look(t) ==
    /\ pc[t] = "look"
    /\ LeaveFor(t, IF Known(job[t].pack) THEN "seen" ELSE "unseen")
    /\ UNCHANGED <<store, locks, troubles>>

\* What all corrections so far make of the pack is told to the memory first, whose errors
\* are caught.
Note(t) ==
    /\ pc[t] = "note"
    /\ LET p == job[t].pack
           r == file[p]["corrections"] + 1
       IN  IF Known(p) /\ file[p]["corrections"] # 0 /\ r <= MaxRevision
           THEN /\ pc' = [pc EXCEPT ![t] = "revise"]
                /\ job' = [job EXCEPT ![t].revision = r] /\ UNCHANGED key
                /\ \/ memory' = [memory EXCEPT ![p] = r] /\ UNCHANGED troubles
                   \/ Trouble /\ UNCHANGED memory
           ELSE LeaveFor(t, "done") /\ UNCHANGED <<memory, troubles>>
    /\ UNCHANGED <<dirs, file, buried, tomb, named, torn, lost, locks>>

\* Mutant: the corrections are written after what is made of them.
SpecFirst == <<"spec", "corrections", "summary", "reports">>

\* The order in which a correction replaces the files.
Order == <<"corrections", "spec", "summary", "reports">>

Revise(t) ==
    /\ pc[t] = "revise"
    /\ LET p == job[t].pack
           r == job[t].revision
           left == {i \in DOMAIN Order : file[p][Order[i]] # r}
       IN  \/ /\ left # {}
              /\ LET i == CHOOSE j \in left : \A k \in left : j <= k
                 IN  Write(p, {Order[i]}, r)
              /\ UNCHANGED <<torn, flow, troubles>>
           \/ /\ left # {} /\ Trouble /\ LeaveFor(t, "done")
              /\ torn' = IF Agree(file[p]) THEN torn ELSE torn \cup {p}
              /\ UNCHANGED <<dirs, file>>
           \/ /\ left = {} /\ LeaveFor(t, "done") /\ torn' = torn \ {p}
              /\ UNCHANGED <<dirs, file, troubles>>
    /\ UNCHANGED <<buried, tomb, memory, named, lost, locks>>

\* delete_pack: the directory becomes a tombstone in one step.
Bury(t) ==
    /\ pc[t] = "bury"
    /\ LET p == job[t].pack
       IN  IF p \in dirs
           THEN /\ dirs' = dirs \ {p} /\ file' = [file EXCEPT ![p] = Nothing]
                /\ buried' = buried \cup {p} /\ tomb' = [tomb EXCEPT ![p] = file[p]]
                /\ Goto(t, "purge")
           ELSE LeaveFor(t, "gone") /\ UNCHANGED <<dirs, file, buried, tomb>>
    /\ UNCHANGED <<memory, named, torn, lost, locks, troubles>>

\* What is left of the tombstone becomes the directory again, unless there is one.
Restore(p, rest) ==
    IF p \in dirs
    THEN /\ tomb' = [tomb EXCEPT ![p] = rest] /\ UNCHANGED <<dirs, file, buried, torn>>
    ELSE /\ dirs' = dirs \cup {p} /\ file' = [file EXCEPT ![p] = rest]
         /\ buried' = buried \ {p} /\ tomb' = [tomb EXCEPT ![p] = Nothing]
         /\ torn' = IF Agree(rest) THEN torn ELSE torn \cup {p}

Purge(t) ==
    /\ pc[t] = "purge"
    /\ LET p == job[t].pack
       IN  \/ /\ memory' = [memory EXCEPT ![p] = 0] /\ Goto(t, "remove")
              /\ UNCHANGED <<dirs, file, buried, tomb, torn, troubles>>
           \/ /\ Trouble /\ Restore(p, tomb[p]) /\ LeaveFor(t, "failed")
              /\ UNCHANGED memory
    /\ UNCHANGED <<named, lost, locks>>

\* A removal that fails may have removed some files.
Remove(t) ==
    /\ pc[t] = "remove"
    /\ LET p == job[t].pack
       IN  \/ /\ buried' = buried \ {p} /\ tomb' = [tomb EXCEPT ![p] = Nothing]
              /\ LeaveFor(t, "deleted")
              /\ UNCHANGED <<dirs, file, torn, troubles>>
           \/ /\ Trouble /\ LeaveFor(t, "failed")
              /\ \E kept \in SUBSET Files :
                    Restore(p, [f \in Files |-> IF f \in kept THEN tomb[p][f] ELSE 0])
    /\ UNCHANGED <<memory, named, lost, locks>>

PackStep(t) ==
    \/ Enter(t) \/ Acquire(t) \/ Leave(t) \/ Make(t) \/ Publish(t) \/ Remember(t)
    \/ ReportMemory(t) \/ Unmake(t) \/ Look(t) \/ Note(t) \/ Revise(t) \/ Bury(t)
    \/ Purge(t) \/ Remove(t)

-----------------------------------------------------------------------------

(* One thread at a time reads, corrects or deletes a pack, although lock   *)
(* objects come and go (_pack_operation).                                  *)
OneOperationPerPack ==
    \A t, u \in Threads :
        t # u /\ Holds(t) /\ Holds(u) => job[t].pack # job[u].pack

(* What get_summary reads is of one revision unless a correction died or   *)
(* failed between two files, or the import wrote over it; and even then a  *)
(* file is never newer than the one it is made from (_apply_correction).   *)
RevisionsAgree ==
    \A p \in {q \in Packs : Known(q)} :
        /\ file[p]["corrections"] # 0 =>
              /\ file[p]["spec"] <= file[p]["corrections"]
              /\ file[p]["summary"] <= file[p]["spec"]
              /\ file[p]["reports"] <= file[p]["spec"]
        /\ Agree(file[p]) \/ p \in torn
             \/ \E t \in Threads : job[t].pack = p /\ pc[t] \in {"revise", "publish"}

(* The memory holds nothing of a pack without a directory, unless the      *)
(* process died in the middle of its deletion or the import went on after  *)
(* it (delete_pack, memory_writeback).                                     *)
MemoryFollowsPack ==
    \A p \in Packs :
        memory[p] # 0 => \/ p \in dirs \cup lost
                         \/ \E t \in Threads : job[t].pack = p /\ pc[t] = "purge"
=============================================================================
