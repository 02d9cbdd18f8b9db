--------------------------- MODULE WorkspaceProofs ---------------------------
(***************************************************************************)
(* Theorems of Workspace, for any threads, packs, conversations, designs,  *)
(* requests, errors and deaths.                                            *)
(*                                                                         *)
(* The invariant is built in four parts, each on the ones before: where a  *)
(* request of each kind can be (Flow), the lock objects and who uses them  *)
(* (LockMap), what the files of a directory and of a tombstone are to each *)
(* other (Stored), and what the holder of creation_lock may rely on        *)
(* (Linked).                                                               *)
(***************************************************************************)
EXTENDS Workspace, FiniteSetTheorems, TLAPS

\* Steps: what is done with the lock of the pack, what an import does to its directory.
Firsts  == {"look", "note", "bury"}
Afters  == {"seen", "unseen", "done", "gone", "failed", "deleted"}
Writing == {"publish", "remember", "report"}
Inside  == {"wait", "leave"} \cup Held
Places  == Inside \cup Writing \cup Afters
             \cup {"idle", "enter", "reserve", "make", "made", "unmade", "detach", "claim",
                   "accept", "bind"}
Kinds   == {"none", "upload", "read", "correct", "delete", "create"}

JobSet == [kind : Kinds, chat : Chats \cup {None}, pack : Packs \cup {None}, revision : Nat,
           then : Places]

Moving == pc \in [Threads -> Places] /\ job \in [Threads -> JobSet]

\* The step a thread is at, or is to take with the lock or after it.
Aim(t) == IF pc[t] \in {"enter", "wait", "leave"} THEN job[t].then ELSE pc[t]

\* Where a request of each kind can be, and when it has a pack.
Flow(t) ==
    /\ pc[t] = "idle" <=> job[t].kind = "none"
    /\ pc[t] \in {"enter", "wait"} => job[t].then \in Firsts
    /\ pc[t] = "leave" => job[t].then \in Afters
    /\ pc[t] \in {"reserve", "make", "made", "claim"} \cup Writing => job[t].then = "look"
    /\ pc[t] = "detach" => job[t].then = "bury"
    /\ pc[t] \in {"reserve", "make", "made", "unmade"} \cup Writing => job[t].kind = "upload"
    /\ Aim(t) \in {"note", "revise"} => job[t].kind = "correct"
    /\ pc[t] = "revise" => job[t].revision \in 1 .. MaxRevision
    /\ Aim(t) \in {"detach", "bury", "purge", "remove", "gone", "failed", "deleted"}
          => job[t].kind = "delete"
    /\ pc[t] \in {"claim", "accept", "bind"} => job[t].kind = "create"
    /\ pc[t] = "bind" => job[t].revision \in Designs
    /\ pc[t] = "accept" => job[t].pack = None
    /\ pc[t] = "leave" /\ job[t].then = "done" => job[t].kind = "correct"
    /\ pc[t] \in {"enter", "made"} \cup Inside \cup Writing => job[t].pack \in Packs
    /\ job[t].kind \in {"read", "correct", "delete"} => job[t].pack \in Packs
    /\ job[t].kind = "create" => job[t].chat \in Chats
    /\ job[t].kind = "create" /\ Aim(t) = "seen" => job[t].pack \in Packs
    /\ job[t].kind = "upload" /\ Aim(t) \in {"reserve", "look", "seen", "unseen"}
          => job[t].chat \in Chats
    /\ job[t].kind = "upload" /\ Aim(t) \in {"look", "seen", "unseen"} /\ pc[t] # "reserve"
          => job[t].pack \in Packs

\* Packs are heard of by their names, and each name is given to one import.
HeardPacks == /\ dirs \subseteq named
              /\ \A p \in Packs : p \notin dirs => file[p] = Nothing
              /\ \A p \in Packs : p \notin named => tomb[p] = Nothing
HeardJobs  == \A t \in Threads : job[t].pack \in named \cup {None}
HeardChats == \A c \in Chats : chat[c].pack \in named \cup {None}
Sole       == \A t, u \in Threads :
                 pc[t] \in Writing /\ pc[u] \in Writing /\ job[t].pack = job[u].pack => t = u

Heard == HeardPacks /\ HeardJobs /\ HeardChats /\ Sole

\* The lock objects.
Users(p) == {t \in Threads : pc[t] \in Inside /\ job[t].pack = p}

Entries == \A p \in Packs : /\ users[p] = Cardinality(Users(p))
                            /\ table[p] = None <=> Users(p) = {}
Owners  == \A t \in Threads : key[t] = IF pc[t] \in Inside THEN table[job[t].pack] ELSE None
Apart   == \A p, q \in Packs : table[p] # None /\ table[p] = table[q] => p = q
Alone   == \A t, u \in Threads : Holds(t) /\ Holds(u) /\ key[t] = key[u] => t = u

LockMap == Entries /\ Owners /\ Apart /\ Alone

\* What is made of the corrections is not newer than they are.
Chain(d) ==
    /\ d["index"] <= 1
    /\ d["spec"] # 0 => /\ d["corrections"] # 0 => d["spec"] <= d["corrections"]
                        /\ d["summary"] <= d["spec"] /\ d["reports"] <= d["spec"]

\* One revision, unless somebody is at work on it or left it so.
Settled(p) ==
    p \in dirs /\ file[p]["index"] # 0 /\ file[p]["spec"] # 0
        => Agree(file[p]) \/ p \in torn
           \/ \E t \in Threads : job[t].pack = p /\ pc[t] \in {"revise", "publish"}

\* Before an import writes the corrections nobody can have corrected its pack.
Early(t) ==
    pc[t] = "publish" =>
        LET p == job[t].pack
        IN  /\ \A f \in Files : file[p][f] <= 1 /\ tomb[p][f] <= 1
            /\ file[p]["corrections"] = 0 /\ tomb[p]["corrections"] = 0
            /\ \A u \in Threads : pc[u] = "revise" => job[u].pack # p
            /\ p \in dirs /\ file[p]["index"] # 0 /\ file[p]["spec"] # 0
                  => file[p]["summary"] # 0 \/ p \in torn

Correcting(t) ==
    pc[t] = "revise" => \A f \in Files : file[job[t].pack][f] <= job[t].revision

Deleted(t) == pc[t] \in {"purge", "remove"} => job[t].pack \in buried

Remembered(p) ==
    memory[p] # 0 => \/ p \in dirs \cup lost
                     \/ \E t \in Threads : job[t].pack = p /\ pc[t] = "purge"

AtPack(p) ==
    /\ Chain(file[p]) /\ Chain(tomb[p]) /\ Settled(p) /\ Remembered(p)
    /\ \A t \in Threads : job[t].pack = p => Early(t) /\ Correcting(t) /\ Deleted(t)

Stored == \A p \in Packs : AtPack(p)

\* Who holds creation_lock, and what stays true while it does.
Creating(t) ==
    job[t].kind = "create" /\ pc[t] \notin {"claim", "done"} =>
        owner = t /\ chat[job[t].chat].live /\ chat[job[t].chat].design = None
Deleting(t) ==
    job[t].kind = "delete" /\ pc[t] \notin {"detach", "done"} =>
        /\ owner = t
        /\ \A c \in Chats : chat[c].pack # job[t].pack /\ (job[t].chat = c => chat[c].live)
Found(t) ==
    \/ job[t].kind \in {"create", "delete"} /\ Aim(t) = "seen"
    \/ pc[t] = "bind" /\ job[t].pack # None
    => Known(job[t].pack) \/ job[t].pack \in lost
Binding(t) ==
    pc[t] = "bind" => /\ job[t].revision \in designs
                      /\ \A c \in Chats : chat[c].design # job[t].revision

Holding(t) == Creating(t) /\ Deleting(t) /\ Found(t) /\ Binding(t)

Rows == \A c \in Chats : ~chat[c].live => chat[c] = Absent

\* A reservation has one import, from the step that makes it to the one that ends it.
Importing(t, c) == job[t].kind = "upload" /\ job[t].chat = c /\ pc[t] \notin {"reserve", "done"}
Reserved ==
    /\ \A c \in pending : chat[c].live /\ (c \in leaked \/ \E t \in Threads : Importing(t, c))
    /\ \A c \in Chats, t \in Threads :
          Importing(t, c) => c \in pending /\ \A u \in Threads : Importing(u, c) => u = t

Linked ==
    /\ Rows /\ (\A t \in Threads : Holding(t))
    /\ LinkedPacksExist /\ DesignsBelongToChats /\ Reserved

PackTypes ==
    /\ dirs \subseteq Packs /\ buried \subseteq Packs /\ named \subseteq Packs
    /\ file \in [Packs -> [Files -> Revision]] /\ tomb \in [Packs -> [Files -> Revision]]
    /\ memory \in [Packs -> Revision] /\ torn \subseteq Packs /\ lost \subseteq Packs
LockTypes ==
    /\ table \in [Packs -> Keys \cup {None}] /\ users \in [Packs -> 0 .. Cardinality(Threads)]
    /\ key \in [Threads -> Keys \cup {None}]
ChatSet == [live : BOOLEAN, design : Designs \cup {None}, pack : Packs \cup {None}]
LinkTypes ==
    /\ chat \in [Chats -> ChatSet] /\ owner \in Threads \cup {None}
    /\ pending \subseteq Chats /\ designs \subseteq accepted /\ accepted \subseteq Designs
    /\ served \in 0 .. Requests /\ troubles \in 0 .. MaxTroubles
    /\ raced \subseteq Chats /\ loose \subseteq Designs /\ leaked \subseteq Chats

Base   == PackTypes /\ LinkTypes /\ Moving /\ (\A t \in Threads : Flow(t)) /\ Heard
Locked == LockTypes /\ LockMap
Safe   == Base /\ Locked /\ Stored /\ Linked

-----------------------------------------------------------------------------
(* Requests and their turns.                                               *)

\* What the assumptions say of nobody, no pack and no design.
LEMMA Nobody ==
    /\ None = 0 /\ None \notin Threads /\ None \notin Packs /\ None \notin Chats
    /\ None \notin Designs /\ Packs \subseteq Nat /\ MaxRevision \in Nat /\ 1 \in Revision
    /\ 0 \in Revision /\ Revision \subseteq Nat /\ Designs \subseteq Nat
  BY PackAssumption, WorkspaceAssumption DEF None, Revision

\* The records a request becomes.
Packed(j, p)   == [j EXCEPT !.pack = p]
Going(j, s)    == [j EXCEPT !.then = s]
Counting(j, r) == [j EXCEPT !.revision = r]
Asking(kind, c, p, s) == [NoJob EXCEPT !.kind = kind, !.chat = c, !.pack = p, !.then = s]

LEMMA PackedRecord ==
    ASSUME NEW j \in JobSet, NEW p \in Packs
    PROVE  LET q == Packed(j, p)
           IN  /\ q \in JobSet /\ q.kind = j.kind /\ q.chat = j.chat /\ q.pack = p
               /\ q.revision = j.revision /\ q.then = j.then
  BY DEF Packed, JobSet

LEMMA GoingRecord ==
    ASSUME NEW j \in JobSet, NEW s \in Places
    PROVE  LET q == Going(j, s)
           IN  /\ q \in JobSet /\ q.kind = j.kind /\ q.chat = j.chat /\ q.pack = j.pack
               /\ q.revision = j.revision /\ q.then = s
  BY DEF Going, JobSet

LEMMA CountingRecord ==
    ASSUME NEW j \in JobSet, NEW r \in Nat
    PROVE  LET q == Counting(j, r)
           IN  /\ q \in JobSet /\ q.kind = j.kind /\ q.chat = j.chat /\ q.pack = j.pack
               /\ q.revision = r /\ q.then = j.then
  BY DEF Counting, JobSet

LEMMA AskingRecord ==
    ASSUME NEW k \in Kinds, NEW c \in Chats \cup {None}, NEW p \in Packs \cup {None},
           NEW s \in Places
    PROVE  LET q == Asking(k, c, p, s)
           IN  q \in JobSet /\ q.kind = k /\ q.chat = c /\ q.pack = p /\ q.then = s
  BY Nobody DEF Asking, NoJob, JobSet

LEMMA NoJobRecord == NoJob \in JobSet /\ NoJob.kind = "none" /\ NoJob.pack = None
  BY Nobody DEF NoJob, JobSet, Kinds, Places

\* A thread's turn; the others stay where they are.
Others(t) == \A u \in Threads : u # t => pc'[u] = pc[u] /\ job'[u] = job[u]
Kept(t)   == job'[t].kind = job[t].kind /\ job'[t].chat = job[t].chat
             /\ job'[t].pack = job[t].pack
Turn(t)   == Moving' /\ Others(t)

Goes(t, s)   == Turn(t) /\ pc'[t] = s /\ job'[t] = job[t] /\ key' = key
Leaves(t, s) == Turn(t) /\ pc'[t] = "leave" /\ Kept(t) /\ job'[t].then = s
                /\ job'[t].revision = job[t].revision /\ key' = key

LEMMA GotoTurn ==
    ASSUME Moving, NEW t \in Threads, NEW s \in Places, Goto(t, s)
    PROVE  Goes(t, s)
  BY DEF Moving, Goto, Goes, Turn, Others

LEMMA LeaveForTurn ==
    ASSUME Moving, NEW t \in Threads, NEW s \in Places, LeaveFor(t, s)
    PROVE  Leaves(t, s)
  <1> DEFINE q == Going(job[t], s)
  <1>1. q \in JobSet /\ q.kind = job[t].kind /\ q.chat = job[t].chat /\ q.pack = job[t].pack
        /\ q.revision = job[t].revision /\ q.then = s
    BY GoingRecord DEF Moving
  <1>2. job' = [job EXCEPT ![t] = q]  BY DEF LeaveFor, Going
  <1> HIDE DEF q
  <1>3. "leave" \in Places  BY DEF Places, Inside
  <1> QED  BY <1>1, <1>2, <1>3 DEF Moving, LeaveFor, Leaves, Turn, Others, Kept

LEMMA Becomes ==
    ASSUME Moving, NEW t \in Threads, NEW s \in Places, NEW q \in JobSet,
           pc' = [pc EXCEPT ![t] = s], job' = [job EXCEPT ![t] = q]
    PROVE  Turn(t) /\ pc'[t] = s /\ job'[t] = q
  BY DEF Moving, Turn, Others

\* What a step leaves alone.
StoreStays == dirs' = dirs /\ file' = file /\ buried' = buried /\ tomb' = tomb /\ memory' = memory
              /\ named' = named /\ torn' = torn /\ lost' = lost
MapStays   == table' = table /\ users' = users
RowsStay   == chat' = chat /\ pending' = pending /\ designs' = designs /\ accepted' = accepted
              /\ owner' = owner /\ raced' = raced /\ loose' = loose /\ leaked' = leaked
LinksStay  == RowsStay /\ served' = served
Tried      == troubles' = troubles \/ Trouble

-----------------------------------------------------------------------------
(* Types, where each request is, and which packs are heard of.             *)

LEMMA NothingFile == Nothing \in [Files -> Revision] /\ \A f \in Files : Nothing[f] = 0
  BY Nobody DEF Nothing

\* Files that are written.
LEMMA Written ==
    ASSUME PackTypes, NEW p \in Packs, NEW fs \in SUBSET Files, NEW r \in Revision,
           Write(p, fs, r)
    PROVE  /\ dirs' = dirs \cup {p} /\ file' \in [Packs -> [Files -> Revision]]
           /\ \A q \in Packs : q # p => file'[q] = file[q]
           /\ \A f \in Files : file'[p][f] = IF f \in fs THEN r ELSE file[p][f]
  BY DEF PackTypes, Write

\* A directory that goes, or becomes another.
LEMMA Replaced ==
    ASSUME PackTypes, NEW p \in Packs, NEW d \in [Files -> Revision]
    PROVE  /\ [file EXCEPT ![p] = d] \in [Packs -> [Files -> Revision]]
           /\ [file EXCEPT ![p] = d][p] = d
           /\ \A q \in Packs : q # p => [file EXCEPT ![p] = d][q] = file[q]
           /\ [tomb EXCEPT ![p] = d] \in [Packs -> [Files -> Revision]]
           /\ [tomb EXCEPT ![p] = d][p] = d
           /\ \A q \in Packs : q # p => [tomb EXCEPT ![p] = d][q] = tomb[q]
  BY DEF PackTypes

LEMMA Files1 ==
    ASSUME PackTypes, NEW p \in Packs, NEW f \in Files
    PROVE  file[p][f] \in Revision /\ tomb[p][f] \in Revision
           /\ file[p][f] \in Nat /\ tomb[p][f] \in Nat /\ file[p][f] <= MaxRevision
           /\ (file[p][f] + 1 <= MaxRevision => file[p][f] + 1 \in 1 .. MaxRevision)
  <1>1. file[p][f] \in Revision /\ tomb[p][f] \in Revision  BY DEF PackTypes
  <1> QED  BY <1>1, Nobody DEF Revision

LEMMA Tries ==
    ASSUME LinkTypes, Tried
    PROVE  troubles' \in 0 .. MaxTroubles
  BY PackAssumption DEF LinkTypes, Tried, Trouble

\* The parts of the invariant a thread's turn can disturb.
LEMMA TurnKeepsBase ==
    ASSUME Base, NEW t \in Threads, Turn(t), Flow(t)', PackTypes', LinkTypes', HeardPacks',
           HeardChats', named \subseteq named', job'[t].pack \in named' \cup {None},
           pc'[t] \in Writing =>
              \A u \in Threads : u # t /\ pc[u] \in Writing => job[u].pack # job'[t].pack
    PROVE  Base'
  <1>1. \A u \in Threads : u # t => pc'[u] = pc[u] /\ job'[u] = job[u]
    BY DEF Turn, Others
  <1>2. \A u \in Threads : Flow(u)'
    <2> SUFFICES ASSUME NEW u \in Threads, u # t PROVE Flow(u)'  OBVIOUS
    <2>1. Flow(u)  BY DEF Base
    <2> QED  BY <1>1, <2>1 DEF Flow, Aim
  <1>3. HeardJobs'  BY <1>1 DEF Base, Heard, HeardJobs
  <1>4. Sole'  BY <1>1 DEF Base, Heard, Sole
  <1> QED  BY <1>2, <1>3, <1>4 DEF Base, Heard, Turn

\* A step on a pack, but for the one that gives it its name.
LEMMA PackTurnKeepsBase ==
    ASSUME Base, NEW t \in Threads, Turn(t), Flow(t)', PackTypes', HeardPacks', LinksStay, Tried,
           named' = named, job'[t].pack = job[t].pack, pc'[t] \in Writing => pc[t] \in Writing
    PROVE  Base'
  <1>1. LinkTypes'  BY Tries DEF Base, LinkTypes, LinksStay, RowsStay
  <1>2. HeardChats'  BY DEF Base, Heard, HeardChats, LinksStay, RowsStay
  <1>3. job'[t].pack \in named' \cup {None}  BY DEF Base, Heard, HeardJobs
  <1>4. pc'[t] \in Writing =>
           \A u \in Threads : u # t /\ pc[u] \in Writing => job[u].pack # job'[t].pack
    BY DEF Base, Heard, Sole
  <1> QED  BY <1>1, <1>2, <1>3, <1>4, TurnKeepsBase

\* A step on conversations.
LEMMA LinkTurnKeepsBase ==
    ASSUME Base, NEW t \in Threads, Turn(t), Flow(t)', StoreStays, LinkTypes', HeardChats',
           job'[t].pack \in named \cup {None}, pc'[t] \notin Writing
    PROVE  Base'
  <1>1. PackTypes' /\ HeardPacks'
    BY DEF Base, PackTypes, Heard, HeardPacks, StoreStays
  <1>2. named' = named  BY DEF StoreStays
  <1> QED  BY <1>1, <1>2, TurnKeepsBase

\* What the invariant says of one thread and its pack.
LEMMA Given ==
    ASSUME Base, NEW t \in Threads
    PROVE  /\ PackTypes /\ LinkTypes /\ Moving /\ Flow(t) /\ HeardPacks
           /\ pc[t] \in Places /\ job[t] \in JobSet
           /\ job[t].kind \in Kinds /\ job[t].chat \in Chats \cup {None}
           /\ job[t].pack \in Packs \cup {None} /\ job[t].revision \in Nat
           /\ job[t].then \in Places
  <1>1. job[t] \in JobSet  BY DEF Base, Moving
  <1> QED  BY <1>1 DEF Base, Moving, JobSet, Heard

\* The thread has the lock, and its pack a name.
LEMMA Working ==
    ASSUME Base, NEW t \in Threads, pc[t] \in {"enter", "made"} \cup Inside \cup Writing
    PROVE  job[t].pack \in Packs /\ job[t].pack \in named
  <1>1. job[t].pack \in Packs  BY Given DEF Flow
  <1> QED  BY <1>1, Nobody DEF Base, Heard, HeardJobs

LEMMA LockStepsKeepBase ==
    ASSUME Base, NEW t \in Threads, Enter(t) \/ Acquire(t) \/ Leave(t), LinksStay
    PROVE  Base' /\ Turn(t)
  <1>1. Turn(t) /\ job'[t] = job[t]
        /\ \/ pc[t] = "enter" /\ pc'[t] = "wait"
           \/ pc[t] \in {"wait", "leave"} /\ pc'[t] = job[t].then
    <2>1. CASE Enter(t)
      <3>1. "wait" \in Places  BY DEF Places, Inside
      <3>2. pc[t] = "enter" /\ pc' = [pc EXCEPT ![t] = "wait"] /\ job' = [job EXCEPT ![t] = job[t]]
        BY <2>1, Given DEF Enter, Moving
      <3> QED  BY <3>1, <3>2, Given, Becomes
    <2>2. CASE Acquire(t)
      <3>1. pc[t] = "wait" /\ Goes(t, job[t].then)  BY <2>2, Given, GotoTurn DEF Acquire
      <3> QED  BY <3>1 DEF Goes
    <2>3. CASE Leave(t)
      <3>1. /\ pc[t] = "leave" /\ pc' = [pc EXCEPT ![t] = job[t].then]
            /\ job' = [job EXCEPT ![t] = job[t]]
        BY <2>3, Given DEF Leave, Moving
      <3> QED  BY <3>1, Given, Becomes
    <2> QED  BY <2>1, <2>2, <2>3
  <1>2. Flow(t)'
    <2>1. Flow(t)  BY Given
    <2> QED  BY <1>1, <2>1 DEF Flow, Aim, Firsts, Afters, Writing, Inside, Held
  <1>3. pc'[t] \notin Writing
    <2>1. Flow(t)  BY Given
    <2> QED  BY <1>1, <2>1 DEF Flow, Firsts, Afters, Writing
  <1>4. StoreStays /\ Tried
    BY DEF Enter, Acquire, Leave, store, StoreStays, Tried
  <1>5. PackTypes' /\ HeardPacks'
    BY <1>4, Given DEF PackTypes, HeardPacks, StoreStays
  <1>6. named' = named  BY <1>4 DEF StoreStays
  <1> QED  BY <1>1, <1>2, <1>3, <1>4, <1>5, <1>6, PackTurnKeepsBase

\* Where the steps of a thread lead; a thread that goes on takes its request with it.
LEMMA Turns ==
    ASSUME Base, NEW t \in Threads
    PROVE  /\ Publish(t) => pc[t] = "publish" /\ Goes(t, "remember")
           /\ Remember(t) => pc[t] = "remember" /\ Goes(t, "report")
           /\ ReportMemory(t) => pc[t] = "report" /\ Goes(t, "made")
           /\ Unmake(t) => pc[t] \in {"publish", "report"} /\ Goes(t, "unmade")
           /\ Look(t) => pc[t] = "look"
                         /\ \/ Leaves(t, "seen") /\ Known(job[t].pack)
                            \/ Leaves(t, "unseen")
           /\ Bury(t) => pc[t] = "bury" /\ (Goes(t, "purge") \/ Leaves(t, "gone"))
           /\ Purge(t) => pc[t] = "purge" /\ (Goes(t, "remove") \/ Leaves(t, "failed"))
           /\ Remove(t) => pc[t] = "remove" /\ (Leaves(t, "deleted") \/ Leaves(t, "failed"))
           /\ Revise(t) => pc[t] = "revise"
                           /\ (Goes(t, "revise") \/ Leaves(t, "done"))
  <1>0. /\ Moving
        /\ {"remember", "report", "made", "unmade", "seen", "unseen", "purge", "gone", "remove",
            "failed", "deleted", "revise", "done"} \subseteq Places
    BY Given DEF Places, Inside, Held, Writing, Afters
  <1>1. Publish(t) => pc[t] = "publish" /\ Goes(t, "remember")
    BY <1>0, GotoTurn DEF Publish
  <1>2. Remember(t) => pc[t] = "remember" /\ Goes(t, "report")
    BY <1>0, GotoTurn DEF Remember
  <1>3. ReportMemory(t) => pc[t] = "report" /\ Goes(t, "made")
    BY <1>0, GotoTurn DEF ReportMemory
  <1>4. Unmake(t) => pc[t] \in {"publish", "report"} /\ Goes(t, "unmade")
    BY <1>0, GotoTurn DEF Unmake
  <1>5. Look(t) => pc[t] = "look"
                   /\ \/ Leaves(t, "seen") /\ Known(job[t].pack)
                      \/ Leaves(t, "unseen")
    BY <1>0, LeaveForTurn DEF Look
  <1>6. Bury(t) => pc[t] = "bury" /\ (Goes(t, "purge") \/ Leaves(t, "gone"))
    BY <1>0, GotoTurn, LeaveForTurn DEF Bury
  <1>7. Purge(t) => pc[t] = "purge" /\ (Goes(t, "remove") \/ Leaves(t, "failed"))
    BY <1>0, GotoTurn, LeaveForTurn DEF Purge
  <1>8. Remove(t) => pc[t] = "remove" /\ (Leaves(t, "deleted") \/ Leaves(t, "failed"))
    BY <1>0, LeaveForTurn, SMTT(30) DEF Remove
  <1>9. Revise(t) => pc[t] = "revise" /\ (Goes(t, "revise") \/ Leaves(t, "done"))
    <2>1. flow' = flow /\ pc[t] = "revise" => Goes(t, "revise")
      BY <1>0 DEF flow, Goes, Turn, Others, Moving
    <2> QED  BY <1>0, <2>1, LeaveForTurn DEF Revise
  <1> QED  BY <1>1, <1>2, <1>3, <1>4, <1>5, <1>6, <1>7, <1>8, <1>9

\* The step is one a request of its kind can take.
LEMMA FlowsOn ==
    ASSUME Base, NEW t \in Threads, NEW s \in Places, Goes(t, s) \/ Leaves(t, s),
           pc[t] \in Writing \cup Held,
           Goes(t, s) => \/ pc[t] \in Writing /\ s \in Writing \cup {"made", "unmade"}
                         \/ pc[t] = "bury" /\ s = "purge"
                         \/ pc[t] = "purge" /\ s = "remove"
                         \/ pc[t] = "revise" /\ s = "revise",
           Leaves(t, s) => \/ pc[t] = "look" /\ s \in {"seen", "unseen"}
                           \/ pc[t] \in {"note", "revise"} /\ s = "done"
                           \/ pc[t] \in {"bury", "purge", "remove"}
                              /\ s \in {"gone", "failed", "deleted"}
    PROVE  Flow(t)' /\ job'[t].pack = job[t].pack /\ Turn(t)
  <1>1. Flow(t)  BY Given
  <1>2. CASE Goes(t, s)
    BY <1>1, <1>2 DEF Flow, Aim, Goes, Firsts, Afters, Writing, Inside, Held
  <1>3. CASE Leaves(t, s)
    BY <1>1, <1>3 DEF Flow, Aim, Leaves, Kept, Firsts, Afters, Writing, Inside, Held
  <1> QED  BY <1>2, <1>3

LEMMA ImportStepsKeepBase ==
    ASSUME Base, NEW t \in Threads, Publish(t) \/ Remember(t) \/ ReportMemory(t) \/ Unmake(t),
           LinksStay
    PROVE  Base'
  <1>1. pc[t] \in Writing /\ \E s \in Writing \cup {"made", "unmade"} : Goes(t, s)
    BY Turns DEF Writing
  <1>2. Flow(t)' /\ job'[t].pack = job[t].pack /\ Turn(t)
    <2>1. Writing \cup {"made", "unmade"} \subseteq Places  BY DEF Places
    <2>2. PICK s \in Writing \cup {"made", "unmade"} : Goes(t, s)  BY <1>1
    <2>3. ~Leaves(t, s)  BY <2>2 DEF Goes, Leaves, Writing
    <2> QED  BY <1>1, <2>1, <2>2, <2>3, FlowsOn
  <1>3. job[t].pack \in Packs /\ job[t].pack \in named  BY <1>1, Working
  <1>4. PackTypes /\ HeardPacks /\ 1 \in Revision  BY Given, Nobody
  <1>5. PackTypes' /\ HeardPacks' /\ named' = named /\ Tried
    <2>1. ASSUME NEW fs \in SUBSET Files, Write(job[t].pack, fs, 1)
          PROVE  dirs' \subseteq Packs /\ file' \in [Packs -> [Files -> Revision]]
                 /\ dirs' \subseteq named
                 /\ \A p \in Packs : p \notin dirs' => file'[p] = Nothing
      <3>1. /\ dirs' = dirs \cup {job[t].pack} /\ file' \in [Packs -> [Files -> Revision]]
            /\ \A q \in Packs : q # job[t].pack => file'[q] = file[q]
        BY <1>3, <1>4, <2>1 DEF Write, PackTypes
      <3>2. dirs \subseteq Packs /\ dirs \subseteq named
            /\ \A q \in Packs : q \notin dirs => file[q] = Nothing
        BY <1>4 DEF PackTypes, HeardPacks
      <3> QED  BY <1>3, <3>1, <3>2
    <2>2. CASE Publish(t)
      <3>1. {"corrections", "reports"} \in SUBSET Files  BY DEF Files
      <3> QED  BY <1>3, <1>4, <2>1, <2>2, <3>1 DEF Publish, PackTypes, HeardPacks, Late, Tried
    <2>3. CASE Remember(t)
      BY <1>3, <1>4, <2>3 DEF Remember, PackTypes, HeardPacks, Late, Tried
    <2>4. CASE ReportMemory(t)
      <3>1. {"summary", "reports"} \in SUBSET Files  BY DEF Files
      <3> QED  BY <1>3, <1>4, <2>1, <2>4, <3>1 DEF ReportMemory, PackTypes, HeardPacks, Late, Tried
    <2>5. CASE Unmake(t)
      <3>1. file' \in [Packs -> [Files -> Revision]] /\ file'[job[t].pack] = Nothing
            /\ \A q \in Packs : q # job[t].pack => file'[q] = file[q]
        BY <1>3, <1>4, <2>5, Replaced, NothingFile DEF Unmake
      <3> QED  BY <1>3, <1>4, <2>5, <3>1 DEF Unmake, PackTypes, HeardPacks, Tried
    <2> QED  BY <2>2, <2>3, <2>4, <2>5
  <1> QED  BY <1>1, <1>2, <1>5, PackTurnKeepsBase

LEMMA MakeKeepsBase ==
    ASSUME Base, NEW t \in Threads, Make(t), LinksStay
    PROVE  Base' /\ Turn(t) /\ pc[t] = "make"
           /\ \/ /\ pc'[t] = "publish" /\ job'[t].pack \in Packs /\ job'[t].pack \notin named
                 /\ named' = named \cup {job'[t].pack}
                 /\ Write(job'[t].pack, {"index", "spec", "summary"}, 1)
                 /\ job'[t].kind = "upload" /\ job'[t].chat = job[t].chat
              \/ Goes(t, "unmade") /\ dirs' = dirs /\ file' = file /\ named' = named
  <1>1. /\ pc[t] = "make" /\ Flow(t) /\ PackTypes /\ LinkTypes /\ Moving /\ HeardPacks
        /\ job[t] \in JobSet /\ job[t].kind = "upload"
    BY Given DEF Make, Flow
  <1>2. LinkTypes'  BY Given, Tries DEF LinkTypes, LinksStay, RowsStay, Make, Tried
  <1>3. CASE /\ Goto(t, "unmade") /\ UNCHANGED <<dirs, file, named>>
    <2>1. Goes(t, "unmade")
      <3>1. "unmade" \in Places  BY DEF Places
      <3> QED  BY <1>1, <1>3, <3>1, GotoTurn
    <2>2. Flow(t)' /\ job'[t].pack = job[t].pack /\ Turn(t) /\ pc'[t] \notin Writing
      BY <1>1, <2>1 DEF Flow, Aim, Goes, Firsts, Afters, Writing, Inside, Held
    <2>3. PackTypes' /\ HeardPacks' /\ Tried
      BY <1>1, <1>3 DEF Make, PackTypes, HeardPacks, Tried
    <2>4. Base'  BY <1>3, <2>2, <2>3, PackTurnKeepsBase
    <2> QED  BY <1>1, <1>3, <2>1, <2>2, <2>4
  <1>4. CASE \E p \in Packs \ named :
               /\ named' = named \cup {p}
               /\ job' = [job EXCEPT ![t].pack = p] /\ pc' = [pc EXCEPT ![t] = "publish"]
               /\ Write(p, {"index", "spec", "summary"}, 1)
    <2>0. PICK p \in Packs \ named :
               /\ named' = named \cup {p}
               /\ job' = [job EXCEPT ![t].pack = p] /\ pc' = [pc EXCEPT ![t] = "publish"]
               /\ Write(p, {"index", "spec", "summary"}, 1)
      BY <1>4
    <2> DEFINE q == Packed(job[t], p)
    <2>1. /\ q \in JobSet /\ q.kind = job[t].kind /\ q.chat = job[t].chat /\ q.pack = p
          /\ q.then = job[t].then
      BY <1>1, PackedRecord
    <2>2. job' = [job EXCEPT ![t] = q] /\ pc' = [pc EXCEPT ![t] = "publish"]
      BY <2>0 DEF Packed
    <2> HIDE DEF q
    <2>3. Turn(t) /\ pc'[t] = "publish" /\ job'[t] = q
      <3>1. "publish" \in Places  BY DEF Places, Writing
      <3> QED  BY <1>1, <2>1, <2>2, <3>1, Becomes, ZenonT(60)
    <2>4. /\ job'[t].kind = "upload" /\ job'[t].chat = job[t].chat /\ job'[t].pack = p
          /\ job'[t].then = job[t].then
      BY <1>1, <2>1, <2>3
    <2>5. Flow(t)'
      BY <1>1, <2>3, <2>4 DEF Flow, Aim, Firsts, Afters, Writing, Inside, Held
    <2>6. PackTypes' /\ HeardPacks'
      <3>1. /\ dirs' = dirs \cup {p} /\ file' \in [Packs -> [Files -> Revision]]
            /\ \A r \in Packs : r # p => file'[r] = file[r]
        BY <1>1, <2>0, Nobody DEF Write, PackTypes
      <3>2. buried' = buried /\ tomb' = tomb /\ memory' = memory /\ torn' = torn /\ lost' = lost
        BY DEF Make
      <3> QED  BY <1>1, <2>0, <3>1, <3>2 DEF PackTypes, HeardPacks
    <2>7. HeardChats'  BY <2>0 DEF Base, Heard, HeardChats, LinksStay, RowsStay
    <2>8. \A u \in Threads : job[u].pack # p
      BY Nobody DEF Base, Heard, HeardJobs
    <2>9. Base'  BY <1>2, <2>0, <2>3, <2>4, <2>5, <2>6, <2>7, <2>8, TurnKeepsBase
    <2> QED  BY <1>1, <2>0, <2>3, <2>4, <2>9
  <1> QED  BY <1>3, <1>4 DEF Make

\* A correction that is begun.
Revising(t) ==
    /\ Turn(t) /\ pc'[t] = "revise" /\ Kept(t) /\ key' = key
    /\ Known(job[t].pack) /\ file[job[t].pack]["corrections"] # 0
    /\ job'[t].revision = file[job[t].pack]["corrections"] + 1
    /\ job'[t].revision \in 1 .. MaxRevision

LEMMA Noted ==
    ASSUME Base, NEW t \in Threads, Note(t)
    PROVE  /\ pc[t] = "note"
           /\ \/ Leaves(t, "done") /\ memory' = memory
              \/ Revising(t)
  <1>1. pc[t] = "note" /\ Moving /\ PackTypes /\ job[t] \in JobSet
    BY Given DEF Note
  <1>2. job[t].pack \in Packs  BY <1>1, Working DEF Inside, Held
  <1> DEFINE r == file[job[t].pack]["corrections"] + 1
  <1>3. r \in Nat /\ (r <= MaxRevision => r \in 1 .. MaxRevision)
    <2>1. "corrections" \in Files  BY DEF Files
    <2> QED  BY <1>1, <1>2, <2>1, Files1
  <1>4. CASE LeaveFor(t, "done") /\ memory' = memory
    <2>1. "done" \in Places  BY DEF Places, Afters
    <2> QED  BY <1>1, <1>4, <2>1, LeaveForTurn
  <1>5. CASE /\ Known(job[t].pack) /\ file[job[t].pack]["corrections"] # 0 /\ r <= MaxRevision
             /\ pc' = [pc EXCEPT ![t] = "revise"]
             /\ job' = [job EXCEPT ![t].revision = r] /\ key' = key
    <2> DEFINE q == Counting(job[t], r)
    <2>1. /\ q \in JobSet /\ q.kind = job[t].kind /\ q.chat = job[t].chat
          /\ q.pack = job[t].pack /\ q.revision = r
      BY <1>1, <1>3, CountingRecord
    <2>2. job' = [job EXCEPT ![t] = q] /\ pc' = [pc EXCEPT ![t] = "revise"]
      BY <1>5 DEF Counting
    <2> HIDE DEF q
    <2>3. Turn(t) /\ pc'[t] = "revise" /\ job'[t] = q
      <3>1. "revise" \in Places  BY DEF Places, Inside, Held
      <3> QED  BY <1>1, <2>1, <2>2, <3>1, Becomes
    <2>4. Kept(t) /\ job'[t].revision = r  BY <2>1, <2>3 DEF Kept
    <2> QED  BY <1>1, <1>3, <1>5, <2>3, <2>4 DEF Revising
  <1> QED  BY <1>4, <1>5 DEF Note

LEMMA CorrectionStepsKeepBase ==
    ASSUME Base, NEW t \in Threads, Look(t) \/ Note(t) \/ Revise(t), LinksStay
    PROVE  Base'
  <1>1. pc[t] \in Held  BY DEF Look, Note, Revise, Held
  <1>2. job[t].pack \in Packs /\ job[t].pack \in named
    BY <1>1, Working DEF Inside
  <1>3. /\ PackTypes /\ Moving /\ HeardPacks /\ Flow(t) /\ job[t] \in JobSet
    BY Given
  <1>4. CASE Look(t)
    <2>1. Flow(t)' /\ job'[t].pack = job[t].pack /\ Turn(t)
      <3>1. PICK s \in {"seen", "unseen"} : pc[t] = "look" /\ Leaves(t, s)
        BY <1>4, Turns
      <3>2. s \in Places /\ ~Goes(t, s)  BY <3>1 DEF Places, Afters, Goes, Leaves
      <3> QED  BY <1>1, <3>1, <3>2, FlowsOn
    <2>2. pc'[t] \notin Writing  BY <1>4, Turns DEF Leaves, Writing
    <2>3. PackTypes' /\ HeardPacks' /\ named' = named /\ Tried
      BY <1>3, <1>4 DEF Look, store, PackTypes, HeardPacks, Tried
    <2> QED  BY <2>1, <2>2, <2>3, PackTurnKeepsBase
  <1>5. CASE Note(t)
    <2>1. PackTypes' /\ HeardPacks' /\ named' = named /\ Tried
      <3>1. memory' \in [Packs -> Revision] /\ Tried
        <4> DEFINE r == file[job[t].pack]["corrections"] + 1
        <4>1. r <= MaxRevision => r \in Revision
          <5>1. "corrections" \in Files /\ 1 .. MaxRevision \subseteq Revision
            BY Nobody DEF Files, Revision
          <5> QED  BY <1>2, <1>3, <5>1, Files1
        <4> QED  BY <1>2, <1>3, <1>5, <4>1 DEF Note, PackTypes, Tried
      <3> QED  BY <1>3, <1>5, <3>1 DEF Note, PackTypes, HeardPacks
    <2>2. Flow(t)' /\ job'[t].pack = job[t].pack /\ Turn(t) /\ pc'[t] \notin Writing
      <3>1. CASE Leaves(t, "done")
        <4>1. "done" \in Places  BY DEF Places, Afters
        <4>2. ~Goes(t, "done") /\ pc[t] = "note"  BY <1>5, <3>1 DEF Goes, Leaves, Note
        <4>3. Flow(t)' /\ job'[t].pack = job[t].pack /\ Turn(t)
          BY <1>1, <3>1, <4>1, <4>2, FlowsOn
        <4> QED  BY <3>1, <4>3 DEF Leaves, Writing
      <3>2. CASE Revising(t)
        <4>1. pc[t] = "note"  BY <1>5 DEF Note
        <4> QED
          BY <1>3, <3>2, <4>1
          DEF Revising, Kept, Flow, Aim, Firsts, Afters, Writing, Inside, Held
      <3> QED  BY <1>5, <3>1, <3>2, Noted
    <2> QED  BY <2>1, <2>2, PackTurnKeepsBase
  <1>6. CASE Revise(t)
    <2>1. Flow(t)' /\ job'[t].pack = job[t].pack /\ Turn(t) /\ pc'[t] \notin Writing
      <3>1. CASE Goes(t, "revise")
        <4>1. ~Leaves(t, "revise") /\ pc[t] = "revise" /\ "revise" \in Places
          BY <1>6, <3>1 DEF Goes, Leaves, Revise, Places, Inside, Held
        <4> QED  BY <1>1, <3>1, <4>1, FlowsOn, SMTT(30) DEF Goes, Writing
      <3>2. CASE Leaves(t, "done")
        <4>1. ~Goes(t, "done") /\ pc[t] = "revise" /\ "done" \in Places
          BY <1>6, <3>2 DEF Goes, Leaves, Revise, Places, Afters
        <4> QED  BY <1>1, <3>2, <4>1, FlowsOn, SMTT(30) DEF Leaves, Writing
      <3> QED  BY <1>6, <3>1, <3>2, Turns
    <2>2. PackTypes' /\ HeardPacks' /\ named' = named /\ Tried
      <3>1. /\ buried' = buried /\ tomb' = tomb /\ memory' = memory /\ named' = named
            /\ lost' = lost /\ Tried
        BY <1>6, ZenonT(60) DEF Revise, Tried
      <3>2. torn' \subseteq Packs  BY <1>2, <1>3, <1>6 DEF Revise, PackTypes
      <3>3. /\ dirs' \subseteq named /\ file' \in [Packs -> [Files -> Revision]]
            /\ \A p \in Packs : p \notin dirs' => file'[p] = Nothing
        <4>1. CASE dirs' = dirs /\ file' = file
          BY <1>3, <4>1 DEF PackTypes, HeardPacks
        <4>2. CASE \E i \in DOMAIN Order : Write(job[t].pack, {Order[i]}, job[t].revision)
          <5>1. job[t].revision \in Revision
            <6>1. pc[t] = "revise"  BY <1>6 DEF Revise
            <6>2. job[t].revision \in 1 .. MaxRevision  BY <1>3, <6>1 DEF Flow
            <6> QED  BY <6>2, Nobody, SMTT(30) DEF Revision
          <5>2. PICK i \in DOMAIN Order : Write(job[t].pack, {Order[i]}, job[t].revision)
            BY <4>2
          <5>3. /\ dirs' = dirs \cup {job[t].pack} /\ file' \in [Packs -> [Files -> Revision]]
                /\ \A q \in Packs : q # job[t].pack => file'[q] = file[q]
            BY <1>2, <1>3, <5>1, <5>2 DEF Write, PackTypes
          <5> QED  BY <1>2, <1>3, <5>3 DEF HeardPacks
        <4>3. \/ dirs' = dirs /\ file' = file
              \/ \E i \in DOMAIN Order : Write(job[t].pack, {Order[i]}, job[t].revision)
          <5> DEFINE left == {i \in DOMAIN Order : file[job[t].pack][Order[i]] # job[t].revision}
                     i == CHOOSE j \in left : \A k \in left : j <= k
          <5>1. left \subseteq DOMAIN Order /\ (left # {} => i \in left)
            <6>1. left \subseteq DOMAIN Order  OBVIOUS
            <6>2. left \subseteq 1 .. 4  BY DEF Order
            <6>3. left # {} => \E j \in left : \A k \in left : j <= k  BY <6>2, SMTT(30)
            <6> QED  BY <6>1, <6>3
          <5>2. \/ left # {} /\ Write(job[t].pack, {Order[i]}, job[t].revision)
                \/ dirs' = dirs /\ file' = file
            BY <1>6 DEF Revise
          <5> HIDE DEF left, i
          <5> QED  BY <5>1, <5>2
        <4> QED  BY <4>1, <4>2, <4>3
      <3> QED  BY <1>3, <3>1, <3>2, <3>3, SMTT(30) DEF PackTypes, HeardPacks
    <2> QED  BY <2>1, <2>2, PackTurnKeepsBase
  <1> QED  BY <1>4, <1>5, <1>6, SMTT(30)

LEMMA DeletionStepsKeepBase ==
    ASSUME Base, NEW t \in Threads, Bury(t) \/ Purge(t) \/ Remove(t), LinksStay
    PROVE  Base'
  <1>1. pc[t] \in {"bury", "purge", "remove"}  BY DEF Bury, Purge, Remove
  <1>2. job[t].pack \in Packs /\ job[t].pack \in named
    BY <1>1, Working DEF Inside, Held
  <1>3. /\ PackTypes /\ Moving /\ HeardPacks /\ Flow(t) /\ job[t] \in JobSet
    BY Given
  <1>4. Flow(t)' /\ job'[t].pack = job[t].pack /\ Turn(t) /\ pc'[t] \notin Writing
    <2>1. CASE \E s \in {"gone", "failed", "deleted"} : Leaves(t, s)
      <3>1. PICK s \in {"gone", "failed", "deleted"} : Leaves(t, s)  BY <2>1
      <3>2. s \in Places /\ ~Goes(t, s)  BY <3>1 DEF Places, Afters, Goes, Leaves
      <3>3. pc[t] \in Held  BY <1>1 DEF Held
      <3>4. pc'[t] \notin Writing  BY <3>1 DEF Leaves, Writing
      <3> QED  BY <1>1, <3>1, <3>2, <3>3, <3>4, FlowsOn
    <2>2. CASE \E s \in {"purge", "remove"} : Goes(t, s) /\ (pc[t] = "bury" <=> s = "purge")
                                              /\ pc[t] \in {"bury", "purge"}
      <3>1. PICK s \in {"purge", "remove"} : Goes(t, s) /\ (pc[t] = "bury" <=> s = "purge")
                                             /\ pc[t] \in {"bury", "purge"}
        BY <2>2
      <3>2. s \in Places /\ ~Leaves(t, s)  BY <3>1 DEF Places, Inside, Held, Goes, Leaves
      <3>3. pc[t] \in Held  BY <1>1 DEF Held
      <3>4. pc'[t] \notin Writing  BY <3>1 DEF Goes, Writing
      <3> QED  BY <1>1, <3>1, <3>2, <3>3, <3>4, FlowsOn
    <2>3. \/ \E s \in {"gone", "failed", "deleted"} : Leaves(t, s)
          \/ \E s \in {"purge", "remove"} : Goes(t, s) /\ (pc[t] = "bury" <=> s = "purge")
                                            /\ pc[t] \in {"bury", "purge"}
      BY Turns
    <2> QED  BY <2>1, <2>2, <2>3
  <1>5. PackTypes' /\ HeardPacks' /\ named' = named /\ Tried
    <2>1. CASE Bury(t)
      <3>1. tomb[job[t].pack] \in [Files -> Revision] /\ file[job[t].pack] \in [Files -> Revision]
        BY <1>2, <1>3 DEF PackTypes
      <3>2. CASE job[t].pack \in dirs
        <4>1. /\ file' \in [Packs -> [Files -> Revision]] /\ file'[job[t].pack] = Nothing
              /\ \A q \in Packs : q # job[t].pack => file'[q] = file[q]
              /\ tomb' \in [Packs -> [Files -> Revision]]
              /\ \A q \in Packs : q # job[t].pack => tomb'[q] = tomb[q]
          <5>1. file' = [file EXCEPT ![job[t].pack] = Nothing]
                /\ tomb' = [tomb EXCEPT ![job[t].pack] = file[job[t].pack]]
            BY <2>1, <3>2 DEF Bury
          <5>2. /\ file' \in [Packs -> [Files -> Revision]] /\ file'[job[t].pack] = Nothing
                /\ \A q \in Packs : q # job[t].pack => file'[q] = file[q]
            BY <1>2, <1>3, <5>1, Replaced, NothingFile
          <5>3. /\ tomb' \in [Packs -> [Files -> Revision]]
                /\ \A q \in Packs : q # job[t].pack => tomb'[q] = tomb[q]
            BY <1>2, <1>3, <3>1, <5>1, Replaced
          <5> QED  BY <5>2, <5>3
        <4> QED  BY <1>2, <1>3, <2>1, <3>2, <4>1 DEF Bury, PackTypes, HeardPacks, Tried
      <3>3. CASE job[t].pack \notin dirs
        BY <1>3, <2>1, <3>3 DEF Bury, PackTypes, HeardPacks, Tried
      <3> QED  BY <3>2, <3>3
    <2>2. ASSUME NEW rest \in [Files -> Revision], Restore(job[t].pack, rest)
          PROVE  /\ dirs' \subseteq named /\ buried' \subseteq Packs /\ torn' \subseteq Packs
                 /\ file' \in [Packs -> [Files -> Revision]]
                 /\ tomb' \in [Packs -> [Files -> Revision]]
                 /\ \A p \in Packs : p \notin dirs' => file'[p] = Nothing
                 /\ \A p \in Packs : p \notin named => tomb'[p] = Nothing
      <3>1. CASE job[t].pack \in dirs
        <4>1. /\ tomb' \in [Packs -> [Files -> Revision]]
              /\ \A q \in Packs : q # job[t].pack => tomb'[q] = tomb[q]
          BY <1>2, <1>3, <2>2, <3>1, Replaced DEF Restore
        <4> QED  BY <1>2, <1>3, <2>2, <3>1, <4>1 DEF Restore, PackTypes, HeardPacks
      <3>2. CASE job[t].pack \notin dirs
        <4>1. /\ file' \in [Packs -> [Files -> Revision]]
              /\ \A q \in Packs : q # job[t].pack => file'[q] = file[q]
          BY <1>2, <1>3, <2>2, <3>2, Replaced DEF Restore
        <4>2. /\ tomb' \in [Packs -> [Files -> Revision]]
              /\ \A q \in Packs : q # job[t].pack => tomb'[q] = tomb[q]
          BY <1>2, <1>3, <2>2, <3>2, Replaced, NothingFile DEF Restore
        <4> QED  BY <1>2, <1>3, <2>2, <3>2, <4>1, <4>2 DEF Restore, PackTypes, HeardPacks
      <3> QED  BY <3>1, <3>2
    <2>3. CASE Purge(t)
      <3>1. tomb[job[t].pack] \in [Files -> Revision]  BY <1>2, <1>3 DEF PackTypes
      <3>2. memory' \in [Packs -> Revision] /\ Tried
        BY <1>2, <1>3, <2>3, Nobody DEF Purge, PackTypes, Tried
      <3>3. CASE Restore(job[t].pack, tomb[job[t].pack])
        BY <1>2, <1>3, <2>2, <2>3, <3>1, <3>2, <3>3 DEF Purge, PackTypes, HeardPacks
      <3>4. CASE UNCHANGED <<dirs, file, buried, tomb, torn, troubles>>
        BY <1>2, <1>3, <2>3, <3>2, <3>4 DEF Purge, PackTypes, HeardPacks
      <3> QED  BY <2>3, <3>3, <3>4 DEF Purge
    <2>4. CASE Remove(t)
      <3>1. CASE \E kept \in SUBSET Files :
                    Restore(job[t].pack,
                            [f \in Files |-> IF f \in kept THEN tomb[job[t].pack][f] ELSE 0])
        <4>1. PICK kept \in SUBSET Files :
                    Restore(job[t].pack,
                            [f \in Files |-> IF f \in kept THEN tomb[job[t].pack][f] ELSE 0])
          BY <3>1
        <4> DEFINE rest == [f \in Files |-> IF f \in kept THEN tomb[job[t].pack][f] ELSE 0]
        <4>2. rest \in [Files -> Revision]
          <5>1. tomb[job[t].pack] \in [Files -> Revision]  BY <1>2, <1>3 DEF PackTypes
          <5> QED  BY <5>1, Nobody
        <4>3. Restore(job[t].pack, rest)  BY <4>1
        <4>4. memory' = memory /\ named' = named /\ lost' = lost /\ Tried
          BY <2>4 DEF Remove, Tried
        <4> HIDE DEF rest
        <4> QED  BY <1>2, <1>3, <2>2, <4>2, <4>3, <4>4 DEF PackTypes, HeardPacks
      <3>2. CASE /\ buried' = buried \ {job[t].pack}
                 /\ tomb' = [tomb EXCEPT ![job[t].pack] = Nothing]
                 /\ UNCHANGED <<dirs, file, torn, troubles>>
        <4>1. /\ tomb' \in [Packs -> [Files -> Revision]]
              /\ \A q \in Packs : q # job[t].pack => tomb'[q] = tomb[q]
          BY <1>2, <1>3, <3>2, Replaced, NothingFile
        <4> QED  BY <1>2, <1>3, <2>4, <3>2, <4>1 DEF Remove, PackTypes, HeardPacks, Tried
      <3> QED  BY <2>4, <3>1, <3>2 DEF Remove
    <2> QED  BY <2>1, <2>3, <2>4
  <1> QED  BY <1>4, <1>5, PackTurnKeepsBase

LEMMA PackStepsKeepBase ==
    ASSUME Base, NEW t \in Threads, PackStep(t), LinksStay
    PROVE  Base'
  BY LockStepsKeepBase, MakeKeepsBase, ImportStepsKeepBase, CorrectionStepsKeepBase,
     DeletionStepsKeepBase DEF PackStep

-----------------------------------------------------------------------------
(* Requests on conversations.                                              *)

Packing(r, p)   == [r EXCEPT !.pack = p]
Designing(r, w) == [r EXCEPT !.design = w]
Opened(w)       == [live |-> TRUE, design |-> w, pack |-> None]

LEMMA ChatRecord ==
    ASSUME NEW r \in ChatSet, NEW p \in Packs \cup {None}, NEW w \in Designs \cup {None}
    PROVE  /\ Packing(r, p) \in ChatSet /\ Packing(r, p).pack = p
           /\ Packing(r, p).live = r.live /\ Packing(r, p).design = r.design
           /\ Designing(r, w) \in ChatSet /\ Designing(r, w).design = w
           /\ Designing(r, w).live = r.live /\ Designing(r, w).pack = r.pack
  BY DEF Packing, Designing, ChatSet

LEMMA NewChatRecord ==
    /\ Absent \in ChatSet /\ ~Absent.live /\ Absent.pack = None /\ Absent.design = None
    /\ \A w \in Designs \cup {None} :
          Opened(w) \in ChatSet /\ Opened(w).live /\ Opened(w).design = w
          /\ Opened(w).pack = None
  <1>1. Absent \in ChatSet  BY Nobody DEF Absent, ChatSet
  <1>2. ~Absent.live /\ Absent.pack = None /\ Absent.design = None  BY DEF Absent
  <1>3. ASSUME NEW w \in Designs \cup {None}
        PROVE  Opened(w) \in ChatSet /\ Opened(w).design = w /\ Opened(w).pack = None
    BY Nobody DEF Opened, ChatSet
  <1>4. \A w \in Designs \cup {None} : Opened(w).live  BY DEF Opened
  <1> QED  BY <1>1, <1>2, <1>3, <1>4

\* The fields of a conversation.
LEMMA ChatFields ==
    ASSUME LinkTypes, NEW c \in Chats
    PROVE  /\ chat[c] \in ChatSet /\ chat[c].pack \in Packs \cup {None}
           /\ chat[c].design \in Designs \cup {None} /\ chat[c].live \in BOOLEAN
  BY DEF LinkTypes, ChatSet

\* One conversation gets a pack, or loses it.
Repacks(c, p) ==
    /\ chat' \in [Chats -> ChatSet]
    /\ \A d \in Chats : /\ d # c => chat'[d] = chat[d]
                        /\ chat'[d].live = chat[d].live
                        /\ chat'[d].design = chat[d].design
                        /\ chat'[d].pack = IF d = c THEN p ELSE chat[d].pack

LEMMA Repacked ==
    ASSUME LinkTypes, NEW c, NEW p \in Packs \cup {None},
           chat' = [d \in Chats |-> IF d = c THEN [chat[d] EXCEPT !.pack = p] ELSE chat[d]]
    PROVE  Repacks(c, p)
  <1>1. ASSUME NEW d \in Chats
        PROVE  /\ chat'[d] \in ChatSet /\ (d # c => chat'[d] = chat[d])
               /\ chat'[d].live = chat[d].live /\ chat'[d].design = chat[d].design
               /\ chat'[d].pack = IF d = c THEN p ELSE chat[d].pack
    <2>1. chat[d] \in ChatSet  BY DEF LinkTypes
    <2>2. chat'[d] = IF d = c THEN Packing(chat[d], p) ELSE chat[d]  BY DEF Packing
    <2>3. /\ Packing(chat[d], p) \in ChatSet /\ Packing(chat[d], p).pack = p
          /\ Packing(chat[d], p).live = chat[d].live
          /\ Packing(chat[d], p).design = chat[d].design
      BY <2>1, ChatRecord, Nobody
    <2> QED  BY <2>1, <2>2, <2>3
  <1>2. chat' \in [Chats -> ChatSet]  BY <1>1
  <1> QED  BY <1>1, <1>2 DEF Repacks

LEMMA OneRepacked ==
    ASSUME LinkTypes, NEW c \in Chats, NEW p \in Packs \cup {None},
           chat' = [chat EXCEPT ![c].pack = p]
    PROVE  Repacks(c, p)
  <1>1. chat' = [d \in Chats |-> IF d = c THEN [chat[d] EXCEPT !.pack = p] ELSE chat[d]]
    BY DEF LinkTypes
  <1> QED  BY <1>1, Repacked

LEMMA BeginKeepsBase ==
    ASSUME Base, NEW t \in Threads, NEW kind \in Kinds \ {"none"}, NEW c \in Chats \cup {None},
           NEW p \in named \cup {None}, NEW first \in Places \ Writing, NEW then \in Places,
           Begin(t, kind, c, p, first, then),
           \/ kind = "upload" /\ first = "make" /\ c = None /\ then = "look"
           \/ kind = "upload" /\ first = "reserve" /\ c \in Chats /\ then = "look"
           \/ kind = "read" /\ first = "enter" /\ then = "look" /\ p \in Packs
           \/ kind = "correct" /\ first = "enter" /\ then = "note" /\ p \in Packs
           \/ kind = "delete" /\ first = "detach" /\ then = "bury" /\ p \in Packs
           \/ kind = "create" /\ first = "claim" /\ then = "look" /\ c \in Chats
    PROVE  /\ Base' /\ Turn(t) /\ StoreStays /\ MapStays /\ pc[t] = "idle" /\ pc'[t] = first
           /\ RowsStay /\ key' = key /\ job'[t].kind = kind /\ job'[t].chat = c
           /\ job'[t].pack = p /\ job'[t].then = then
  <1> DEFINE q == Asking(kind, c, p, then)
  <1>1. Moving /\ LinkTypes /\ PackTypes  BY Given
  <1>2. p \in Packs \cup {None}  BY <1>1 DEF PackTypes
  <1>3. q \in JobSet /\ q.kind = kind /\ q.chat = c /\ q.pack = p /\ q.then = then
    BY <1>2, AskingRecord
  <1>4. job' = [job EXCEPT ![t] = q] /\ pc' = [pc EXCEPT ![t] = first] /\ pc[t] = "idle"
    BY DEF Begin, Asking, At
  <1> HIDE DEF q
  <1>5. Turn(t) /\ pc'[t] = first /\ job'[t] = q  BY <1>1, <1>3, <1>4, Becomes
  <1>6. Flow(t)'
    BY <1>3, <1>5 DEF Flow, Aim, Firsts, Afters, Writing, Inside, Held, Kinds
  <1>7. StoreStays /\ MapStays /\ RowsStay /\ key' = key
    BY DEF Begin, store, locks, links, history, StoreStays, MapStays, RowsStay
  <1>8. LinkTypes'
    <2>1. served' \in 0 .. Requests
      BY <1>1, WorkspaceAssumption DEF Begin, Served, LinkTypes
    <2> QED  BY <1>1, <2>1 DEF Begin, LinkTypes, links, history
  <1>9. HeardChats'  BY <1>7 DEF Base, Heard, HeardChats, RowsStay, StoreStays
  <1> QED  BY <1>3, <1>4, <1>5, <1>6, <1>7, <1>8, <1>9, LinkTurnKeepsBase

\* A request begins.
Begins(t) ==
    /\ Turn(t) /\ StoreStays /\ MapStays /\ RowsStay /\ key' = key
    /\ pc[t] = "idle" /\ pc'[t] \in {"make", "reserve", "enter", "detach", "claim"}
    /\ pc'[t] = "make" => job'[t].chat = None
    /\ pc'[t] = "enter" => job'[t].kind \in {"read", "correct"}

LEMMA AskKeepsBase ==
    ASSUME Base, NEW t \in Threads, Ask(t)
    PROVE  Base' /\ Begins(t)
  <1>1. /\ {"upload", "read", "correct", "delete", "create"} \subseteq Kinds \ {"none"}
        /\ {"make", "reserve", "enter", "detach", "claim"} \subseteq Places \ Writing
        /\ {"look", "note", "bury"} \subseteq Places
    BY DEF Kinds, Places, Writing, Inside, Held
  <1>2. \A p \in Packs : Listed(p) => p \in named
    BY DEF Listed, Base, Heard, HeardPacks
  <1>3. ASSUME NEW c \in Chats \cup {None}, Upload(t, c)
        PROVE  Base' /\ Begins(t)
    <2>1. CASE c = None
      <3>1. Begin(t, "upload", None, None, "make", "look")  BY <1>3, <2>1 DEF Upload
      <3> QED  BY <1>1, <3>1, BeginKeepsBase DEF Begins
    <2>2. CASE c \in Chats
      <3>1. Begin(t, "upload", c, None, "reserve", "look")  BY <1>3, <2>2, Nobody DEF Upload
      <3>2. /\ "upload" \in Kinds \ {"none"} /\ "reserve" \in Places \ Writing
            /\ "look" \in Places /\ None \in named \cup {None}
        BY <1>1
      <3> QED  BY <2>2, <3>1, <3>2, BeginKeepsBase DEF Begins
    <2> QED  BY <2>1, <2>2
  <1>4. ASSUME NEW p \in Packs, Read(t, p) \/ Correct(t, p)
        PROVE  Base' /\ Begins(t)
    <2>1. CASE Read(t, p)
      <3>1. p \in named /\ Begin(t, "read", None, p, "enter", "look")
        BY <1>2, <2>1 DEF Read
      <3> QED  BY <1>1, <3>1, BeginKeepsBase DEF Begins
    <2>2. CASE Correct(t, p)
      <3>1. p \in named /\ Begin(t, "correct", None, p, "enter", "note")
        BY <1>2, <2>2 DEF Correct
      <3> QED  BY <1>1, <3>1, BeginKeepsBase, SMTT(30) DEF Begins
    <2> QED  BY <1>4, <2>1, <2>2
  <1>5. ASSUME NEW p \in Packs, NEW c \in Chats \cup {None}, Delete(t, p, c)
        PROVE  Base' /\ Begins(t)
    <2>1. p \in named /\ Begin(t, "delete", c, p, "detach", "bury")
      BY <1>2, <1>5 DEF Delete
    <2> QED  BY <1>1, <2>1, BeginKeepsBase DEF Begins
  <1>6. ASSUME NEW c \in Chats, Create(t, c)
        PROVE  Base' /\ Begins(t)
    <2>1. chat[c].pack \in named \cup {None} /\ Begin(t, "create", c, chat[c].pack, "claim", "look")
      BY <1>6 DEF Create, Base, Heard, HeardChats
    <2> QED  BY <1>1, <2>1, BeginKeepsBase DEF Begins
  <1> QED  BY <1>3, <1>4, <1>5, <1>6 DEF Ask

\* A conversation gets its design.
Binds(c, w, p) ==
    /\ chat' \in [Chats -> ChatSet]
    /\ \A d \in Chats : d # c => chat'[d] = chat[d]
    /\ chat'[c].live = chat[c].live /\ chat'[c].design = w
    /\ chat'[c].pack = IF p = None THEN chat[c].pack ELSE p

LEMMA Bound ==
    ASSUME LinkTypes, NEW c \in Chats, NEW w \in Designs, NEW p \in Packs \cup {None},
           chat' = [chat EXCEPT ![c].design = w, ![c].pack = IF p = None THEN @ ELSE p]
    PROVE  Binds(c, w, p)
  <1> DEFINE r == Designing(chat[c], w)
             q == IF p = None THEN r.pack ELSE p
             s == Packing(r, q)
  <1>1. chat[c] \in ChatSet /\ chat[c].pack \in Packs \cup {None}  BY ChatFields
  <1>2. r \in ChatSet /\ r.design = w /\ r.live = chat[c].live /\ r.pack = chat[c].pack
    <2>1. None \in Packs \cup {None} /\ w \in Designs \cup {None}  OBVIOUS
    <2> QED  BY <1>1, <2>1, ChatRecord
  <1>3. q \in Packs \cup {None} /\ q = IF p = None THEN chat[c].pack ELSE p  BY <1>1, <1>2
  <1>4. chat' = [chat EXCEPT ![c] = s]
    <2>1. [chat EXCEPT ![c].design = w, ![c].pack = IF p = None THEN @ ELSE p]
             = [chat EXCEPT ![c] = [[chat[c] EXCEPT !.design = w]
                                       EXCEPT !.pack = IF p = None
                                              THEN [chat[c] EXCEPT !.design = w].pack ELSE p]]
      BY DEF LinkTypes
    <2> QED  BY <2>1 DEF Packing, Designing
  <1> HIDE DEF r, q
  <1>5. s \in ChatSet /\ s.pack = q /\ s.design = r.design /\ s.live = r.live
    <2>1. None \in Designs \cup {None}  OBVIOUS
    <2> QED  BY <1>2, <1>3, <2>1, ChatRecord
  <1> HIDE DEF s
  <1>6. /\ chat' \in [Chats -> ChatSet] /\ chat'[c] = s
        /\ \A d \in Chats : d # c => chat'[d] = chat[d]
    BY <1>4, <1>5 DEF LinkTypes
  <1> QED  BY <1>2, <1>3, <1>5, <1>6 DEF Binds

\* A step on a conversation and its links.
Linking(t) == Turn(t) /\ StoreStays /\ MapStays /\ key' = key /\ served' = served

\* The thread goes on with its request; the step of a request of its kind.
LEMMA GoingOn ==
    ASSUME Base, NEW t \in Threads, NEW s \in Places, Goto(t, s),
           \/ s = "done" /\ pc[t] # "idle"
           \/ pc[t] = "reserve" /\ s = "make"
           \/ pc[t] \in {"made", "claim"} /\ s = "enter" /\ job[t].pack \in Packs
              /\ (job[t].kind = "upload" => job[t].chat \in Chats)
           \/ pc[t] = "detach" /\ s = "enter"
           \/ pc[t] = "claim" /\ s = "accept" /\ job[t].pack = None
    PROVE  Flow(t)' /\ Goes(t, s) /\ job'[t].pack \in named \cup {None}
  <1>1. Moving /\ Flow(t) /\ job[t].pack \in named \cup {None}
    BY Given DEF Base, Heard, HeardJobs
  <1>2. Goes(t, s)  BY <1>1, GotoTurn
  <1> QED
    BY <1>1, <1>2 DEF Flow, Aim, Goes, Firsts, Afters, Writing, Inside, Held

LEMMA LinkStepsKeepBase ==
    ASSUME Base, NEW t \in Threads,
           \/ Reserve(t) \/ Made(t) \/ Link(t) \/ Cancel(t) \/ Detach(t) \/ Relink(t)
           \/ Claim(t) \/ Accept(t) \/ Bind(t) \/ Answer(t)
    PROVE  Base' /\ Linking(t)
  <1>1. /\ Moving /\ LinkTypes /\ PackTypes /\ Flow(t) /\ job[t] \in JobSet
        /\ job[t].chat \in Chats \cup {None} /\ job[t].pack \in Packs \cup {None}
    BY Given
  <1>2. {"make", "done", "enter", "accept", "bind", "idle"} \subseteq Places \ Writing
    BY DEF Places, Afters, Writing
  <1>3. HeardChats /\ job[t].pack \in named \cup {None}
    BY SMTT(30) DEF Base, Heard, HeardJobs
  <1>4. StoreStays /\ MapStays /\ key' = key /\ served' = served
    BY DEF Reserve, Made, Link, Cancel, Detach, Relink, Claim, Accept, Bind, Answer, Keep, Goto,
           store, locks, StoreStays, MapStays
  <1>5. CASE Reserve(t)
    <2>1. \E s \in {"make", "done"} : Goto(t, s)  BY <1>5 DEF Reserve
    <2>2. pc[t] = "reserve" /\ job[t].kind = "upload" /\ job[t].chat \in Chats
      BY <1>1, <1>5 DEF Reserve, At, Flow, Aim
    <2>3. Flow(t)' /\ Turn(t) /\ job'[t].pack \in named \cup {None} /\ pc'[t] \notin Writing
      BY <1>2, <2>1, <2>2, GoingOn DEF Goes
    <2>4. LinkTypes' /\ HeardChats'
      BY <1>1, <1>3, <1>4, <1>5, <2>2 DEF Reserve, Keep, history, LinkTypes, HeardChats, StoreStays
    <2> QED  BY <1>4, <2>3, <2>4, LinkTurnKeepsBase DEF Linking
  <1>6. CASE Made(t)
    <2>1. pc[t] = "made" /\ job[t].pack \in Packs  BY <1>1, <1>6 DEF Made, At, Flow
    <2>2. \/ Goto(t, "done")
          \/ Goto(t, "enter") /\ job[t].chat \in Chats
      BY <1>1, <1>6 DEF Made
    <2>3. Flow(t)' /\ Turn(t) /\ job'[t].pack \in named \cup {None} /\ pc'[t] \notin Writing
      BY <1>2, <2>1, <2>2, GoingOn DEF Goes
    <2>4. LinkTypes' /\ HeardChats'
      BY <1>1, <1>3, <1>4, <1>6
      DEF Made, Keep, history, links, LinkTypes, HeardChats, StoreStays
    <2> QED  BY <1>4, <2>3, <2>4, LinkTurnKeepsBase DEF Linking
  <1>7. CASE Link(t)
    <2>1. /\ pc[t] = "seen" /\ Goto(t, "done") /\ job[t].chat \in Chats /\ job[t].pack \in Packs
      BY <1>1, <1>7 DEF Link, At, Flow, Aim
    <2>2. Flow(t)' /\ Turn(t) /\ job'[t].pack \in named \cup {None} /\ pc'[t] \notin Writing
      BY <1>2, <2>1, GoingOn DEF Goes
    <2>3. Repacks(job[t].chat, job[t].pack)
      <3>1. chat' = [chat EXCEPT ![job[t].chat].pack = job[t].pack]  BY <1>7 DEF Link
      <3> QED  BY <1>1, <2>1, <3>1, OneRepacked
    <2>4. LinkTypes'
      <3>1. chat' \in [Chats -> ChatSet]  BY <2>3 DEF Repacks
      <3> QED  BY <1>1, <1>7, <2>1, <3>1 DEF Link, Keep, LinkTypes
    <2>5. HeardChats'  BY <1>3, <1>4, <2>3 DEF HeardChats, Repacks, StoreStays
    <2> QED  BY <1>4, <2>2, <2>4, <2>5, LinkTurnKeepsBase DEF Linking
  <1>8. CASE Cancel(t)
    <2>1. pc[t] \in {"unmade", "unseen"} /\ Goto(t, "done")  BY <1>8 DEF Cancel, At
    <2>2. Flow(t)' /\ Turn(t) /\ job'[t].pack \in named \cup {None} /\ pc'[t] \notin Writing
      BY <1>2, <2>1, GoingOn DEF Goes
    <2>3. LinkTypes' /\ HeardChats'
      <3>1. troubles' \in 0 .. MaxTroubles  BY <1>1, <1>8, Tries DEF Cancel, Tried
      <3> QED  BY <1>1, <1>3, <1>4, <1>8, <3>1 DEF Cancel, LinkTypes, HeardChats, StoreStays
    <2> QED  BY <1>4, <2>2, <2>3, LinkTurnKeepsBase DEF Linking
  <1>9. CASE Detach(t)
    <2>1. pc[t] = "detach" /\ (Goto(t, "done") \/ Goto(t, "enter"))  BY <1>9 DEF Detach, At
    <2>2. Flow(t)' /\ Turn(t) /\ job'[t].pack \in named \cup {None} /\ pc'[t] \notin Writing
      BY <1>2, <2>1, GoingOn DEF Goes
    <2>3. chat' = chat \/ Repacks(job[t].chat, None)
      <3>1. \/ chat' = chat
            \/ chat' = [d \in Chats |-> IF d = job[t].chat THEN [chat[d] EXCEPT !.pack = None]
                                        ELSE chat[d]]
        BY <1>9 DEF Detach
      <3> QED  BY <1>1, <3>1, Repacked
    <2>4. LinkTypes' /\ HeardChats'
      <3>1. chat' \in [Chats -> ChatSet]  BY <1>1, <2>3 DEF Repacks, LinkTypes
      <3>2. HeardChats'  BY <1>3, <1>4, <2>3 DEF HeardChats, Repacks, StoreStays
      <3> QED  BY <1>1, <1>9, <3>1, <3>2 DEF Detach, Keep, LinkTypes
    <2> QED  BY <1>4, <2>2, <2>4, LinkTurnKeepsBase DEF Linking
  <1>10. CASE Relink(t)
    <2>1. CASE At(t, "failed") /\ pc' = [pc EXCEPT ![t] = "enter"]
               /\ job' = [job EXCEPT ![t].then = "look"] /\ chat' = chat
      <3> DEFINE q == Going(job[t], "look")
      <3>1. /\ q \in JobSet /\ q.kind = job[t].kind /\ q.chat = job[t].chat
            /\ q.pack = job[t].pack /\ q.then = "look"
        <4>1. "look" \in Places  BY DEF Places, Inside, Held
        <4> QED  BY <1>1, <4>1, GoingRecord
      <3>2. job' = [job EXCEPT ![t] = q] /\ pc' = [pc EXCEPT ![t] = "enter"]
        BY <2>1 DEF Going
      <3> HIDE DEF q
      <3>3. Turn(t) /\ pc'[t] = "enter" /\ job'[t] = q  BY <1>1, <1>2, <3>1, <3>2, Becomes
      <3>4. pc[t] = "failed" /\ job[t].kind = "delete"  BY <1>10, <2>1 DEF Relink, At
      <3>5. job[t].pack \in Packs  BY <1>1, <3>4 DEF Flow
      <3>6. Flow(t)' /\ job'[t].pack \in named \cup {None} /\ pc'[t] \notin Writing
        BY <1>1, <1>3, <3>1, <3>3, <3>4, <3>5
        DEF Flow, Aim, Firsts, Afters, Writing, Inside, Held
      <3>7. LinkTypes' /\ HeardChats'
        BY <1>1, <1>3, <1>4, <1>10, <2>1
        DEF Relink, Keep, history, LinkTypes, HeardChats, StoreStays
      <3> QED  BY <1>4, <3>3, <3>6, <3>7, LinkTurnKeepsBase DEF Linking
    <2>2. CASE pc[t] \in {"seen", "unseen", "gone", "deleted"} /\ Goto(t, "done")
      <3>1. Flow(t)' /\ Turn(t) /\ job'[t].pack \in named \cup {None} /\ pc'[t] \notin Writing
        BY <1>2, <2>2, GoingOn DEF Goes
      <3>2. chat' = chat \/ Repacks(job[t].chat, job[t].pack)
        <4>1. \/ chat' = chat
              \/ chat' = [d \in Chats |-> IF d = job[t].chat
                                          THEN [chat[d] EXCEPT !.pack = job[t].pack]
                                          ELSE chat[d]]
          BY <1>10 DEF Relink
        <4> QED  BY <1>1, <4>1, Repacked
      <3>3. LinkTypes' /\ HeardChats'
        <4>1. chat' \in [Chats -> ChatSet]  BY <1>1, <3>2 DEF Repacks, LinkTypes
        <4>2. HeardChats'  BY <1>3, <1>4, <3>2 DEF HeardChats, Repacks, StoreStays
        <4> QED  BY <1>1, <1>10, <4>1, <4>2 DEF Relink, Keep, history, LinkTypes
      <3> QED  BY <1>4, <3>1, <3>3, LinkTurnKeepsBase DEF Linking
    <2> QED  BY <1>10, <2>1, <2>2 DEF Relink, At
  <1>11. CASE Claim(t)
    <2>1. pc[t] = "claim" /\ job[t].kind = "create"  BY <1>1, <1>11 DEF Claim, At, Flow
    <2>2. \/ Goto(t, "done")
          \/ Goto(t, "accept") /\ job[t].pack = None
          \/ Goto(t, "enter") /\ job[t].pack \in Packs
      BY <1>1, <1>11 DEF Claim
    <2>3. Flow(t)' /\ Turn(t) /\ job'[t].pack \in named \cup {None} /\ pc'[t] \notin Writing
      BY <1>2, <2>1, <2>2, GoingOn DEF Goes
    <2>4. LinkTypes' /\ HeardChats'
      BY <1>1, <1>3, <1>4, <1>11
      DEF Claim, Keep, history, links, LinkTypes, HeardChats, StoreStays
    <2> QED  BY <1>4, <2>3, <2>4, LinkTurnKeepsBase DEF Linking
  <1>12. CASE Accept(t)
    <2>1. /\ pc[t] \in {"accept", "seen"} /\ job[t].kind = "create"
      BY <1>1, <1>12 DEF Accept, At, Flow
    <2>2. LinkTypes' /\ HeardChats'
      <3>1. designs' \subseteq accepted' /\ accepted' \subseteq Designs
        BY <1>1, <1>12 DEF Accept, LinkTypes
      <3> QED
        BY <1>1, <1>3, <1>4, <1>12, <3>1
        DEF Accept, Keep, history, LinkTypes, HeardChats, StoreStays
    <2>3. CASE Goto(t, "done")
      <3>1. Flow(t)' /\ Turn(t) /\ job'[t].pack \in named \cup {None} /\ pc'[t] \notin Writing
        BY <1>2, <2>1, <2>3, GoingOn DEF Goes
      <3> QED  BY <1>4, <2>2, <3>1, LinkTurnKeepsBase DEF Linking
    <2>4. CASE \E w \in Designs \ accepted : /\ job' = [job EXCEPT ![t].revision = w]
                                             /\ pc' = [pc EXCEPT ![t] = "bind"]
      <3>1. PICK w \in Designs \ accepted : /\ job' = [job EXCEPT ![t].revision = w]
                                            /\ pc' = [pc EXCEPT ![t] = "bind"]
        BY <2>4
      <3> DEFINE q == Counting(job[t], w)
      <3>2. /\ q \in JobSet /\ q.kind = job[t].kind /\ q.chat = job[t].chat
            /\ q.pack = job[t].pack /\ q.revision = w
        <4>1. w \in Nat  BY Nobody
        <4> QED  BY <1>1, <4>1, CountingRecord
      <3>3. job' = [job EXCEPT ![t] = q] /\ pc' = [pc EXCEPT ![t] = "bind"]
        BY <3>1 DEF Counting
      <3> HIDE DEF q
      <3>4. Turn(t) /\ pc'[t] = "bind" /\ job'[t] = q  BY <1>1, <1>2, <3>2, <3>3, Becomes
      <3>5. Flow(t)' /\ job'[t].pack \in named \cup {None} /\ pc'[t] \notin Writing
        BY <1>1, <1>3, <2>1, <3>2, <3>4 DEF Flow, Aim, Firsts, Afters, Writing, Inside, Held
      <3> QED  BY <1>4, <2>2, <3>4, <3>5, LinkTurnKeepsBase DEF Linking
    <2> QED  BY <1>12, <2>3, <2>4 DEF Accept
  <1>13. CASE Bind(t)
    <2>1. pc[t] = "bind" /\ Goto(t, "done") /\ job[t].chat \in Chats
      BY <1>1, <1>13 DEF Bind, At, Flow
    <2>2. Flow(t)' /\ Turn(t) /\ job'[t].pack \in named \cup {None} /\ pc'[t] \notin Writing
      BY <1>2, <2>1, GoingOn DEF Goes
    <2>3. job[t].revision \in Designs  BY <1>1, <2>1 DEF Flow
    <2>4. chat' = chat \/ Binds(job[t].chat, job[t].revision, job[t].pack)
      <3>1. \/ chat' = chat
            \/ chat' = [chat EXCEPT ![job[t].chat].design = job[t].revision,
                                   ![job[t].chat].pack = IF job[t].pack = None
                                                         THEN @ ELSE job[t].pack]
        BY <1>13 DEF Bind
      <3> QED  BY <1>1, <2>1, <2>3, <3>1, Bound
    <2>5. LinkTypes' /\ HeardChats'
      <3>1. chat' \in [Chats -> ChatSet]  BY <1>1, <2>4 DEF Binds, LinkTypes
      <3>2. HeardChats'  BY <1>3, <1>4, <2>4 DEF HeardChats, Binds, StoreStays
      <3>3. troubles' \in 0 .. MaxTroubles  BY <1>1, <1>13, Tries DEF Bind, Tried
      <3>4. raced' \subseteq Chats /\ loose' \subseteq Designs
        BY <1>1, <1>13, <2>3 DEF Bind, LinkTypes
      <3> QED  BY <1>1, <1>13, <3>1, <3>2, <3>3, <3>4 DEF Bind, LinkTypes
    <2> QED  BY <1>4, <2>2, <2>5, LinkTurnKeepsBase DEF Linking
  <1>14. CASE Answer(t)
    <2> DEFINE q == NoJob
    <2>1. q \in JobSet /\ q.kind = "none" /\ q.pack = None  BY NoJobRecord
    <2>2. job' = [job EXCEPT ![t] = q] /\ pc' = [pc EXCEPT ![t] = "idle"]
      BY <1>14 DEF Answer
    <2> HIDE DEF q
    <2>3. Turn(t) /\ pc'[t] = "idle" /\ job'[t] = q  BY <1>1, <1>2, <2>1, <2>2, Becomes
    <2>4. Flow(t)' /\ job'[t].pack \in named \cup {None} /\ pc'[t] \notin Writing
      BY <2>1, <2>3 DEF Flow, Aim, Firsts, Afters, Writing, Inside, Held
    <2>5. LinkTypes' /\ HeardChats'
      BY <1>1, <1>3, <1>4, <1>14
      DEF Answer, Keep, history, links, LinkTypes, HeardChats, StoreStays
    <2> QED  BY <1>4, <2>3, <2>4, <2>5, LinkTurnKeepsBase DEF Linking
  <1> QED
    BY <1>5, <1>6, <1>7, <1>8, <1>9, <1>10, <1>11, <1>12, <1>13, <1>14

-----------------------------------------------------------------------------
(* Steps that are nobody's turn.                                           *)

\* A request served in one step.
OneRequest == StoreStays /\ MapStays /\ pc' = pc /\ job' = job /\ key' = key /\ owner' = owner
              /\ Free

LEMMA OneStepKeepsBase ==
    ASSUME Base, OneRequest, LinkTypes', HeardChats'
    PROVE  Base'
  <1>1. PackTypes' /\ HeardPacks'
    BY DEF Base, PackTypes, Heard, HeardPacks, StoreStays, OneRequest
  <1>2. Moving' /\ (\A t \in Threads : Flow(t))'
    BY DEF Base, Moving, Flow, Aim, OneRequest
  <1>3. HeardJobs' /\ Sole'
    BY DEF Base, Heard, HeardJobs, Sole, OneRequest, StoreStays
  <1> QED  BY <1>1, <1>2, <1>3 DEF Base, Heard

LEMMA OneStepIsOne ==
    ASSUME OneStep
    PROVE  OneRequest /\ Served /\ troubles' = troubles
  BY DEF OneStep, OneRequest, store, locks, flow, StoreStays, MapStays

LEMMA ServedTypes ==
    ASSUME LinkTypes, Served
    PROVE  served' \in 0 .. Requests
  BY WorkspaceAssumption DEF LinkTypes, Served

\* Rows that went.
Gone(cs) == /\ chat' \in [Chats -> ChatSet]
            /\ \A c \in Chats : chat'[c] = IF c \in cs THEN Absent ELSE chat[c]

LEMMA DeleteDesignKeepsBase ==
    ASSUME Base, NEW w \in Designs, DeleteDesign(w)
    PROVE  Base' /\ OneRequest
  <1>1. OneRequest /\ Served /\ troubles' = troubles
    BY OneStepIsOne DEF DeleteDesign
  <1>2. LinkTypes /\ served' \in 0 .. Requests
    BY <1>1, ServedTypes DEF Base
  <1>3. LinkTypes'
    BY <1>1, <1>2 DEF LinkTypes, DeleteDesign, history, OneRequest
  <1>4. HeardChats'
    BY <1>1 DEF Base, Heard, HeardChats, DeleteDesign, OneRequest, StoreStays
  <1> QED  BY <1>1, <1>3, <1>4, OneStepKeepsBase

LEMMA DeleteChatsKeepsBase ==
    ASSUME Base, NEW cs \in SUBSET Chats, DeleteChats(cs)
    PROVE  Base' /\ OneRequest /\ Gone(cs)
  <1>1. OneRequest /\ Served /\ troubles' = troubles
    BY OneStepIsOne DEF DeleteChats
  <1>2. LinkTypes /\ served' \in 0 .. Requests
    BY <1>1, ServedTypes DEF Base
  <1>3. Gone(cs)
    BY <1>2, NewChatRecord DEF LinkTypes, DeleteChats, Gone
  <1>4. loose' \subseteq Designs
    <2>1. \A c \in cs : chat[c].design \in Designs \cup {None}  BY <1>2, ChatFields
    <2> QED  BY <1>2, <2>1 DEF LinkTypes, DeleteChats
  <1>5. LinkTypes'
    <2>1. chat' \in [Chats -> ChatSet]  BY <1>3 DEF Gone
    <2> QED  BY <1>1, <1>2, <1>4, <2>1 DEF LinkTypes, DeleteChats, OneRequest
  <1>6. HeardChats'
    <2>1. \A c \in Chats : chat'[c].pack \in named \cup {None}
      BY <1>3, NewChatRecord DEF Gone, Base, Heard, HeardChats
    <2> QED  BY <1>1, <2>1 DEF HeardChats, OneRequest, StoreStays
  <1> QED  BY <1>1, <1>3, <1>5, <1>6, OneStepKeepsBase

LEMMA CreateChatKeepsBase ==
    ASSUME Base, NEW c \in Chats, CreateChat(c)
    PROVE  /\ Base' /\ OneRequest
           /\ \E w \in designs \cup {None} :
                 /\ w # None => \A d \in Chats : chat[d].design # w
                 /\ chat'[c] = Opened(w) /\ (\A d \in Chats : d # c => chat'[d] = chat[d])
                 /\ loose' = loose \ {w}
  <1>1. OneRequest /\ Served /\ troubles' = troubles
    BY OneStepIsOne DEF CreateChat
  <1>2. LinkTypes /\ served' \in 0 .. Requests
    BY <1>1, ServedTypes DEF Base
  <1>3. PICK w \in designs \cup {None} :
               /\ w # None => \A d \in Chats : chat[d].design # w
               /\ chat' = [chat EXCEPT ![c] = Opened(w)]
               /\ loose' = loose \ {w}
    BY DEF CreateChat, Opened
  <1>4. Opened(w) \in ChatSet /\ Opened(w).pack = None
    <2>1. w \in Designs \cup {None}  BY <1>2 DEF LinkTypes
    <2> QED  BY <2>1, NewChatRecord
  <1>5. chat' \in [Chats -> ChatSet] /\ chat'[c] = Opened(w)
        /\ \A d \in Chats : d # c => chat'[d] = chat[d]
    BY <1>2, <1>3, <1>4 DEF LinkTypes
  <1>6. LinkTypes'
    BY <1>1, <1>2, <1>3, <1>5 DEF LinkTypes, CreateChat, OneRequest
  <1>7. HeardChats'
    BY <1>1, <1>4, <1>5 DEF Base, Heard, HeardChats, OneRequest, StoreStays
  <1> QED  BY <1>1, <1>3, <1>5, <1>6, <1>7, OneStepKeepsBase

LEMMA PatchPackKeepsBase ==
    ASSUME Base, NEW c \in Chats, NEW p \in Packs \cup {None}, PatchPack(c, p)
    PROVE  Base' /\ OneRequest /\ Repacks(c, p)
  <1>1. OneRequest /\ Served /\ troubles' = troubles
    BY OneStepIsOne DEF PatchPack
  <1>2. LinkTypes /\ served' \in 0 .. Requests
    BY <1>1, ServedTypes DEF Base
  <1>3. Repacks(c, p)
    <2>1. chat' = [chat EXCEPT ![c].pack = p]  BY DEF PatchPack
    <2> QED  BY <1>2, <2>1, OneRepacked
  <1>4. LinkTypes'
    BY <1>1, <1>2, <1>3 DEF LinkTypes, PatchPack, OneRequest, Repacks
  <1>5. HeardChats'
    <2>1. p \in named \cup {None}
      BY DEF PatchPack, Known, Base, Heard, HeardPacks
    <2> QED  BY <1>1, <1>3, <2>1 DEF Base, Heard, HeardChats, OneRequest, StoreStays, Repacks
  <1> QED  BY <1>1, <1>3, <1>4, <1>5, OneStepKeepsBase

\* After a death nobody is at work.
Idle == \A t \in Threads : pc[t] = "idle" /\ job[t] = NoJob /\ key[t] = None

LEMMA IdleFlows ==
    pc = [t \in Threads |-> "idle"] /\ job = [t \in Threads |-> NoJob]
       => Moving /\ (\A t \in Threads : Flow(t)) /\ HeardJobs /\ Sole
  <1> SUFFICES ASSUME pc = [t \in Threads |-> "idle"], job = [t \in Threads |-> NoJob]
               PROVE  Moving /\ (\A t \in Threads : Flow(t)) /\ HeardJobs /\ Sole
    OBVIOUS
  <1> DEFINE q == NoJob
  <1>1. q \in JobSet /\ q.kind = "none" /\ q.pack = None  BY NoJobRecord
  <1>2. job = [t \in Threads |-> q]  OBVIOUS
  <1> HIDE DEF q
  <1>3. "idle" \in Places  BY DEF Places
  <1>4. Moving  BY <1>1, <1>2, <1>3 DEF Moving
  <1>5. \A t \in Threads : Flow(t)
    BY <1>1, <1>2 DEF Flow, Aim, Firsts, Afters, Writing, Inside, Held
  <1>6. HeardJobs  BY <1>1, <1>2 DEF HeardJobs
  <1>7. Sole  BY DEF Sole, Writing
  <1> QED  BY <1>4, <1>5, <1>6, <1>7

LEMMA DieKeepsBase ==
    ASSUME Base, Die
    PROVE  Base'
  <1>0. (pc = [t \in Threads |-> "idle"] /\ job = [t \in Threads |-> NoJob])'
    BY DEF Die
  <1>1. (Moving /\ (\A t \in Threads : Flow(t)) /\ HeardJobs /\ Sole)'
    BY <1>0, IdleFlows, PTL
  <1>2. PackTypes' /\ HeardPacks'
    BY DEF Base, PackTypes, Heard, HeardPacks, Die
  <1>3. LinkTypes'
    <2>1. troubles' \in 0 .. MaxTroubles  BY Tries DEF Base, Die, Tried
    <2>2. loose' \subseteq Designs
      <3>1. \A t \in Threads : pc[t] = "bind" => job[t].revision \in Designs
        BY DEF Base, Flow
      <3> QED  BY <3>1 DEF Base, LinkTypes, Die, At
    <2> QED  BY <2>1, <2>2 DEF Base, LinkTypes, Die
  <1>4. HeardChats'  BY DEF Base, Heard, HeardChats, Die
  <1> QED  BY <1>1, <1>2, <1>3, <1>4 DEF Base, Heard

LEMMA InitHasBase ==
    ASSUME Init
    PROVE  Base
  <1>1. Moving /\ (\A t \in Threads : Flow(t)) /\ HeardJobs /\ Sole
    BY IdleFlows DEF Init
  <1>2. PackTypes /\ HeardPacks
    <2>1. \A p \in Packs :
             /\ file[p] = [f \in Files |-> IF p \in named THEN 1 ELSE 0]
             /\ tomb[p] = Nothing
      BY DEF Init
    <2>2. \A p \in Packs : p \notin named => file[p] = Nothing
      BY <2>1 DEF Nothing
    <2>3. /\ file \in [Packs -> [Files -> Revision]] /\ tomb \in [Packs -> [Files -> Revision]]
          /\ memory \in [Packs -> Revision]
      BY Nobody, NothingFile DEF Init
    <2>4. dirs = named /\ named \subseteq Packs /\ buried = {} /\ torn = {} /\ lost = {}
      BY DEF Init
    <2> QED  BY <2>1, <2>2, <2>3, <2>4 DEF PackTypes, HeardPacks
  <1>3. LinkTypes
    <2>1. chat \in [Chats -> ChatSet]
      <3>1. [live : {TRUE}, design : {None}, pack : named \cup {None}] \subseteq ChatSet
        BY DEF ChatSet, Init
      <3> QED  BY <3>1 DEF Init
    <2> QED  BY <2>1, Nobody, PackAssumption, WorkspaceAssumption DEF LinkTypes, Init
  <1>4. HeardChats  BY DEF HeardChats, Init
  <1> QED  BY <1>1, <1>2, <1>3, <1>4 DEF Base, Heard

-----------------------------------------------------------------------------
(* The lock objects.                                                       *)

LEMMA UsersFinite ==
    ASSUME NEW p
    PROVE  /\ IsFiniteSet(Users(p)) /\ Cardinality(Users(p)) \in 0 .. Cardinality(Threads)
           /\ Cardinality(Threads) \in Nat
  <1>1. Users(p) \in SUBSET Threads  BY DEF Users
  <1>2. IsFiniteSet(Threads)  BY PackAssumption
  <1>3. IsFiniteSet(Users(p)) /\ Cardinality(Users(p)) <= Cardinality(Threads)
    BY <1>1, <1>2, FS_Subset
  <1>4. Cardinality(Users(p)) \in Nat /\ Cardinality(Threads) \in Nat
    BY <1>2, <1>3, FS_CardinalityType
  <1> QED  BY <1>3, <1>4

\* Among the lock objects one is free when a thread enters: the others use one each.
LEMMA KeyLeft ==
    ASSUME NEW t \in Threads, key[t] = None
    PROVE  FreeKey \in Keys /\ \A u \in Threads : key[u] # FreeKey
  <1> DEFINE Rivals == Threads \ {t}
             Taken  == {key[u] : u \in Rivals}
             f      == [u \in Rivals |-> key[u]]
  <1>1. IsFiniteSet(Rivals) /\ Cardinality(Rivals) = Cardinality(Threads) - 1
        /\ Cardinality(Threads) \in Nat
    BY PackAssumption, FS_RemoveElement, FS_CardinalityType
  <1>2. f \in Surjection(Rivals, Taken)
    BY DEF Surjection
  <1>3. IsFiniteSet(Taken) /\ Cardinality(Taken) <= Cardinality(Rivals)
    BY <1>1, <1>2, FS_Surjection
  <1>4. PICK k \in Keys : k \notin Taken
    <2> SUFFICES ASSUME Keys \in SUBSET Taken PROVE FALSE  OBVIOUS
    <2> HIDE DEF Taken, Rivals
    <2>1. Cardinality(Keys) <= Cardinality(Taken)
      BY <1>3, FS_Subset
    <2>2. Cardinality(Keys) = Cardinality(Threads)
      BY <1>1, FS_Interval DEF Keys
    <2>3. Cardinality(Taken) \in Nat  BY <1>3, FS_CardinalityType
    <2> QED  BY <1>1, <1>3, <2>1, <2>2, <2>3
  <1>5. k # None  BY <1>1 DEF Keys, None
  <1>6. \A u \in Threads : key[u] # k  BY <1>4, <1>5
  <1> QED  BY <1>6 DEF FreeKey

\* A step that neither takes nor leaves a lock.
LEMMA OutsideKeepsLocks ==
    ASSUME Locked, MapStays, key' = key,
           \A t \in Threads : /\ pc'[t] \in Inside <=> pc[t] \in Inside
                              /\ pc'[t] \in Inside => job'[t].pack = job[t].pack
                              /\ pc'[t] \in Held => pc[t] \in Held
    PROVE  Locked'
  <1>1. \A p : Users(p)' = Users(p)  BY DEF Users
  <1>2. Entries'  BY <1>1 DEF Locked, LockMap, Entries, MapStays
  <1>3. Owners'  BY DEF Locked, LockMap, Owners, MapStays
  <1>4. Apart' /\ Alone'  BY DEF Locked, LockMap, Apart, Alone, MapStays, Holds
  <1>5. LockTypes'  BY DEF Locked, LockTypes, MapStays
  <1> QED  BY <1>2, <1>3, <1>4, <1>5 DEF Locked, LockMap

\* A turn of a thread outside, or of one inside that stays there.
LEMMA TurnKeepsLocks ==
    ASSUME Locked, NEW t \in Threads, Turn(t), MapStays, key' = key,
           \/ pc[t] \notin Inside /\ pc'[t] \notin Inside
           \/ /\ pc[t] \in Held /\ pc'[t] \in Inside /\ job'[t].pack = job[t].pack
    PROVE  Locked'
  <1>1. \A u \in Threads : u # t => pc'[u] = pc[u] /\ job'[u] = job[u]
    BY DEF Turn, Others
  <1>2. Held \subseteq Inside  BY DEF Inside
  <1>3. \A u \in Threads : /\ pc'[u] \in Inside <=> pc[u] \in Inside
                           /\ pc'[u] \in Inside => job'[u].pack = job[u].pack
                           /\ pc'[u] \in Held => pc[u] \in Held
    BY <1>1, <1>2
  <1> QED  BY <1>3, OutsideKeepsLocks

LEMMA EnterKeepsLocks ==
    ASSUME Base, Locked, NEW t \in Threads, Enter(t)
    PROVE  Locked'
  <1>a. PICK p \in Packs : p = job[t].pack
    BY Working DEF Enter
  <1> DEFINE k == IF table[p] # None THEN table[p] ELSE FreeKey
  <1>0. /\ pc[t] = "enter" /\ key[t] = None /\ pc[t] \notin Inside
        /\ Moving /\ LockTypes
    <2>1. pc[t] = "enter"  BY DEF Enter
    <2>2. pc[t] \notin Inside  BY <2>1 DEF Inside, Held
    <2> QED  BY <2>1, <2>2 DEF Locked, LockMap, Owners, Base
  <1>1. /\ k \in Keys /\ k # None
        /\ table[p] # None => k = table[p]
        /\ table[p] = None => \A u \in Threads : key[u] # k
    <2>1. None \notin Keys  BY DEF Keys, None
    <2>2. CASE table[p] = None  BY <1>0, <2>1, <2>2, KeyLeft
    <2>3. CASE table[p] # None  BY <1>0, <2>1, <2>3 DEF LockTypes
    <2> QED  BY <2>2, <2>3
  <1>2. /\ pc' = [pc EXCEPT ![t] = "wait"] /\ job' = job
        /\ table' = [table EXCEPT ![p] = k] /\ key' = [key EXCEPT ![t] = k]
        /\ users' = [users EXCEPT ![p] = @ + 1]
    BY <1>a DEF Enter
  <1> HIDE DEF k
  <1>3. p = job[t].pack  BY <1>a
  <1>4. "wait" \in Inside /\ "wait" \notin Held  BY DEF Inside, Held
  <1>5. /\ pc'[t] = "wait" /\ key'[t] = k
        /\ \A u \in Threads \ {t} : pc'[u] = pc[u] /\ key'[u] = key[u]
        /\ table'[p] = k /\ users'[p] = users[p] + 1
        /\ \A q \in Packs \ {p} : table'[q] = table[q] /\ users'[q] = users[q]
    BY <1>0, <1>2 DEF LockTypes, Moving
  <1>6. /\ Users(p)' = Users(p) \cup {t} /\ t \notin Users(p)
        /\ \A q \in Packs \ {p} : Users(q)' = Users(q)
    BY <1>0, <1>2, <1>3, <1>4, <1>5 DEF Users
  <1>7. Cardinality(Users(p)') = Cardinality(Users(p)) + 1
    BY <1>6, UsersFinite, FS_AddElement
  <1>8. Entries'
    <2> SUFFICES ASSUME NEW q \in Packs
                 PROVE  users'[q] = Cardinality(Users(q)') /\ (table'[q] = None <=> Users(q)' = {})
      BY DEF Entries
    <2>1. users[q] = Cardinality(Users(q)) /\ (table[q] = None <=> Users(q) = {})
      BY DEF Locked, LockMap, Entries
    <2>2. CASE q = p
      <3>1. users'[p] = Cardinality(Users(p)')  BY <1>5, <1>7, <2>1, <2>2
      <3>2. table'[p] # None /\ Users(p)' # {}  BY <1>1, <1>5, <1>6
      <3> QED  BY <2>2, <3>1, <3>2
    <2>3. CASE q # p  BY <1>5, <1>6, <2>1, <2>3
    <2> QED  BY <2>2, <2>3
  <1>9. Owners'
    <2> SUFFICES ASSUME NEW u \in Threads
                 PROVE  key'[u] = IF pc'[u] \in Inside THEN table'[job'[u].pack] ELSE None
      BY DEF Owners
    <2>1. key[u] = IF pc[u] \in Inside THEN table[job[u].pack] ELSE None
      BY DEF Locked, LockMap, Owners
    <2>2. CASE u = t  BY <1>2, <1>3, <1>4, <1>5, <2>2
    <2>3. CASE u # t
      <3>1. pc[u] \in Inside => job[u].pack \in Packs  BY Working
      <3>2. pc[u] \in Inside /\ job[u].pack = p => table[p] # None
        <4>1. table[p] = None <=> Users(p) = {}  BY <1>0 DEF Locked, LockMap, Entries
        <4> QED  BY <4>1 DEF Users
      <3> QED  BY <1>1, <1>2, <1>5, <2>1, <2>3, <3>1, <3>2
    <2> QED  BY <2>2, <2>3
  <1>10. Apart'
    <2> SUFFICES ASSUME NEW q \in Packs, NEW r \in Packs, table'[q] # None, table'[q] = table'[r],
                        q # r
                 PROVE  FALSE
      BY DEF Apart
    <2>1. \A s \in Packs : table[s] # None => \E u \in Threads : key[u] = table[s]
      <3> SUFFICES ASSUME NEW s \in Packs, table[s] # None
                   PROVE  \E u \in Threads : key[u] = table[s]
        OBVIOUS
      <3>1. PICK u \in Threads : pc[u] \in Inside /\ job[u].pack = s
        BY DEF Locked, LockMap, Entries, Users
      <3> QED  BY <3>1 DEF Locked, LockMap, Owners
    <2>2. \A s \in Packs : s # p /\ table[s] # None => table[s] # k
      <3> SUFFICES ASSUME NEW s \in Packs, s # p, table[s] # None, table[s] = k
                   PROVE  FALSE
        OBVIOUS
      <3>1. table[p] = k  BY <1>1, <2>1
      <3> QED  BY <1>0, <1>1, <3>1 DEF Locked, LockMap, Apart
    <2> QED  BY <1>0, <1>1, <1>5, <2>2 DEF Locked, LockMap, Apart
  <1>11. Alone'
    <2>1. \A u \in Threads : pc'[u] \in Held => u # t /\ pc[u] \in Held  BY <1>4, <1>5
    <2> QED  BY <1>5, <2>1 DEF Locked, LockMap, Alone, Holds
  <1>12. LockTypes'
    <2>1. users[p] + 1 \in 0 .. Cardinality(Threads)
      <3>1. users[p] = Cardinality(Users(p))  BY <1>0 DEF Locked, LockMap, Entries
      <3>2. Cardinality(Users(p)') \in 0 .. Cardinality(Threads)
        <4>1. Users(p)' \in SUBSET Threads  BY <1>6 DEF Users
        <4>2. IsFiniteSet(Threads)  BY PackAssumption
        <4>3. IsFiniteSet(Users(p)') /\ Cardinality(Users(p)') <= Cardinality(Threads)
          BY <4>1, <4>2, FS_Subset
        <4>4. Cardinality(Users(p)') \in Nat  BY <4>3, FS_CardinalityType
        <4> QED  BY <4>2, <4>3, <4>4, FS_CardinalityType
      <3> QED  BY <1>7, <3>1, <3>2
    <2> QED  BY <1>0, <1>1, <1>2, <2>1 DEF LockTypes
  <1> QED  BY <1>8, <1>9, <1>10, <1>11, <1>12 DEF Locked, LockMap

LEMMA AcquireKeepsLocks ==
    ASSUME Base, Locked, NEW t \in Threads, Acquire(t)
    PROVE  Locked'
  <1>1. /\ pc[t] = "wait" /\ Goes(t, job[t].then) /\ job[t].then \in Firsts
        /\ \A u \in Threads : pc[u] \in Held => key[u] # key[t]
    <2>1. pc[t] = "wait" /\ job[t].then \in Places /\ Flow(t) /\ Moving
      BY Given DEF Acquire
    <2>2. Goes(t, job[t].then)  BY <2>1, GotoTurn DEF Acquire
    <2> QED  BY <2>1, <2>2 DEF Acquire, Flow, Holds
  <1>2. MapStays  BY DEF Acquire, locks, MapStays
  <1>3. /\ pc[t] \in Inside /\ pc'[t] \in Inside /\ key' = key
        /\ \A u \in Threads : u # t => pc'[u] = pc[u]
        /\ \A u \in Threads : job'[u] = job[u]
    BY <1>1 DEF Goes, Turn, Others, Firsts, Inside, Held
  <1>4. \A p : Users(p)' = Users(p)  BY <1>3 DEF Users
  <1>5. Entries'  BY <1>2, <1>4 DEF Locked, LockMap, Entries, MapStays
  <1>6. Owners' /\ Apart'  BY <1>2, <1>3 DEF Locked, LockMap, Owners, Apart, MapStays
  <1>7. Alone'  BY <1>1, <1>3 DEF Locked, LockMap, Alone, Holds
  <1>8. LockTypes'  BY <1>2, <1>3 DEF Locked, LockTypes, MapStays
  <1> QED  BY <1>5, <1>6, <1>7, <1>8 DEF Locked, LockMap

LEMMA LeaveKeepsLocks ==
    ASSUME Base, Locked, NEW t \in Threads, Leave(t)
    PROVE  Locked'
  <1>a. PICK p \in Packs : p = job[t].pack
    BY Working DEF Leave, Inside
  <1>0. /\ pc[t] = "leave" /\ pc[t] \in Inside /\ t \in Users(p)
        /\ job[t].then \notin Inside /\ Moving /\ LockTypes
    <2>1. pc[t] = "leave" /\ Flow(t)  BY Given DEF Leave
    <2>2. pc[t] \in Inside  BY <2>1 DEF Inside
    <2>3. job[t].then \notin Inside  BY <2>1 DEF Flow, Afters, Inside, Held
    <2> QED  BY <1>a, <2>1, <2>2, <2>3 DEF Users, Locked, Base
  <1>1. /\ pc' = [pc EXCEPT ![t] = job[t].then] /\ job' = job /\ key' = [key EXCEPT ![t] = None]
        /\ users' = [users EXCEPT ![p] = @ - 1]
        /\ table' = [table EXCEPT ![p] = IF users[p] = 1 THEN None ELSE @]
    BY <1>a DEF Leave
  <1>2. p = job[t].pack  BY <1>a
  <1>3. /\ pc'[t] \notin Inside /\ key'[t] = None
        /\ \A u \in Threads \ {t} : pc'[u] = pc[u] /\ key'[u] = key[u]
        /\ users'[p] = users[p] - 1 /\ table'[p] = IF users[p] = 1 THEN None ELSE table[p]
        /\ \A q \in Packs \ {p} : table'[q] = table[q] /\ users'[q] = users[q]
    BY <1>0, <1>1 DEF LockTypes, Moving
  <1>4. /\ Users(p)' = Users(p) \ {t} /\ \A q \in Packs \ {p} : Users(q)' = Users(q)
    BY <1>0, <1>1, <1>2, <1>3 DEF Users
  <1>5. /\ users[p] = Cardinality(Users(p)) /\ users[p] \in 1 .. Cardinality(Threads)
        /\ Cardinality(Users(p)') = users[p] - 1 /\ (Users(p)' = {} <=> users[p] = 1)
    <2>1. users[p] = Cardinality(Users(p))  BY <1>0 DEF Locked, LockMap, Entries
    <2>2. IsFiniteSet(Users(p)) /\ users[p] \in 0 .. Cardinality(Threads)
      BY <2>1, UsersFinite
    <2>3. users[p] # 0  BY <1>0, <2>1, <2>2, FS_EmptySet
    <2>4. IsFiniteSet(Users(p)') /\ Cardinality(Users(p)') = users[p] - 1
      BY <1>0, <1>4, <2>1, <2>2, FS_RemoveElement
    <2>5. Users(p)' = {} <=> Cardinality(Users(p)') = 0  BY <2>4, FS_EmptySet
    <2> QED  BY <2>1, <2>2, <2>3, <2>4, <2>5, UsersFinite
  <1>6. Entries'
    <2> SUFFICES ASSUME NEW q \in Packs
                 PROVE  users'[q] = Cardinality(Users(q)') /\ (table'[q] = None <=> Users(q)' = {})
      BY DEF Entries
    <2>1. users[q] = Cardinality(Users(q)) /\ (table[q] = None <=> Users(q) = {})
      BY DEF Locked, LockMap, Entries
    <2>2. CASE q = p
      <3>1. users'[p] = Cardinality(Users(p)')  BY <1>3, <1>5
      <3>2. table'[p] = None <=> Users(p)' = {}  BY <1>0, <1>3, <1>5, <2>1, <2>2
      <3> QED  BY <2>2, <3>1, <3>2
    <2>3. CASE q # p  BY <1>3, <1>4, <2>1, <2>3
    <2> QED  BY <2>2, <2>3
  <1>7. Owners'
    <2> SUFFICES ASSUME NEW u \in Threads
                 PROVE  key'[u] = IF pc'[u] \in Inside THEN table'[job'[u].pack] ELSE None
      BY DEF Owners
    <2>1. key[u] = IF pc[u] \in Inside THEN table[job[u].pack] ELSE None
      BY DEF Locked, LockMap, Owners
    <2>2. CASE u = t  BY <1>3, <2>2
    <2>3. CASE u # t
      <3>1. pc[u] \in Inside => job[u].pack \in Packs  BY Working
      <3>2. pc[u] \in Inside /\ job[u].pack = p => users[p] # 1
        <4>1. pc[u] \in Inside /\ job[u].pack = p => u \in Users(p)'
          BY <1>4, <2>3 DEF Users
        <4> QED  BY <1>5, <4>1
      <3> QED  BY <1>1, <1>3, <2>1, <2>3, <3>1, <3>2
    <2> QED  BY <2>2, <2>3
  <1>8. Apart'  BY <1>0, <1>3 DEF Locked, LockMap, Apart
  <1>9. Alone'
    <2>1. \A u \in Threads : pc'[u] \in Held => u # t /\ pc[u] \in Held
      BY <1>3 DEF Inside
    <2> QED  BY <1>3, <2>1 DEF Locked, LockMap, Alone, Holds
  <1>10. LockTypes'
    <2>1. users[p] - 1 \in 0 .. Cardinality(Threads)  BY <1>5, UsersFinite
    <2> QED  BY <1>0, <1>1, <2>1 DEF LockTypes
  <1> QED  BY <1>6, <1>7, <1>8, <1>9, <1>10 DEF Locked, LockMap

\* Nobody is inside.
Unlocked == /\ pc = [t \in Threads |-> "idle"] /\ key = [t \in Threads |-> None]
            /\ table = [p \in Packs |-> None] /\ users = [p \in Packs |-> 0]

LEMMA IdleLocks == Unlocked => Locked
  <1> SUFFICES ASSUME Unlocked PROVE Locked  OBVIOUS
  <1> USE DEF Unlocked
  <1>1. "idle" \notin Inside  BY DEF Inside, Held
  <1>2. \A p : Users(p) = {}  BY <1>1 DEF Users
  <1>3. Entries
    BY <1>2, FS_EmptySet DEF Entries
  <1>4. Owners  BY <1>1 DEF Owners
  <1>5. Apart  BY DEF Apart
  <1>6. Alone  BY <1>1 DEF Alone, Holds, Inside
  <1>7. LockTypes
    <2>1. Cardinality(Threads) \in Nat  BY UsersFinite
    <2> QED  BY <2>1 DEF LockTypes
  <1> QED  BY <1>3, <1>4, <1>5, <1>6, <1>7 DEF Locked, LockMap

LEMMA PackStepsKeepLocks ==
    ASSUME Base, Locked, NEW t \in Threads, PackStep(t), LinksStay
    PROVE  Locked'
  <1>1. CASE Enter(t) \/ Acquire(t) \/ Leave(t)
    BY <1>1, EnterKeepsLocks, AcquireKeepsLocks, LeaveKeepsLocks
  <1>2. CASE Make(t)
    <2>1. Turn(t) /\ pc[t] \notin Inside /\ pc'[t] \notin Inside
      BY <1>2, MakeKeepsBase DEF Goes, Inside, Held
    <2>2. MapStays /\ key' = key  BY <1>2 DEF Make, MapStays, locks, Goto
    <2> QED  BY <2>1, <2>2, TurnKeepsLocks
  <1>3. CASE Publish(t) \/ Remember(t) \/ ReportMemory(t) \/ Unmake(t)
    <2>1. Turn(t) /\ pc[t] \notin Inside /\ pc'[t] \notin Inside /\ key' = key
      BY <1>3, Turns DEF Goes, Inside, Held
    <2>2. MapStays  BY <1>3 DEF Publish, Remember, ReportMemory, Unmake, MapStays, locks
    <2> QED  BY <2>1, <2>2, TurnKeepsLocks
  <1>4. CASE Look(t) \/ Revise(t) \/ Bury(t) \/ Purge(t) \/ Remove(t)
    <2>1. /\ Turn(t) /\ pc[t] \in Held /\ pc'[t] \in Inside /\ key' = key
          /\ job'[t].pack = job[t].pack
      BY <1>4, Turns, SMTT(30) DEF Goes, Leaves, Kept, Inside, Held
    <2>2. MapStays  BY <1>4 DEF Look, Revise, Bury, Purge, Remove, MapStays, locks
    <2> QED  BY <2>1, <2>2, TurnKeepsLocks
  <1>5. CASE Note(t)
    <2>1. /\ Turn(t) /\ pc[t] \in Held /\ pc'[t] \in Inside /\ key' = key
          /\ job'[t].pack = job[t].pack
      BY <1>5, Noted DEF Revising, Leaves, Kept, Inside, Held
    <2>2. MapStays  BY <1>5 DEF Note, MapStays, locks
    <2> QED  BY <2>1, <2>2, TurnKeepsLocks
  <1> QED  BY <1>1, <1>2, <1>3, <1>4, <1>5 DEF PackStep

LEMMA AskKeepsLocks ==
    ASSUME Locked, NEW t \in Threads, Begins(t)
    PROVE  Locked'
  BY TurnKeepsLocks DEF Begins, Inside, Held

\* Steps on links are taken outside the lock of a pack.
LEMMA LinkStepsOutside ==
    ASSUME Base, NEW t \in Threads,
           \/ Reserve(t) \/ Made(t) \/ Link(t) \/ Cancel(t) \/ Detach(t) \/ Relink(t)
           \/ Claim(t) \/ Accept(t) \/ Bind(t) \/ Answer(t)
    PROVE  /\ pc[t] \in {"reserve", "made", "seen", "unseen", "unmade", "detach", "failed", "gone",
                         "deleted", "claim", "accept", "bind", "done"}
           /\ pc'[t] \in {"make", "done", "enter", "accept", "bind", "idle"}
  <1>1. Moving  BY Given
  <1> QED
    BY <1>1 DEF Reserve, Made, Link, Cancel, Detach, Relink, Claim, Accept, Bind, Answer, At, Goto,
                Moving

LEMMA LinkStepsKeepLocks ==
    ASSUME Base, Locked, NEW t \in Threads,
           \/ Reserve(t) \/ Made(t) \/ Link(t) \/ Cancel(t) \/ Detach(t) \/ Relink(t)
           \/ Claim(t) \/ Accept(t) \/ Bind(t) \/ Answer(t)
    PROVE  Locked'
  <1>1. Linking(t)  BY LinkStepsKeepBase
  <1>2. pc[t] \notin Inside /\ pc'[t] \notin Inside  BY LinkStepsOutside DEF Inside, Held
  <1> QED  BY <1>1, <1>2, TurnKeepsLocks DEF Linking

LEMMA OneStepKeepsLocks ==
    ASSUME Locked, OneRequest
    PROVE  Locked'
  BY OutsideKeepsLocks DEF OneRequest

LEMMA DieKeepsLocks ==
    ASSUME Die
    PROVE  Locked'
  <1>1. Unlocked'  BY DEF Die, Unlocked
  <1> QED  BY <1>1, IdleLocks, PTL

\* One thread has the lock of a pack.
LEMMA OneHolder ==
    ASSUME Locked, NEW t \in Threads, NEW u \in Threads, pc[t] \in Held, pc[u] \in Held,
           job[t].pack = job[u].pack
    PROVE  t = u
  BY DEF Locked, LockMap, Owners, Alone, Holds, Inside

-----------------------------------------------------------------------------
(* The files of a pack, its tombstone and its memory.                      *)

Busy == {"publish", "revise", "purge", "remove"}

\* A step that changes no pack, by threads that are at no work on one.
LEMMA StoreLeft ==
    ASSUME Stored, StoreStays,
           \A u \in Threads : \/ pc'[u] = pc[u] /\ job'[u] = job[u]
                              \/ pc[u] \notin Busy /\ pc'[u] \notin Busy
    PROVE  Stored'
  <1> SUFFICES ASSUME NEW p \in Packs PROVE AtPack(p)'
    BY DEF Stored
  <1>0. AtPack(p)  BY DEF Stored
  <1>1. Chain(file[p])' /\ Chain(tomb[p])'  BY <1>0 DEF AtPack, Chain, StoreStays
  <1>2. \A u \in Threads : (pc[u] \in Busy \/ pc'[u] \in Busy) => pc'[u] = pc[u] /\ job'[u] = job[u]
    OBVIOUS
  <1>3. Settled(p)' /\ Remembered(p)'
    BY <1>0, <1>2 DEF AtPack, Settled, Remembered, Agree, StoreStays, Busy
  <1>4. ASSUME NEW u \in Threads, job'[u].pack = p
        PROVE  Early(u)' /\ Correcting(u)' /\ Deleted(u)'
    <2>1. CASE pc'[u] \notin Busy  BY <2>1 DEF Early, Correcting, Deleted, Busy
    <2>2. CASE pc'[u] \in Busy
      <3>1. pc'[u] = pc[u] /\ job'[u] = job[u] /\ Early(u) /\ Correcting(u) /\ Deleted(u)
        BY <1>0, <1>2, <1>4, <2>2 DEF AtPack
      <3> QED  BY <1>2, <3>1 DEF Early, Correcting, Deleted, StoreStays, Busy
    <2> QED  BY <2>1, <2>2
  <1> QED  BY <1>1, <1>3, <1>4 DEF AtPack

\* Other packs than p stay as they are, and so do the threads at work on them.
Elsewhere(p) ==
    /\ \A q \in Packs : q # p =>
          /\ file'[q] = file[q] /\ tomb'[q] = tomb[q] /\ memory'[q] = memory[q]
          /\ q \in dirs' <=> q \in dirs
          /\ q \in buried' <=> q \in buried
          /\ q \in torn' <=> q \in torn
          /\ q \in lost' <=> q \in lost
    /\ \A u \in Threads : \/ pc'[u] = pc[u] /\ job'[u] = job[u]
                          \/ (job[u].pack = p \/ pc[u] \notin Busy) /\ job'[u].pack = p

LEMMA OnePack ==
    ASSUME Stored, NEW p \in Packs, Elsewhere(p), AtPack(p)'
    PROVE  Stored'
  <1> SUFFICES ASSUME NEW q \in Packs, q # p PROVE AtPack(q)'
    BY DEF Stored
  <1>0. AtPack(q)  BY DEF Stored
  <1>1. /\ file'[q] = file[q] /\ tomb'[q] = tomb[q] /\ memory'[q] = memory[q]
        /\ q \in dirs' <=> q \in dirs
        /\ q \in buried' <=> q \in buried
        /\ q \in torn' <=> q \in torn
        /\ q \in lost' <=> q \in lost
    BY DEF Elsewhere
  <1>2. \A u \in Threads : (job[u].pack = q /\ pc[u] \in Busy) \/ job'[u].pack = q
                             => pc'[u] = pc[u] /\ job'[u] = job[u]
    BY DEF Elsewhere
  <1>3. Chain(file[q])' /\ Chain(tomb[q])'  BY <1>0, <1>1 DEF AtPack, Chain
  <1>4. Settled(q)' /\ Remembered(q)'
    BY <1>0, <1>1, <1>2 DEF AtPack, Settled, Remembered, Agree, Busy
  <1>5. ASSUME NEW u \in Threads, job'[u].pack = q
        PROVE  Early(u)' /\ Correcting(u)' /\ Deleted(u)'
    <2>1. pc'[u] = pc[u] /\ job'[u] = job[u] /\ Early(u) /\ Correcting(u) /\ Deleted(u)
      BY <1>0, <1>2, <1>5 DEF AtPack
    <2> QED  BY <1>1, <1>2, <1>5, <2>1 DEF Early, Correcting, Deleted
  <1> QED  BY <1>3, <1>4, <1>5 DEF AtPack

\* The five files of a directory that is written to.
LEMMA WrittenFiles ==
    ASSUME PackTypes, NEW p \in Packs, NEW fs, NEW r \in Revision, Write(p, fs, r)
    PROVE  /\ dirs' = dirs \cup {p} /\ \A q \in Packs : q # p => file'[q] = file[q]
           /\ \A f \in Files : file'[p][f] = IF f \in fs THEN r ELSE file[p][f]
  BY DEF PackTypes, Write

LEMMA FileNumbers ==
    ASSUME PackTypes, NEW p \in Packs
    PROVE  /\ file[p]["index"] \in Nat /\ file[p]["spec"] \in Nat /\ file[p]["summary"] \in Nat
           /\ file[p]["corrections"] \in Nat /\ file[p]["reports"] \in Nat
           /\ tomb[p]["index"] \in Nat /\ tomb[p]["spec"] \in Nat /\ tomb[p]["summary"] \in Nat
           /\ tomb[p]["corrections"] \in Nat /\ tomb[p]["reports"] \in Nat
  <1>1. \A f \in Files : file[p][f] \in Nat /\ tomb[p][f] \in Nat  BY Files1
  <1> QED  BY <1>1 DEF Files

LEMMA NothingChain == Chain(Nothing) /\ \A f \in Files : Nothing[f] = 0
  BY DEF Chain, Nothing, Files

LEMMA MakeKeepsStored ==
    ASSUME Base, Stored, NEW t \in Threads, Make(t), LinksStay
    PROVE  Stored'
  <1>1. /\ pc[t] = "make" /\ Turn(t) /\ PackTypes /\ HeardPacks
        /\ buried' = buried /\ tomb' = tomb /\ memory' = memory /\ torn' = torn /\ lost' = lost
    BY Given, MakeKeepsBase DEF Make
  <1>2. \A u \in Threads : u # t => pc'[u] = pc[u] /\ job'[u] = job[u]
    BY <1>1 DEF Turn, Others
  <1>3. CASE Goes(t, "unmade") /\ dirs' = dirs /\ file' = file /\ named' = named
    <2>1. StoreStays  BY <1>1, <1>3 DEF StoreStays
    <2>2. pc[t] \notin Busy /\ pc'[t] \notin Busy  BY <1>1, <1>3 DEF Goes, Busy
    <2> QED  BY <1>2, <2>1, <2>2, StoreLeft
  <1>4. CASE /\ pc'[t] = "publish" /\ job'[t].pack \in Packs /\ job'[t].pack \notin named
             /\ named' = named \cup {job'[t].pack}
             /\ Write(job'[t].pack, {"index", "spec", "summary"}, 1)
    <2>1. PICK p \in Packs : p = job'[t].pack  BY <1>4
    <2>2. /\ dirs' = dirs \cup {p} /\ \A q \in Packs : q # p => file'[q] = file[q]
          /\ \A f \in Files : file'[p][f] = IF f \in {"index", "spec", "summary"}
                                            THEN 1 ELSE file[p][f]
      BY <1>1, <1>4, <2>1, Nobody, WrittenFiles
    <2>3. /\ \A u \in Threads : job[u].pack # p
          /\ file[p] = Nothing /\ tomb[p] = Nothing
      BY <1>1, <1>4, <2>1, Nobody DEF Base, Heard, HeardJobs, HeardPacks
    <2>4. /\ file'[p]["index"] = 1 /\ file'[p]["spec"] = 1 /\ file'[p]["summary"] = 1
          /\ file'[p]["corrections"] = 0 /\ file'[p]["reports"] = 0
      BY <2>2, <2>3, NothingChain DEF Files
    <2>5. Elsewhere(p)
      <3>1. pc[t] \notin Busy  BY <1>1 DEF Busy
      <3> QED  BY <1>1, <1>2, <2>1, <2>2, <3>1 DEF Elsewhere
    <2>6. AtPack(p)'
      <3>1. Chain(file[p])'  BY <2>4 DEF Chain
      <3>2. Chain(tomb[p])'  BY <1>1, <2>3, NothingChain
      <3>3. Settled(p)' /\ Remembered(p)'
        BY <1>4, <2>1, <2>2 DEF Settled, Remembered
      <3>4. \A u \in Threads : job'[u].pack = p => u = t  BY <1>2, <2>3
      <3>5. Early(t)'
        <4>1. \A f \in Files : file'[p][f] <= 1 /\ tomb'[p][f] <= 1
          BY <1>1, <2>3, <2>4, NothingChain DEF Files
        <4>2. tomb'[p]["corrections"] = 0  BY <1>1, <2>3, NothingChain DEF Files
        <4>3. \A u \in Threads : pc'[u] = "revise" => job'[u].pack # p
          BY <1>4, <3>4
        <4> QED  BY <2>1, <2>4, <4>1, <4>2, <4>3 DEF Early
      <3>6. Correcting(t)' /\ Deleted(t)'  BY <1>4 DEF Correcting, Deleted
      <3> QED  BY <3>1, <3>2, <3>3, <3>4, <3>5, <3>6 DEF AtPack
    <2> QED  BY <2>5, <2>6, OnePack
  <1> QED  BY <1>3, <1>4, MakeKeepsBase

\* What an import does to the directory it made. Nobody else is at that end of an import.
LEMMA ImportStepsKeepStored ==
    ASSUME Base, Stored, NEW t \in Threads,
           Publish(t) \/ Remember(t) \/ ReportMemory(t) \/ Unmake(t)
    PROVE  Stored'
  <1>1. PICK p \in Packs : p = job[t].pack
    BY Working, Turns DEF Writing
  <1>2. /\ PackTypes /\ HeardPacks /\ AtPack(p) /\ pc[t] \in Writing
        /\ \A u \in Threads : u # t => pc'[u] = pc[u] /\ job'[u] = job[u]
        /\ job'[t] = job[t] /\ pc'[t] \in {"remember", "report", "made", "unmade"}
    BY Given, Turns DEF Stored, Goes, Turn, Others, Writing
  <1>3. /\ 1 \in Revision /\ buried' = buried /\ tomb' = tomb
        /\ \A q \in Packs : q # p => (q \in torn' <=> q \in torn) /\ (q \in lost' <=> q \in lost)
        /\ torn \subseteq torn' /\ lost \subseteq lost'
    BY <1>1, Nobody DEF Publish, Remember, ReportMemory, Unmake, Late
  <1>4. /\ \A q \in Packs : q # p => file'[q] = file[q] /\ memory'[q] = memory[q]
                                       /\ (q \in dirs' <=> q \in dirs)
        /\ (p \in dirs' /\ Publish(t)
              /\ \A f \in Files : file'[p][f] = IF f \in {"corrections", "reports"}
                                                THEN 1 ELSE file[p][f])
           \/ (Remember(t) /\ file' = file /\ dirs' = dirs)
           \/ (p \in dirs' /\ ReportMemory(t)
                 /\ \A f \in Files : file'[p][f] = IF f \in {"summary", "reports"}
                                                   THEN 1 ELSE file[p][f])
           \/ (p \notin dirs' /\ file'[p] = Nothing /\ p \in lost' /\ Unmake(t))
    <2>1. CASE Publish(t)
      <3>1. Write(p, {"corrections", "reports"}, 1) /\ memory' = memory
        BY <1>1, <2>1 DEF Publish
      <3> QED  BY <1>2, <1>3, <2>1, <3>1, WrittenFiles
    <2>2. CASE Remember(t)
      <3>1. memory' = memory \/ memory' = [memory EXCEPT ![p] = 1]
        BY <1>1, <2>2 DEF Remember
      <3> QED  BY <1>2, <2>2, <3>1 DEF Remember, PackTypes
    <2>3. CASE ReportMemory(t)
      <3>1. Write(p, {"summary", "reports"}, 1) /\ memory' = memory
        BY <1>1, <2>3 DEF ReportMemory
      <3> QED  BY <1>2, <1>3, <2>3, <3>1, WrittenFiles
    <2>4. CASE Unmake(t)
      <3>1. /\ dirs' = dirs \ {p} /\ file' = [file EXCEPT ![p] = Nothing]
            /\ lost' = lost \cup {p} /\ memory' = memory
        BY <1>1, <2>4 DEF Unmake
      <3> QED  BY <1>2, <2>4, <3>1 DEF PackTypes
    <2> QED  BY <2>1, <2>2, <2>3, <2>4
  <1>5. Elsewhere(p)  BY <1>1, <1>2, <1>3, <1>4 DEF Elsewhere
  <1>6. \A u \in Threads : u # t /\ job[u].pack = p => pc[u] \notin Writing
    BY <1>1, <1>2 DEF Base, Heard, Sole
  <1>7. /\ \A f \in Files : file[p][f] \in Nat
        /\ Chain(file[p]) /\ Chain(tomb[p]) /\ Settled(p) /\ Remembered(p)
        /\ \A u \in Threads : job[u].pack = p => Early(u) /\ Correcting(u) /\ Deleted(u)
    BY <1>2, Files1 DEF AtPack
  <1>8. AtPack(p)'
    <2>1. Chain(tomb[p])'  BY <1>3, <1>7 DEF Chain
    <2>2. \A u \in Threads : job'[u].pack = p => (Early(u) /\ Deleted(u))'
      BY <1>2, <1>3, <1>6, <1>7 DEF Early, Deleted, Writing
    <2>3. ASSUME NEW u \in Threads, job'[u].pack = p PROVE Correcting(u)'
      <3> SUFFICES ASSUME pc'[u] = "revise", NEW f \in Files
                   PROVE  file'[p][f] <= job'[u].revision
        BY <2>3 DEF Correcting
      <3>1. u # t /\ pc[u] = "revise" /\ job'[u] = job[u] /\ job[u].pack = p  BY <1>2, <2>3
      <3>2. job[u].revision \in 1 .. MaxRevision /\ file[p][f] <= job[u].revision
        BY <1>7, <3>1 DEF Base, Flow, Correcting
      <3>3. file'[p][f] \in {0, 1, file[p][f]}
        BY <1>4, NothingChain
      <3> QED  BY <3>1, <3>2, <3>3, Nobody
    <2>4. Chain(file[p])' /\ Settled(p)' /\ Remembered(p)'
      <3>0. /\ "index" \in Files /\ "spec" \in Files /\ "summary" \in Files
            /\ "corrections" \in Files /\ "reports" \in Files
        BY DEF Files
      <3>1. CASE /\ p \in dirs' /\ Publish(t)
                 /\ \A f \in Files : file'[p][f] = IF f \in {"corrections", "reports"}
                                                   THEN 1 ELSE file[p][f]
        <4>1. pc[t] = "publish" /\ Early(t)  BY <1>1, <1>7, <3>1, Turns
        <4>2. /\ file'[p]["corrections"] = 1 /\ file'[p]["reports"] = 1
              /\ file'[p]["index"] = file[p]["index"] /\ file'[p]["spec"] = file[p]["spec"]
              /\ file'[p]["summary"] = file[p]["summary"]
          BY <3>0, <3>1
        <4>3. /\ file[p]["index"] \in {0, 1} /\ file[p]["spec"] \in {0, 1}
              /\ file[p]["summary"] \in {0, 1}
          <5>1. \A f \in Files : file[p][f] <= 1  BY <1>1, <4>1 DEF Early
          <5>2. \A f \in Files : file[p][f] \in {0, 1}  BY <1>7, <5>1
          <5> QED  BY <3>0, <5>2
        <4>4. file[p]["spec"] # 0 => p \in dirs
          BY <1>2, <3>0, NothingChain DEF HeardPacks
        <4>5. file[p]["index"] # 0 /\ file[p]["spec"] # 0 => file[p]["summary"] = 1 \/ p \in torn
          BY <1>1, <4>1, <4>3, <4>4 DEF Early
        <4>6. Chain(file[p])'  BY <4>2, <4>3 DEF Chain
        <4>7. Settled(p)'  BY <1>3, <4>2, <4>3, <4>5 DEF Settled, Agree
        <4> QED  BY <3>1, <4>6, <4>7 DEF Remembered
      <3>2. CASE Remember(t) /\ file' = file /\ dirs' = dirs
        <4>1. pc[t] = "remember"  BY <3>2, Turns
        <4>2. Chain(file[p])'  BY <1>7, <3>2 DEF Chain
        <4>3. Settled(p)'  BY <1>2, <1>3, <1>7, <3>2, <4>1 DEF Settled, Agree
        <4>4. Remembered(p)'
          <5>1. memory' = memory \/ p \in dirs' \cup lost'
            BY <1>1, <3>2 DEF Remember, Late
          <5> QED  BY <1>2, <1>3, <1>7, <3>2, <4>1, <5>1 DEF Remembered
        <4> QED  BY <4>2, <4>3, <4>4
      <3>3. CASE /\ p \in dirs' /\ ReportMemory(t)
                 /\ \A f \in Files : file'[p][f] = IF f \in {"summary", "reports"}
                                                   THEN 1 ELSE file[p][f]
        <4>1. pc[t] = "report"  BY <3>3, Turns
        <4>2. /\ file'[p]["summary"] = 1 /\ file'[p]["reports"] = 1
              /\ file'[p]["index"] = file[p]["index"] /\ file'[p]["spec"] = file[p]["spec"]
              /\ file'[p]["corrections"] = file[p]["corrections"]
          BY <3>0, <3>3
        <4>3. /\ file[p]["index"] \in Nat /\ file[p]["spec"] \in Nat
              /\ file[p]["corrections"] \in Nat
          BY <1>7, <3>0
        <4>4. Chain(file[p])'  BY <1>7, <4>2, <4>3 DEF Chain
        <4>5. file[p]["corrections"] > 1 => p \in torn'
          BY <1>1, <3>3 DEF ReportMemory
        <4>6. file[p]["spec"] # 0 => p \in dirs
          BY <1>2, <3>0, NothingChain DEF HeardPacks
        <4>7. file[p]["spec"] # 0 /\ Agree(file[p]) /\ file[p]["corrections"] <= 1
                 => file[p]["spec"] = 1 /\ file[p]["corrections"] = 1
          BY <4>3 DEF Agree
        <4>8. Settled(p)'
          <5> SUFFICES ASSUME p \in dirs', file'[p]["index"] # 0, file'[p]["spec"] # 0,
                              p \notin torn', ~Agree(file[p])'
                       PROVE  \E u \in Threads :
                                 job'[u].pack = p /\ pc'[u] \in {"revise", "publish"}
            BY DEF Settled
          <5>1. ~(file'[p]["spec"] = 1 /\ file'[p]["corrections"] = 1)
            BY <4>2 DEF Agree
          <5>2. ~Agree(file[p])  BY <4>2, <4>3, <4>5, <4>7, <5>1
          <5>3. PICK u \in Threads : job[u].pack = p /\ pc[u] \in {"revise", "publish"}
            BY <1>3, <1>7, <4>2, <4>6, <5>2 DEF Settled
          <5> QED  BY <1>2, <4>1, <5>3
        <4> QED  BY <3>3, <4>4, <4>8 DEF Remembered
      <3>4. CASE p \notin dirs' /\ file'[p] = Nothing /\ p \in lost' /\ Unmake(t)
        BY <3>4, NothingChain DEF Settled, Remembered
      <3> QED  BY <1>4, <3>1, <3>2, <3>3, <3>4
    <2> QED  BY <2>1, <2>2, <2>3, <2>4 DEF AtPack
  <1> QED  BY <1>5, <1>8, OnePack

LEMMA NoteKeepsStored ==
    ASSUME Base, Locked, Stored, NEW t \in Threads, Note(t)
    PROVE  Stored'
  <1>1. PICK p \in Packs : p = job[t].pack
    BY Working DEF Note, Inside, Held
  <1>2. /\ PackTypes /\ AtPack(p) /\ pc[t] = "note" /\ \A f \in Files : file[p][f] \in Nat
        /\ dirs' = dirs /\ file' = file /\ buried' = buried /\ tomb' = tomb /\ named' = named
        /\ torn' = torn /\ lost' = lost
    BY Given, Files1 DEF Stored, Note
  <1>3. CASE Leaves(t, "done") /\ memory' = memory
    <2>1. StoreStays  BY <1>2, <1>3 DEF StoreStays
    <2>2. pc[t] \notin Busy /\ pc'[t] \notin Busy  BY <1>2, <1>3 DEF Leaves, Busy
    <2> QED  BY <1>3, <2>1, <2>2, StoreLeft DEF Leaves, Turn, Others
  <1>4. CASE Revising(t)
    <2>1. /\ \A u \in Threads : u # t => pc'[u] = pc[u] /\ job'[u] = job[u]
          /\ pc'[t] = "revise" /\ job'[t].pack = p /\ Known(p) /\ file[p]["corrections"] # 0
          /\ job'[t].revision = file[p]["corrections"] + 1
      BY <1>1, <1>4 DEF Revising, Turn, Others, Kept
    <2>2. \A q \in Packs : q # p => memory'[q] = memory[q]
      <3>1. memory' = memory \/ \E r : memory' = [memory EXCEPT ![p] = r]
        BY <1>1 DEF Note
      <3> QED  BY <1>2, <3>1 DEF PackTypes
    <2>3. Elsewhere(p)  BY <1>1, <1>2, <2>1, <2>2 DEF Elsewhere
    <2>4. AtPack(p)'
      <3>1. /\ Chain(file[p]) /\ Chain(tomb[p])
            /\ \A u \in Threads : job[u].pack = p => Early(u) /\ Correcting(u) /\ Deleted(u)
        BY <1>2 DEF AtPack
      <3>2. Chain(file[p])' /\ Chain(tomb[p])'  BY <1>2, <3>1 DEF Chain
      <3>3. Settled(p)' /\ Remembered(p)'
        BY <1>2, <2>1 DEF Settled, Remembered, Known
      <3>4. ASSUME NEW u \in Threads, job'[u].pack = p
            PROVE  Early(u)' /\ Correcting(u)' /\ Deleted(u)'
        <4>1. CASE u = t
          <5>1. \A f \in Files : file[p][f] <= file[p]["corrections"] + 1
            <6>1. /\ file[p]["index"] <= file[p]["corrections"] + 1
                  /\ file[p]["spec"] <= file[p]["corrections"] + 1
                  /\ file[p]["summary"] <= file[p]["corrections"] + 1
                  /\ file[p]["reports"] <= file[p]["corrections"] + 1
                  /\ file[p]["corrections"] <= file[p]["corrections"] + 1
              BY <1>2, <2>1, <3>1, FileNumbers DEF Chain, Known, Whole
            <6> QED  BY <6>1 DEF Files
          <5> QED  BY <1>2, <2>1, <4>1, <5>1 DEF Early, Correcting, Deleted
        <4>2. CASE u # t
          <5>1. Early(u) /\ Correcting(u) /\ Deleted(u) /\ pc'[u] = pc[u] /\ job'[u] = job[u]
                /\ job[u].pack = p
            BY <2>1, <3>1, <3>4, <4>2
          <5>2. pc[u] # "publish"  BY <2>1, <5>1 DEF Early
          <5> QED  BY <1>2, <5>1, <5>2 DEF Early, Correcting, Deleted
        <4> QED  BY <4>1, <4>2
      <3> QED  BY <3>2, <3>3, <3>4 DEF AtPack
    <2> QED  BY <2>3, <2>4, OnePack
  <1> QED  BY <1>3, <1>4, Noted

\* The first file in the order of a correction that is not of its revision yet.
First(p, r) ==
    LET left == {i \in DOMAIN Order : file[p][Order[i]] # r}
    IN  CHOOSE j \in left : \A k \in left : j <= k

LEMMA FirstFile ==
    ASSUME NEW p, NEW r, \E i \in DOMAIN Order : file[p][Order[i]] # r
    PROVE  \/ Order[First(p, r)] = "corrections"
           \/ Order[First(p, r)] = "spec" /\ file[p]["corrections"] = r
           \/ Order[First(p, r)] = "summary" /\ file[p]["corrections"] = r /\ file[p]["spec"] = r
           \/ Order[First(p, r)] = "reports" /\ file[p]["corrections"] = r /\ file[p]["spec"] = r
  <1> DEFINE left == {i \in DOMAIN Order : file[p][Order[i]] # r}
             i == CHOOSE j \in left : \A k \in left : j <= k
  <1>1. DOMAIN Order = 1 .. 4 /\ Order[1] = "corrections" /\ Order[2] = "spec"
        /\ Order[3] = "summary" /\ Order[4] = "reports"
    BY DEF Order
  <1>2. left \subseteq 1 .. 4 /\ left # {}  BY <1>1
  <1>3. \E j \in left : \A k \in left : j <= k  BY <1>2
  <1>4. i \in left /\ \A k \in left : i <= k  BY <1>3
  <1>5. i \in 1 .. 4 /\ (i > 1 => 1 \notin left) /\ (i > 2 => 2 \notin left)
    <2> HIDE DEF left, i
    <2> QED  BY <1>2, <1>4
  <1>6. (1 \notin left => file[p]["corrections"] = r) /\ (2 \notin left => file[p]["spec"] = r)
    BY <1>1
  <1>7. First(p, r) = i  BY DEF First
  <1> HIDE DEF left, i
  <1> QED  BY <1>1, <1>5, <1>6, <1>7

LEMMA ReviseKeepsStored ==
    ASSUME Base, Locked, Stored, NEW t \in Threads, Revise(t)
    PROVE  Stored'
  <1>1. PICK p \in Packs : p = job[t].pack
    BY Working, SMTT(30) DEF Revise, Inside, Held
  <1>2. PICK r \in 1 .. MaxRevision : r = job[t].revision
    BY Given, SMTT(30) DEF Revise, Flow
  <1>3. /\ PackTypes /\ AtPack(p) /\ pc[t] = "revise" /\ Flow(t) /\ r \in Revision
        /\ buried' = buried /\ tomb' = tomb /\ memory' = memory /\ lost' = lost
    BY Given, Nobody DEF Stored, Revise, Revision
  <1>4. /\ Turn(t) /\ job'[t].pack = p /\ job'[t].revision = r /\ pc'[t] \in {"revise", "leave"}
        /\ \A u \in Threads : u # t => pc'[u] = pc[u] /\ job'[u] = job[u]
    BY <1>1, <1>2, Turns DEF Goes, Leaves, Kept, Turn, Others
  <1>5. /\ Chain(file[p]) /\ Chain(tomb[p]) /\ Settled(p) /\ Remembered(p)
        /\ \A f \in Files : file[p][f] <= r
        /\ \A u \in Threads : job[u].pack = p => Early(u) /\ Deleted(u)
    BY <1>1, <1>2, <1>3 DEF AtPack, Correcting
  <1>6. \A u \in Threads : u # t /\ job[u].pack = p => pc[u] \notin Busy
    <2>1. \A u \in Threads : u # t /\ job[u].pack = p => pc[u] \notin {"revise", "purge", "remove"}
      BY <1>1, <1>3, OneHolder DEF Held
    <2>2. \A u \in Threads : job[u].pack = p => pc[u] # "publish"
      BY <1>1, <1>3, <1>5 DEF Early
    <2> QED  BY <2>1, <2>2 DEF Busy
  <1>7. Chain(tomb[p])'  BY <1>3, <1>5 DEF Chain
  <1>8. ASSUME NEW u \in Threads, u # t, job'[u].pack = p
        PROVE  Early(u)' /\ Correcting(u)' /\ Deleted(u)'
    BY <1>4, <1>6, <1>8 DEF Early, Correcting, Deleted, Busy
  <1>9. Early(t)' /\ Deleted(t)'  BY <1>4 DEF Early, Deleted
  <1>10. CASE /\ \E i \in DOMAIN Order : file[p][Order[i]] # r
              /\ Write(p, {Order[First(p, r)]}, r) /\ torn' = torn /\ flow' = flow
    <2>1. PICK g \in {"corrections", "spec", "summary", "reports"} :
             /\ g = Order[First(p, r)]
             /\ g # "corrections" => file[p]["corrections"] = r
             /\ g \in {"summary", "reports"} => file[p]["spec"] = r
      BY <1>10, FirstFile
    <2>2. /\ dirs' = dirs \cup {p} /\ \A q \in Packs : q # p => file'[q] = file[q]
          /\ \A f \in Files : file'[p][f] = IF f = g THEN r ELSE file[p][f]
      <3>1. Write(p, {g}, r)  BY <1>10, <2>1
      <3> QED  BY <1>3, <3>1, WrittenFiles
    <2>3. Elsewhere(p)  BY <1>1, <1>3, <1>4, <1>10, <2>2 DEF Elsewhere
    <2>4. Chain(file[p])'
      <3>1. /\ file'[p]["index"] = file[p]["index"]
            /\ file'[p]["spec"] = IF g = "spec" THEN r ELSE file[p]["spec"]
            /\ file'[p]["summary"] = IF g = "summary" THEN r ELSE file[p]["summary"]
            /\ file'[p]["corrections"] = IF g = "corrections" THEN r ELSE file[p]["corrections"]
            /\ file'[p]["reports"] = IF g = "reports" THEN r ELSE file[p]["reports"]
        BY <2>1, <2>2 DEF Files
      <3>2. /\ file[p]["spec"] <= r /\ file[p]["summary"] <= r /\ file[p]["corrections"] <= r
            /\ file[p]["reports"] <= r
        BY <1>5 DEF Files
      <3>3. r \in Nat /\ r # 0  BY Nobody
      <3>4. CASE g = "corrections"
        BY <1>3, <1>5, <3>1, <3>2, <3>3, <3>4, FileNumbers DEF Chain
      <3>5. CASE g = "spec"
        BY <1>3, <1>5, <2>1, <3>1, <3>2, <3>3, <3>5, FileNumbers DEF Chain
      <3>6. CASE g \in {"summary", "reports"}
        BY <1>3, <1>5, <2>1, <3>1, <3>2, <3>3, <3>6, FileNumbers DEF Chain
      <3> QED  BY <2>1, <3>4, <3>5, <3>6
    <2>5. pc'[t] = "revise"  BY <1>3, <1>10 DEF flow
    <2>6. Settled(p)' /\ Remembered(p)'
      BY <1>4, <2>2, <2>5 DEF Settled, Remembered
    <2>7. Correcting(t)'
      <3>1. \A f \in Files : file'[p][f] <= r  BY <1>5, <2>2, Nobody
      <3> QED  BY <1>4, <3>1 DEF Correcting
    <2> QED  BY <1>7, <1>8, <1>9, <2>3, <2>4, <2>6, <2>7, OnePack DEF AtPack
  <1>11. CASE /\ LeaveFor(t, "done") /\ dirs' = dirs /\ file' = file
              /\ \/ torn' = IF Agree(file[p]) THEN torn ELSE torn \cup {p}
                 \/ /\ \A i \in DOMAIN Order : file[p][Order[i]] = r
                    /\ torn' = torn \ {p}
    <2>1. Elsewhere(p)  BY <1>1, <1>3, <1>4, <1>11 DEF Elsewhere
    <2>2. pc'[t] = "leave"  BY <1>4, <1>11, Turns DEF Goes, Leaves, LeaveFor, Base, Moving
    <2>3. Chain(file[p])'  BY <1>5, <1>11 DEF Chain
    <2>4. Settled(p)'
      <3>1. CASE torn' = IF Agree(file[p]) THEN torn ELSE torn \cup {p}
        BY <1>11, <3>1 DEF Settled, Agree
      <3>2. CASE \A i \in DOMAIN Order : file[p][Order[i]] = r
        <4>1. Agree(file[p])
          <5>1. \A i \in 1 .. 4 : file[p][Order[i]] = r  BY <3>2 DEF Order
          <5>2. Order[1] = "corrections" /\ Order[2] = "spec" /\ Order[3] = "summary"
                /\ Order[4] = "reports"
            BY DEF Order
          <5>3. /\ file[p]["corrections"] = r /\ file[p]["spec"] = r /\ file[p]["summary"] = r
                /\ file[p]["reports"] = r
            BY <5>1, <5>2
          <5> QED  BY <5>3 DEF Agree
        <4> QED  BY <1>11, <4>1 DEF Settled, Agree
      <3> QED  BY <1>11, <3>1, <3>2
    <2>5. Remembered(p)'
      <3>1. \A u \in Threads :
               job[u].pack = p /\ pc[u] = "purge" => job'[u].pack = p /\ pc'[u] = "purge"
        BY <1>3, <1>4
      <3> QED  BY <1>3, <1>5, <1>11, <3>1 DEF Remembered
    <2>6. Correcting(t)'  BY <2>2 DEF Correcting
    <2> QED  BY <1>7, <1>8, <1>9, <2>1, <2>3, <2>4, <2>5, <2>6, OnePack DEF AtPack
  <1> QED
    <2> DEFINE left == {i \in DOMAIN Order : file[p][Order[i]] # r}
    <2>1. First(p, r) = CHOOSE j \in left : \A k \in left : j <= k  BY DEF First
    <2>2. left = {} <=> \A i \in DOMAIN Order : file[p][Order[i]] = r  BY SMTT(30)
    <2>3. \/ /\ left # {} /\ Write(p, {Order[CHOOSE j \in left : \A k \in left : j <= k]}, r)
             /\ torn' = torn /\ flow' = flow
          \/ /\ LeaveFor(t, "done") /\ dirs' = dirs /\ file' = file
             /\ torn' = IF Agree(file[p]) THEN torn ELSE torn \cup {p}
          \/ /\ left = {} /\ LeaveFor(t, "done") /\ torn' = torn \ {p}
             /\ dirs' = dirs /\ file' = file
      BY <1>1, <1>2 DEF Revise
    <2> HIDE DEF left
    <2>4. left # {} <=> \E i \in DOMAIN Order : file[p][Order[i]] # r  BY <2>2, SMTT(30)
    <2> QED  BY <1>10, <1>11, <2>1, <2>2, <2>3, <2>4

\* What a deletion restores, from a tombstone it may have emptied in part.
LEMMA RestoreKeepsStored ==
    ASSUME Base, Locked, Stored, NEW t \in Threads, NEW p \in Packs, p = job[t].pack,
           pc[t] \in {"purge", "remove"}, NEW rest \in [Files -> Revision],
           \A f \in Files : rest[f] \in {0, tomb[p][f]},
           Restore(p, rest), Leaves(t, "failed"), memory' = memory, lost' = lost
    PROVE  Stored'
  <1>1. /\ PackTypes /\ AtPack(p) /\ job'[t].pack = p /\ pc'[t] = "leave"
        /\ \A u \in Threads : u # t => pc'[u] = pc[u] /\ job'[u] = job[u]
    BY Given DEF Stored, Leaves, Kept, Turn, Others
  <1>2. /\ Chain(file[p]) /\ Chain(tomb[p]) /\ Settled(p) /\ Remembered(p)
        /\ \A u \in Threads : job[u].pack = p => Early(u) /\ Correcting(u) /\ Deleted(u)
    BY <1>1 DEF AtPack
  <1>3. \A u \in Threads : u # t /\ job[u].pack = p => pc[u] \notin Held
    BY OneHolder DEF Held
  <1>4. Chain(rest)
    <2>1. /\ rest["index"] \in {0, tomb[p]["index"]} /\ rest["spec"] \in {0, tomb[p]["spec"]}
          /\ rest["summary"] \in {0, tomb[p]["summary"]}
          /\ rest["corrections"] \in {0, tomb[p]["corrections"]}
          /\ rest["reports"] \in {0, tomb[p]["reports"]}
      BY DEF Files
    <2> QED  BY <1>1, <1>2, <2>1, FileNumbers DEF Chain
  <1>5. CASE p \in dirs
    <2>1. /\ dirs' = dirs /\ file' = file /\ buried' = buried /\ torn' = torn
          /\ tomb'[p] = rest /\ \A q \in Packs : q # p => tomb'[q] = tomb[q]
      BY <1>1, <1>5 DEF Restore, PackTypes
    <2>2. Elsewhere(p)  BY <1>1, <2>1 DEF Elsewhere
    <2>3. Chain(file[p])' /\ Chain(tomb[p])'  BY <1>2, <1>4, <2>1 DEF Chain
    <2>4. Settled(p)' /\ Remembered(p)'
      BY <1>1, <1>2, <1>5, <2>1 DEF Settled, Remembered, Agree
    <2>5. ASSUME NEW u \in Threads, job'[u].pack = p
          PROVE  Early(u)' /\ Correcting(u)' /\ Deleted(u)'
      <3>1. CASE u = t  BY <1>1, <3>1 DEF Early, Correcting, Deleted
      <3>2. CASE u # t
        <4>1. /\ pc'[u] = pc[u] /\ job'[u] = job[u] /\ Early(u) /\ Correcting(u) /\ Deleted(u)
              /\ job[u].pack = p /\ pc[u] \notin Held
          BY <1>1, <1>2, <1>3, <2>5, <3>2
        <4>2. Early(u)'
          <5> SUFFICES ASSUME pc[u] = "publish" PROVE Early(u)'
            BY <4>1 DEF Early
          <5>1. /\ \A f \in Files : file[p][f] <= 1 /\ tomb[p][f] <= 1
                /\ tomb[p]["corrections"] = 0
            BY <4>1 DEF Early
          <5>2. /\ \A f \in Files : tomb'[p][f] <= 1
                /\ tomb'[p]["corrections"] = 0
            BY <1>1, <2>1, <5>1 DEF Files
          <5> QED  BY <1>1, <2>1, <4>1, <5>1, <5>2 DEF Early
        <4> QED  BY <4>1, <4>2 DEF Correcting, Deleted, Held
      <3> QED  BY <3>1, <3>2
    <2> QED  BY <2>2, <2>3, <2>4, <2>5, OnePack DEF AtPack
  <1>6. CASE p \notin dirs
    <2>1. /\ dirs' = dirs \cup {p} /\ file'[p] = rest
          /\ buried' = buried \ {p} /\ tomb'[p] = Nothing
          /\ torn' = IF Agree(rest) THEN torn ELSE torn \cup {p}
          /\ \A q \in Packs : q # p => tomb'[q] = tomb[q] /\ file'[q] = file[q]
      BY <1>1, <1>6 DEF Restore, PackTypes
    <2>2. Elsewhere(p)  BY <1>1, <2>1 DEF Elsewhere
    <2>3. Chain(file[p])' /\ Chain(tomb[p])'  BY <1>4, <2>1, NothingChain
    <2>4. Settled(p)' /\ Remembered(p)'
      BY <2>1 DEF Settled, Remembered, Agree
    <2>5. ASSUME NEW u \in Threads, job'[u].pack = p
          PROVE  Early(u)' /\ Correcting(u)' /\ Deleted(u)'
      <3>1. CASE u = t  BY <1>1, <3>1 DEF Early, Correcting, Deleted
      <3>2. CASE u # t
        <4>1. /\ pc'[u] = pc[u] /\ job'[u] = job[u] /\ Early(u)
              /\ job[u].pack = p /\ pc[u] \notin Held
          BY <1>1, <1>2, <1>3, <2>5, <3>2
        <4>2. Early(u)'
          <5> SUFFICES ASSUME pc[u] = "publish" PROVE Early(u)'
            BY <4>1 DEF Early
          <5>1. /\ \A f \in Files : tomb[p][f] <= 1
                /\ tomb[p]["corrections"] = 0
                /\ \A v \in Threads : pc[v] = "revise" => job[v].pack # p
            BY <4>1 DEF Early
          <5>2. /\ \A f \in Files : file'[p][f] <= 1 /\ tomb'[p][f] <= 1
                /\ file'[p]["corrections"] = 0 /\ tomb'[p]["corrections"] = 0
            BY <2>1, <5>1, NothingChain DEF Files
          <5>3. \A v \in Threads : pc'[v] = "revise" => job'[v].pack # p
            BY <1>1, <5>1
          <5>4. file'[p]["spec"] # 0 => p \in torn'
            BY <2>1, <5>2 DEF Agree
          <5> QED  BY <4>1, <5>2, <5>3, <5>4 DEF Early
        <4> QED  BY <4>1, <4>2 DEF Correcting, Deleted, Held
      <3> QED  BY <3>1, <3>2
    <2> QED  BY <2>2, <2>3, <2>4, <2>5, OnePack DEF AtPack
  <1> QED  BY <1>5, <1>6

LEMMA BuryKeepsStored ==
    ASSUME Base, Locked, Stored, NEW t \in Threads, Bury(t)
    PROVE  Stored'
  <1>1. PICK p \in Packs : p = job[t].pack
    BY Working DEF Bury, Inside, Held
  <1>2. /\ PackTypes /\ AtPack(p) /\ pc[t] = "bury" /\ Turn(t) /\ job'[t].pack = p
        /\ \A u \in Threads : u # t => pc'[u] = pc[u] /\ job'[u] = job[u]
        /\ memory' = memory /\ named' = named /\ torn' = torn /\ lost' = lost
    BY <1>1, Given, Turns DEF Stored, Bury, Goes, Leaves, Kept, Turn, Others
  <1>3. /\ Chain(file[p])
        /\ \A u \in Threads : job[u].pack = p => Early(u) /\ Correcting(u) /\ Deleted(u)
    BY <1>2 DEF AtPack
  <1>4. CASE p \in dirs
    <2>1. /\ dirs' = dirs \ {p} /\ file'[p] = Nothing /\ buried' = buried \cup {p}
          /\ tomb'[p] = file[p] /\ Goto(t, "purge")
          /\ \A q \in Packs : q # p => tomb'[q] = tomb[q] /\ file'[q] = file[q]
      BY <1>1, <1>2, <1>4 DEF Bury, PackTypes
    <2>2. pc'[t] = "purge"  BY <2>1 DEF Goto, Base, Moving
    <2>3. Elsewhere(p)  BY <1>1, <1>2, <2>1 DEF Elsewhere
    <2>4. Chain(file[p])' /\ Chain(tomb[p])'  BY <1>3, <2>1, NothingChain
    <2>5. Settled(p)' /\ Remembered(p)'
      BY <1>2, <2>1, <2>2 DEF Settled, Remembered
    <2>6. ASSUME NEW u \in Threads, job'[u].pack = p
          PROVE  Early(u)' /\ Correcting(u)' /\ Deleted(u)'
      <3>1. CASE u = t  BY <2>1, <2>2, <2>6, <3>1 DEF Early, Correcting, Deleted
      <3>2. CASE u # t
        <4>1. pc'[u] = pc[u] /\ job'[u] = job[u] /\ Early(u) /\ Deleted(u) /\ job[u].pack = p
              /\ pc[u] \notin Held
          BY <1>1, <1>2, <1>3, <2>6, <3>2, OneHolder DEF Held
        <4>2. Early(u)'
          <5> SUFFICES ASSUME pc[u] = "publish" PROVE Early(u)'
            BY <4>1 DEF Early
          <5>1. /\ \A f \in Files : file[p][f] <= 1
                /\ file[p]["corrections"] = 0
                /\ \A v \in Threads : pc[v] = "revise" => job[v].pack # p
            BY <4>1 DEF Early
          <5>2. /\ \A f \in Files : file'[p][f] <= 1 /\ tomb'[p][f] <= 1
                /\ file'[p]["corrections"] = 0 /\ tomb'[p]["corrections"] = 0
            BY <2>1, <5>1, NothingChain DEF Files
          <5>3. \A v \in Threads : pc'[v] = "revise" => job'[v].pack # p
            BY <1>2, <2>2, <5>1
          <5> QED  BY <2>1, <4>1, <5>2, <5>3 DEF Early
        <4> QED  BY <4>1, <4>2 DEF Correcting, Deleted, Held
      <3> QED  BY <3>1, <3>2
    <2> QED  BY <2>3, <2>4, <2>5, <2>6, OnePack DEF AtPack
  <1>5. CASE p \notin dirs
    <2>1. StoreStays  BY <1>1, <1>2, <1>5 DEF Bury, StoreStays
    <2>2. pc[t] \notin Busy /\ pc'[t] \notin Busy
      BY <1>1, <1>2, <1>5 DEF Bury, LeaveFor, Busy, Base, Moving
    <2> QED  BY <1>2, <2>1, <2>2, StoreLeft
  <1> QED  BY <1>4, <1>5

LEMMA PurgeKeepsStored ==
    ASSUME Base, Locked, Stored, NEW t \in Threads, Purge(t)
    PROVE  Stored'
  <1>1. PICK p \in Packs : p = job[t].pack
    BY Working DEF Purge, Inside, Held
  <1>2. /\ PackTypes /\ AtPack(p) /\ pc[t] = "purge" /\ Moving /\ named' = named /\ lost' = lost
    BY Given DEF Stored, Purge
  <1>3. CASE Restore(p, tomb[p]) /\ LeaveFor(t, "failed") /\ memory' = memory
    <2>1. tomb[p] \in [Files -> Revision]  BY <1>2 DEF PackTypes
    <2>2. Leaves(t, "failed")
      <3>1. "failed" \in Places  BY DEF Places, Afters
      <3> QED  BY <1>2, <1>3, <3>1, LeaveForTurn
    <2> QED  BY <1>1, <1>2, <1>3, <2>1, <2>2, RestoreKeepsStored
  <1>4. CASE /\ memory' = [memory EXCEPT ![p] = 0] /\ Goto(t, "remove")
             /\ UNCHANGED <<dirs, file, buried, tomb, torn, troubles>>
    <2>1. /\ pc'[t] = "remove" /\ job'[t].pack = p
          /\ \A u \in Threads : u # t => pc'[u] = pc[u] /\ job'[u] = job[u]
      BY <1>1, <1>2, <1>4 DEF Goto, Moving
    <2>2. /\ \A q \in Packs : q # p => memory'[q] = memory[q]
          /\ memory'[p] = 0
      BY <1>2, <1>4 DEF PackTypes
    <2>3. Elsewhere(p)  BY <1>1, <1>2, <1>4, <2>1, <2>2 DEF Elsewhere
    <2>4. AtPack(p)'
      <3>1. /\ Chain(file[p]) /\ Chain(tomb[p]) /\ Settled(p)
            /\ \A u \in Threads : job[u].pack = p => Early(u) /\ Correcting(u) /\ Deleted(u)
        BY <1>2 DEF AtPack
      <3>2. Chain(file[p])' /\ Chain(tomb[p])'  BY <1>4, <3>1 DEF Chain
      <3>3. Settled(p)' /\ Remembered(p)'
        BY <1>2, <1>4, <2>1, <2>2, <3>1 DEF Settled, Remembered, Agree
      <3>4. ASSUME NEW u \in Threads, job'[u].pack = p
            PROVE  Early(u)' /\ Correcting(u)' /\ Deleted(u)'
        <4>1. CASE u = t
          BY <1>1, <1>2, <1>4, <2>1, <3>1, <4>1 DEF Early, Correcting, Deleted
        <4>2. CASE u # t
          <5>1. /\ Early(u) /\ Correcting(u) /\ Deleted(u) /\ pc'[u] = pc[u] /\ job'[u] = job[u]
                /\ job[u].pack = p
            BY <2>1, <3>1, <3>4, <4>2
          <5>2. \A v \in Threads : pc'[v] = "revise" => pc[v] = "revise" /\ job'[v] = job[v]
            BY <2>1
          <5> QED  BY <1>4, <5>1, <5>2 DEF Early, Correcting, Deleted
        <4> QED  BY <4>1, <4>2
      <3> QED  BY <3>2, <3>3, <3>4 DEF AtPack
    <2> QED  BY <2>3, <2>4, OnePack
  <1> QED  BY <1>1, <1>3, <1>4 DEF Purge

LEMMA RemoveKeepsStored ==
    ASSUME Base, Locked, Stored, NEW t \in Threads, Remove(t)
    PROVE  Stored'
  <1>1. PICK p \in Packs : p = job[t].pack
    BY Working DEF Remove, Inside, Held
  <1>2. /\ PackTypes /\ AtPack(p) /\ pc[t] = "remove" /\ Moving /\ named' = named /\ lost' = lost
        /\ memory' = memory
    BY Given DEF Stored, Remove
  <1>3. CASE /\ LeaveFor(t, "failed")
             /\ \E kept \in SUBSET Files :
                   Restore(p, [f \in Files |-> IF f \in kept THEN tomb[p][f] ELSE 0])
    <2>1. PICK kept \in SUBSET Files :
                   Restore(p, [f \in Files |-> IF f \in kept THEN tomb[p][f] ELSE 0])
      BY <1>3
    <2> DEFINE rest == [f \in Files |-> IF f \in kept THEN tomb[p][f] ELSE 0]
    <2>2. rest \in [Files -> Revision] /\ \A f \in Files : rest[f] \in {0, tomb[p][f]}
      <3>1. \A f \in Files : tomb[p][f] \in Revision  BY <1>2, Files1
      <3> QED  BY <3>1, Nobody
    <2>3. Restore(p, rest)  BY <2>1
    <2>4. Leaves(t, "failed")
      <3>1. "failed" \in Places  BY DEF Places, Afters
      <3> QED  BY <1>2, <1>3, <3>1, LeaveForTurn
    <2> HIDE DEF rest
    <2> QED  BY <1>1, <1>2, <2>2, <2>3, <2>4, RestoreKeepsStored
  <1>4. CASE /\ buried' = buried \ {p} /\ tomb' = [tomb EXCEPT ![p] = Nothing]
             /\ LeaveFor(t, "deleted")
             /\ UNCHANGED <<dirs, file, torn, troubles>>
    <2>1. /\ pc'[t] = "leave" /\ job'[t].pack = p
          /\ \A u \in Threads : u # t => pc'[u] = pc[u] /\ job'[u] = job[u]
      <3>1. "deleted" \in Places  BY DEF Places, Afters
      <3>2. Leaves(t, "deleted")  BY <1>2, <1>4, <3>1, LeaveForTurn
      <3> QED  BY <1>1, <3>2 DEF Leaves, Kept, Turn, Others
    <2>2. tomb'[p] = Nothing /\ \A q \in Packs : q # p => tomb'[q] = tomb[q]
      BY <1>2, <1>4 DEF PackTypes
    <2>3. Elsewhere(p)  BY <1>1, <1>2, <1>4, <2>1, <2>2 DEF Elsewhere
    <2>4. AtPack(p)'
      <3>1. /\ Chain(file[p]) /\ Settled(p) /\ Remembered(p)
            /\ \A u \in Threads : job[u].pack = p => Early(u) /\ Correcting(u) /\ Deleted(u)
        BY <1>2 DEF AtPack
      <3>2. Chain(file[p])' /\ Chain(tomb[p])'  BY <1>4, <2>2, <3>1, NothingChain DEF Chain
      <3>3. Settled(p)' /\ Remembered(p)'
        BY <1>2, <1>4, <2>1, <3>1 DEF Settled, Remembered, Agree
      <3>4. ASSUME NEW u \in Threads, job'[u].pack = p
            PROVE  Early(u)' /\ Correcting(u)' /\ Deleted(u)'
        <4>1. CASE u = t  BY <2>1, <4>1 DEF Early, Correcting, Deleted
        <4>2. CASE u # t
          <5>1. /\ Early(u) /\ Correcting(u) /\ pc'[u] = pc[u] /\ job'[u] = job[u]
                /\ job[u].pack = p /\ pc[u] \notin Held
            BY <1>1, <1>2, <2>1, <3>1, <3>4, <4>2, OneHolder DEF Held
          <5>2. \A v \in Threads : pc'[v] = "revise" => pc[v] = "revise" /\ job'[v] = job[v]
            BY <2>1
          <5>3. \A f \in Files : tomb'[p][f] = 0  BY <2>2, NothingChain
          <5>4. "corrections" \in Files  BY DEF Files
          <5> QED  BY <1>4, <5>1, <5>2, <5>3, <5>4 DEF Early, Correcting, Deleted, Held
        <4> QED  BY <4>1, <4>2
      <3> QED  BY <3>2, <3>3, <3>4 DEF AtPack
    <2> QED  BY <2>3, <2>4, OnePack
  <1> QED  BY <1>1, <1>3, <1>4 DEF Remove

LEMMA PackStepsKeepStored ==
    ASSUME Base, Locked, Stored, NEW t \in Threads, PackStep(t), LinksStay
    PROVE  Stored'
  <1>1. CASE Enter(t) \/ Acquire(t) \/ Leave(t) \/ Look(t)
    <2>1. StoreStays
      BY <1>1 DEF Enter, Acquire, Leave, Look, store, StoreStays
    <2>2. /\ \A u \in Threads : u # t => pc'[u] = pc[u] /\ job'[u] = job[u]
          /\ pc[t] \notin Busy /\ pc'[t] \notin Busy
      <3>1. CASE Enter(t) \/ Acquire(t) \/ Leave(t)
        <4>1. Turn(t)  BY <3>1, LockStepsKeepBase
        <4>2. Flow(t) /\ Moving  BY Given
        <4>3. pc[t] \in {"enter", "wait", "leave"} /\ pc'[t] \in {"wait"} \cup Firsts \cup Afters
          BY <3>1, <4>2 DEF Enter, Acquire, Leave, Goto, Flow, Moving
        <4> QED  BY <4>1, <4>3 DEF Turn, Others, Firsts, Afters, Busy
      <3>2. CASE Look(t)  BY <3>2, Turns DEF Leaves, Turn, Others, Busy
      <3> QED  BY <1>1, <3>1, <3>2
    <2> QED  BY <2>1, <2>2, StoreLeft
  <1> QED
    BY <1>1, MakeKeepsStored, ImportStepsKeepStored, NoteKeepsStored, ReviseKeepsStored,
       BuryKeepsStored, PurgeKeepsStored, RemoveKeepsStored DEF PackStep

LEMMA LinkStepsKeepStored ==
    ASSUME Base, Stored, NEW t \in Threads,
           \/ Reserve(t) \/ Made(t) \/ Link(t) \/ Cancel(t) \/ Detach(t) \/ Relink(t)
           \/ Claim(t) \/ Accept(t) \/ Bind(t) \/ Answer(t)
    PROVE  Stored'
  <1>1. Linking(t)  BY LinkStepsKeepBase
  <1>2. pc[t] \notin Busy /\ pc'[t] \notin Busy  BY LinkStepsOutside DEF Busy
  <1> QED  BY <1>1, <1>2, StoreLeft DEF Linking, Turn, Others

LEMMA AskKeepsStored ==
    ASSUME Stored, NEW t \in Threads, Begins(t)
    PROVE  Stored'
  BY StoreLeft DEF Begins, Busy, Turn, Others

LEMMA OneStepKeepsStored ==
    ASSUME Stored, OneRequest
    PROVE  Stored'
  BY StoreLeft DEF OneRequest

LEMMA DieKeepsStored ==
    ASSUME Base, Stored, Die
    PROVE  Stored'
  <1> SUFFICES ASSUME NEW p \in Packs PROVE AtPack(p)'
    BY DEF Stored
  <1>1. AtPack(p)  BY DEF Stored
  <1>2. /\ \A t \in Threads : pc'[t] = "idle"
        /\ dirs' = dirs /\ file' = file /\ tomb' = tomb /\ memory' = memory
        /\ torn' = torn \cup {q \in dirs : ~Agree(file[q])} /\ lost' = lost \cup buried
    BY DEF Die
  <1>3. Chain(file[p])' /\ Chain(tomb[p])'  BY <1>1, <1>2 DEF AtPack, Chain
  <1>4. Settled(p)'  BY <1>2 DEF Settled, Agree
  <1>5. Remembered(p)'
    <2>1. \A t \in Threads : job[t].pack = p /\ pc[t] = "purge" => p \in buried
      BY <1>1 DEF AtPack, Deleted
    <2> QED  BY <1>1, <1>2, <2>1 DEF AtPack, Remembered
  <1>6. \A t \in Threads : Early(t)' /\ Correcting(t)' /\ Deleted(t)'
    BY <1>2 DEF Early, Correcting, Deleted
  <1> QED  BY <1>3, <1>4, <1>5, <1>6 DEF AtPack

LEMMA InitHasStored ==
    ASSUME Init
    PROVE  Stored
  <1> SUFFICES ASSUME NEW p \in Packs PROVE AtPack(p)
    BY DEF Stored
  <1>1. /\ \A t \in Threads : pc[t] = "idle"
        /\ file[p] = [f \in Files |-> IF p \in named THEN 1 ELSE 0] /\ tomb[p] = Nothing
        /\ memory[p] = (IF p \in named THEN 1 ELSE 0) /\ dirs = named
    BY DEF Init
  <1>2. \A f \in Files : file[p][f] = IF p \in named THEN 1 ELSE 0
    BY <1>1
  <1>3. Chain(file[p]) /\ Chain(tomb[p]) /\ Settled(p)
    <2>1. Chain(file[p])  BY <1>2 DEF Chain, Files
    <2>2. Settled(p)  BY <1>2 DEF Settled, Agree, Files
    <2> QED  BY <1>1, <2>1, <2>2, NothingChain
  <1>4. Remembered(p)  BY <1>1 DEF Remembered
  <1>5. \A t \in Threads : Early(t) /\ Correcting(t) /\ Deleted(t)
    BY <1>1 DEF Early, Correcting, Deleted
  <1> QED  BY <1>3, <1>4, <1>5 DEF AtPack

-----------------------------------------------------------------------------
(* The links of conversations, and what the holder of creation_lock knows. *)

\* A request that holds creation_lock, and one that does not.
Holder(t) == \/ job[t].kind = "create" /\ pc[t] \notin {"claim", "done"}
             \/ job[t].kind = "delete" /\ pc[t] \notin {"detach", "done"}

LEMMA HolderOwns ==
    ASSUME Linked, NEW t \in Threads, Holder(t)
    PROVE  owner = t
  BY DEF Linked, Holding, Creating, Deleting, Holder

\* A thread that does not have the lock after a step knows nothing then.
LEMMA LearnsNothing ==
    ASSUME Base', NEW t \in Threads, ~Holder(t)'
    PROVE  Holding(t)'
  <1>1. Flow(t)'  BY DEF Base
  <1>2. Creating(t)' /\ Deleting(t)'  BY DEF Holder, Creating, Deleting
  <1>3. job'[t].kind \in {"create", "delete"} => pc'[t] \in {"claim", "detach", "done"}
    BY DEF Holder
  <1>4. Found(t)' /\ Binding(t)'
    <2>1. pc'[t] # "bind"  BY <1>1, <1>3 DEF Flow
    <2>2. job'[t].kind \in {"create", "delete"} => Aim(t)' # "seen"  BY <1>3 DEF Aim
    <2> QED  BY <2>1, <2>2 DEF Found, Binding
  <1> QED  BY <1>2, <1>4 DEF Holding

\* Nobody else holds the lock when it is free or this thread's: only its own knowledge counts.
LEMMA AlonePreserves ==
    ASSUME Base', Linked, NEW t \in Threads, Turn(t), owner \in {None, t}, Holding(t)'
    PROVE  (\A u \in Threads : Holding(u))'
  <1>1. ASSUME NEW u \in Threads, u # t
        PROVE  Holding(u)'
    <2>1. ~Holder(u)  BY <1>1, HolderOwns, Nobody
    <2>2. ~Holder(u)'  BY <1>1, <2>1 DEF Turn, Others, Holder
    <2> QED  BY <2>2, LearnsNothing
  <1> QED  BY <1>1

\* What others know stays true while rows, designs and the lock of packs do not change.
LEMMA OthersPreserve ==
    ASSUME Linked, NEW t \in Threads, Turn(t), StoreStays, chat' = chat, designs' = designs,
           owner' = owner \/ owner = t, Holding(t)'
    PROVE  (\A u \in Threads : Holding(u))'
  <1>1. ASSUME NEW u \in Threads, u # t
        PROVE  Holding(u)'
    <2>1. Holding(u) /\ pc'[u] = pc[u] /\ job'[u] = job[u]
      BY <1>1 DEF Linked, Turn, Others
    <2>2. owner = u => owner' = u  BY <1>1
    <2>3. Creating(u)' /\ Deleting(u)'
      BY <2>1, <2>2 DEF Holding, Creating, Deleting
    <2>4. Found(u)' /\ Binding(u)'
      BY <2>1 DEF Holding, Found, Binding, Known, StoreStays, Aim
    <2> QED  BY <2>3, <2>4 DEF Holding
  <1> QED  BY <1>1

\* Packs of conversations stay, or are known to be lost.
LEMMA ExistStill ==
    ASSUME LinkedPacksExist, chat' = chat, raced' = raced, lost \subseteq lost',
           \A c \in Chats : Known(chat[c].pack) => Known(chat[c].pack)' \/ chat[c].pack \in lost'
    PROVE  LinkedPacksExist'
  BY DEF LinkedPacksExist

\* Designs keep their conversations.
LEMMA BelongStill ==
    ASSUME DesignsBelongToChats, NEW t \in Threads, Turn(t), pc[t] # "bind",
           designs' = designs, loose' = loose, \A c \in Chats : chat'[c].design = chat[c].design
    PROVE  DesignsBelongToChats'
  BY DEF DesignsBelongToChats, Turn, Others, At

\* Reservations keep their imports.
LEMMA ReservedStill ==
    ASSUME Reserved, LinkTypes, NEW t \in Threads, Turn(t), pending' = pending, leaked' = leaked,
           \A c \in Chats : chat'[c].live = chat[c].live /\ (Importing(t, c)' <=> Importing(t, c))
    PROVE  Reserved'
  <1>1. \A u \in Threads, c \in Chats : Importing(u, c)' <=> Importing(u, c)
    BY DEF Turn, Others, Importing
  <1>2. pending' \subseteq Chats  BY DEF LinkTypes
  <1> QED  BY <1>1, <1>2 DEF Reserved

\* How a step on a pack moves its thread.
Walks(t) ==
    /\ Turn(t) /\ pc[t] \in {"enter", "make"} \cup Inside \cup Writing
    /\ pc'[t] \notin {"idle", "reserve", "claim", "detach", "accept", "bind"}
    /\ pc'[t] = "done" => job[t].kind = "correct"
    /\ job'[t].kind = job[t].kind /\ job'[t].chat = job[t].chat
    /\ job[t].kind # "upload" => job'[t].pack = job[t].pack
    /\ Aim(t)' = "seen" => StoreStays /\ (Aim(t) = "seen" \/ Known(job[t].pack))

LEMMA PackStepsWalk ==
    ASSUME Base, NEW t \in Threads, PackStep(t), LinksStay
    PROVE  Walks(t)
  <1>0. Flow(t) /\ Moving  BY Given
  <1>1. CASE Enter(t) \/ Acquire(t) \/ Leave(t)
    <2>1. Turn(t)  BY <1>1, LockStepsKeepBase
    <2>2. StoreStays  BY <1>1 DEF Enter, Acquire, Leave, store, StoreStays
    <2>3. /\ job'[t] = job[t] /\ pc[t] \in {"enter", "wait", "leave"}
          /\ pc'[t] = IF pc[t] = "enter" THEN "wait" ELSE job[t].then
      BY <1>0, <1>1 DEF Enter, Acquire, Leave, Goto, Moving
    <2>4. Aim(t)' = Aim(t)
      BY <1>0, <2>3 DEF Aim, Flow, Firsts, Afters
    <2> QED
      BY <1>0, <2>1, <2>2, <2>3, <2>4 DEF Walks, Flow, Firsts, Afters, Inside
  <1>2. CASE Make(t)
    BY <1>2, MakeKeepsBase, <1>0 DEF Walks, Goes, Aim, Flow
  <1>3. CASE Publish(t) \/ Remember(t) \/ ReportMemory(t) \/ Unmake(t)
    BY <1>3, Turns DEF Walks, Goes, Aim, Writing
  <1>4. CASE Look(t)
    <2>1. StoreStays  BY <1>4 DEF Look, store, StoreStays
    <2> QED  BY <1>4, <2>1, Turns DEF Walks, Leaves, Kept, Aim, Inside, Held
  <1>5. CASE Note(t) \/ Revise(t)
    <2>1. job[t].kind = "correct"  BY <1>0, <1>5, Turns, Noted DEF Flow, Aim
    <2> QED
      BY <1>5, <2>1, Turns, Noted DEF Walks, Leaves, Goes, Revising, Kept, Aim, Inside, Held
  <1>6. CASE Bury(t) \/ Purge(t) \/ Remove(t)
    BY <1>6, Turns DEF Walks, Leaves, Goes, Kept, Aim, Inside, Held
  <1> QED  BY <1>1, <1>2, <1>3, <1>4, <1>5, <1>6 DEF PackStep

\* A pack that can be read stays so, or is lost, unless it is deleted.
LEMMA WriteKeepsKnown ==
    ASSUME PackTypes, NEW p \in Packs, NEW fs, NEW r \in 1 .. MaxRevision,
           Write(p, fs, r), NEW q \in Packs, Known(q)
    PROVE  Known(q)'
  <1>1. /\ dirs' = dirs \cup {p} /\ (q # p => file'[q] = file[q])
        /\ \A f \in Files : file'[p][f] = IF f \in fs THEN r ELSE file[p][f]
    <2>1. r \in Revision  BY Nobody DEF Revision
    <2> QED  BY <2>1, WrittenFiles
  <1>2. {"index", "spec", "summary"} \subseteq Files /\ r # 0  BY Nobody DEF Files
  <1> QED  BY <1>1, <1>2 DEF Known, Whole

LEMMA KnownStays ==
    ASSUME Base, NEW t \in Threads, PackStep(t), LinksStay, NEW q \in Packs, Known(q)
    PROVE  /\ lost \subseteq lost'
           /\ Known(q)' \/ q \in lost' \/ (pc[t] = "bury" /\ q = job[t].pack)
  <1>0. PackTypes /\ Flow(t) /\ Moving /\ 1 \in 1 .. MaxRevision
    BY Given, PackAssumption
  <1>1. CASE Enter(t) \/ Acquire(t) \/ Leave(t) \/ Look(t)
    BY <1>1 DEF Enter, Acquire, Leave, Look, store, Known
  <1>2. CASE Make(t)
    <2>1. lost' = lost  BY <1>2 DEF Make
    <2>2. CASE dirs' = dirs /\ file' = file  BY <2>1, <2>2 DEF Known
    <2>3. CASE job'[t].pack \in Packs /\ Write(job'[t].pack, {"index", "spec", "summary"}, 1)
      <3>1. PICK p \in Packs : p = job'[t].pack  BY <2>3
      <3>2. Write(p, {"index", "spec", "summary"}, 1)  BY <2>3, <3>1
      <3> QED  BY <1>0, <2>1, <3>2, WriteKeepsKnown
    <2> QED  BY <1>2, <2>2, <2>3, MakeKeepsBase
  <1>3. CASE Publish(t) \/ ReportMemory(t)
    <2>1. PICK p \in Packs : p = job[t].pack  BY <1>3, Working DEF Publish, ReportMemory, Writing
    <2>2. \E fs : Write(p, fs, 1)  BY <1>3, <2>1 DEF Publish, ReportMemory
    <2>3. lost \subseteq lost'  BY <1>3 DEF Publish, ReportMemory, Late
    <2> QED  BY <1>0, <2>2, <2>3, WriteKeepsKnown
  <1>4. CASE Remember(t) \/ Note(t)
    BY <1>4 DEF Remember, Note, Late, Known
  <1>5. CASE Unmake(t)
    <2>1. q # job[t].pack => file'[q] = file[q]  BY <1>0, <1>5, SMTT(30) DEF Unmake, PackTypes
    <2> QED  BY <1>5, <2>1 DEF Unmake, Known
  <1>6. CASE Revise(t)
    <2>1. PICK p \in Packs : p = job[t].pack  BY <1>6, Working, SMTT(30) DEF Revise, Inside, Held
    <2>2. lost' = lost  BY <1>6 DEF Revise
    <2>3. CASE dirs' = dirs /\ file' = file  BY <2>2, <2>3 DEF Known
    <2>4. CASE \E fs : Write(p, fs, job[t].revision)
      <3>1. PICK r \in 1 .. MaxRevision : r = job[t].revision  BY <1>0, <1>6 DEF Revise, Flow
      <3>2. PICK fs : Write(p, fs, r)  BY <2>4, <3>1
      <3> QED  BY <1>0, <2>2, <3>2, WriteKeepsKnown, SMTT(30)
    <2> QED  BY <1>6, <2>1, <2>3, <2>4, SMTT(30) DEF Revise
  <1>7. CASE Bury(t)
    <2>1. q # job[t].pack => file'[q] = file[q]  BY <1>0, <1>7 DEF Bury, PackTypes
    <2> QED  BY <1>7, <2>1 DEF Bury, Known
  <1>8. CASE Purge(t) \/ Remove(t)
    <2>1. lost' = lost /\ \/ dirs' = dirs /\ file' = file
                          \/ \E d : Restore(job[t].pack, d)
      BY <1>8 DEF Purge, Remove
    <2>2. ASSUME NEW d, Restore(job[t].pack, d)
          PROVE  Known(q)'
      <3>1. CASE job[t].pack \in dirs  BY <2>2, <3>1 DEF Restore, Known
      <3>2. CASE job[t].pack \notin dirs
        <4>1. q # job[t].pack  BY <3>2 DEF Known
        <4>2. file'[q] = file[q]  BY <1>0, <2>2, <3>2, <4>1, SMTT(30) DEF Restore, PackTypes
        <4> QED  BY <2>2, <3>2, <4>2 DEF Restore, Known
      <3> QED  BY <3>1, <3>2
    <2> QED  BY <2>1, <2>2 DEF Known
  <1> QED  BY <1>1, <1>2, <1>3, <1>4, <1>5, <1>6, <1>7, <1>8 DEF PackStep

\* No step on a pack finds a lost one again.
LEMMA LostStays ==
    ASSUME NEW t \in Threads, PackStep(t)
    PROVE  lost \subseteq lost'
  BY DEF PackStep, Enter, Acquire, Leave, Make, Publish, Remember, ReportMemory, Unmake, Look,
         Note, Revise, Bury, Purge, Remove, Late, store

LEMMA PackStepsKeepLinked ==
    ASSUME Base, Base', Linked, NEW t \in Threads, PackStep(t), LinksStay
    PROVE  Linked'
  <1>1. Walks(t) /\ Turn(t)  BY PackStepsWalk DEF Walks
  <1>2. LinkTypes /\ PackTypes /\ Flow(t)  BY Given
  <1>3. /\ chat' = chat /\ pending' = pending /\ designs' = designs /\ owner' = owner
        /\ raced' = raced /\ loose' = loose /\ leaked' = leaked
    BY DEF LinksStay, RowsStay
  <1>4. Rows'  BY <1>3 DEF Linked, Rows
  <1>5. pc[t] \notin {"idle", "reserve", "claim", "detach", "accept", "bind"} \cup Afters
    BY <1>1 DEF Walks, Inside, Held, Writing, Afters
  <1>6. ASSUME NEW q \in Packs, Known(q)
        PROVE  lost \subseteq lost'
               /\ \/ Known(q)' \/ q \in lost'
                  \/ pc[t] = "bury" /\ q = job[t].pack /\ job[t].kind = "delete"
    <2>1. pc[t] = "bury" => job[t].kind = "delete"  BY <1>2 DEF Flow, Aim
    <2> QED  BY <1>6, <2>1, KnownStays
  <1>7. pc[t] = "bury" => job[t].kind = "delete" /\ Holder(t) /\ Deleting(t)
    BY <1>2 DEF Flow, Aim, Holder, Linked, Holding
  <1>8. LinkedPacksExist'
    <2> SUFFICES ASSUME NEW c \in Chats, chat[c].pack # None
                 PROVE  Known(chat[c].pack)' \/ c \in raced \/ chat[c].pack \in lost'
      BY <1>3 DEF LinkedPacksExist
    <2>1. PICK q \in Packs : q = chat[c].pack  BY <1>2, ChatFields
    <2>2. ~(pc[t] = "bury" /\ q = job[t].pack)  BY <1>7, <2>1 DEF Deleting
    <2>3. lost \subseteq lost'  BY LostStays
    <2>4. Known(q) \/ c \in raced \/ q \in lost  BY <2>1 DEF Linked, LinkedPacksExist
    <2>5. Known(q)' \/ c \in raced \/ q \in lost'  BY <1>6, <2>2, <2>3, <2>4
    <2> QED  BY <1>3, <2>1, <2>5 DEF Known
  <1>9. DesignsBelongToChats'
    BY <1>1, <1>3, <1>5, BelongStill DEF Linked
  <1>10. Reserved'
    <2>1. \A c \in Chats : Importing(t, c)' <=> Importing(t, c)
      BY <1>1, <1>5 DEF Walks, Importing, Afters
    <2> QED  BY <1>1, <1>2, <1>3, <2>1, ReservedStill DEF Linked
  <1>11. ASSUME NEW u \in Threads
         PROVE  Holding(u)'
    <2>1. Holding(u)  BY DEF Linked
    <2>2. CASE ~Holder(u)'  BY <2>2, LearnsNothing
    <2>3. CASE Holder(u)'
      <3>1. Holder(u) /\ job'[u].kind = job[u].kind /\ job'[u].chat = job[u].chat
            /\ job'[u].pack = job[u].pack
        <4>1. CASE u = t  BY <1>1, <1>5, <2>3, <4>1 DEF Walks, Holder, Afters
        <4>2. CASE u # t  BY <1>1, <2>3, <4>2 DEF Turn, Others, Holder
        <4> QED  BY <4>1, <4>2
      <3>2. owner = u  BY <3>1, HolderOwns
      <3>3. Creating(u)' /\ Deleting(u)'
        BY <1>3, <2>1, <3>1 DEF Holding, Creating, Deleting, Holder
      <3>4. Found(u)'
        <4>1. CASE u = t
          <5>1. pc'[t] # "bind"  BY <1>1 DEF Walks
          <5>2. Aim(t)' = "seen" /\ job[t].kind \in {"create", "delete"}
                  => Known(job[t].pack) \/ job[t].pack \in lost
            BY <1>1, <2>1, <4>1 DEF Walks, Holding, Found
          <5>3. Aim(t)' = "seen" => StoreStays  BY <1>1 DEF Walks
          <5> QED  BY <3>1, <4>1, <5>1, <5>2, <5>3 DEF Found, StoreStays, Known
        <4>2. CASE u # t
          <5>1. pc'[u] = pc[u] /\ job'[u] = job[u]  BY <1>1, <4>2 DEF Turn, Others
          <5>2. ~(pc[t] = "bury")  BY <1>7, <3>2, <4>2, HolderOwns
          <5>3. lost \subseteq lost'  BY LostStays
          <5>4. Found(u) /\ Flow(u)  BY <2>1, Given DEF Holding
          <5>5. CASE job[u].pack \in Packs
            BY <1>6, <5>1, <5>2, <5>3, <5>4, <5>5 DEF Found, Aim
          <5>6. CASE job[u].pack \notin Packs
            <6>1. job[u].pack = None  BY <5>6, Given
            <6> QED  BY <5>1, <5>4, <5>6, <6>1 DEF Found, Flow, Aim
          <5> QED  BY <5>5, <5>6
        <4> QED  BY <4>1, <4>2
      <3>5. Binding(u)'
        <4>1. pc'[u] = "bind" => pc[u] = "bind" /\ job'[u] = job[u]
          BY <1>1 DEF Walks, Turn, Others
        <4> QED  BY <1>3, <2>1, <4>1 DEF Holding, Binding
      <3> QED  BY <3>3, <3>4, <3>5 DEF Holding
    <2> QED  BY <2>2, <2>3
  <1> QED  BY <1>4, <1>8, <1>9, <1>10, <1>11 DEF Linked

LEMMA AskKeepsLinked ==
    ASSUME Base, Base', Linked, NEW t \in Threads, Begins(t)
    PROVE  Linked'
  <1>1. LinkTypes /\ Flow(t)  BY Given
  <1>2. /\ Turn(t) /\ StoreStays /\ chat' = chat /\ pending' = pending /\ designs' = designs
        /\ owner' = owner /\ raced' = raced /\ loose' = loose /\ leaked' = leaked
    BY DEF Begins, RowsStay
  <1>3. Rows'  BY <1>2 DEF Linked, Rows
  <1>4. LinkedPacksExist'  BY <1>2, ExistStill DEF Linked, StoreStays, Known
  <1>5. DesignsBelongToChats'  BY <1>2, BelongStill DEF Linked, Begins
  <1>6. Reserved'
    <2>1. \A c \in Chats : ~Importing(t, c)
      BY <1>1 DEF Begins, Importing, Flow
    <2>2. \A c \in Chats : ~Importing(t, c)'
      <3>1. Flow(t)'  BY DEF Base
      <3> QED  BY <3>1, Nobody DEF Begins, Importing, Flow, Aim
    <2> QED  BY <1>1, <1>2, <2>1, <2>2, ReservedStill DEF Linked
  <1>7. (\A u \in Threads : Holding(u))'
    <2>1. ~Holder(t)'
      <3>1. Flow(t)'  BY DEF Base
      <3> QED  BY <3>1 DEF Begins, Holder, Flow, Aim
    <2> QED  BY <1>2, <2>1, LearnsNothing, OthersPreserve
  <1> QED  BY <1>3, <1>4, <1>5, <1>6, <1>7 DEF Linked

\* A step on links by a thread, and what is left to show of it.
LinkFacts(t) == /\ Base /\ Base' /\ Linked /\ Turn(t) /\ StoreStays
                /\ LinkTypes /\ PackTypes /\ Flow(t) /\ Flow(t)'

LEMMA LinkFactsHold ==
    ASSUME Base, Linked, NEW t \in Threads,
           \/ Reserve(t) \/ Made(t) \/ Link(t) \/ Cancel(t) \/ Detach(t) \/ Relink(t)
           \/ Claim(t) \/ Accept(t) \/ Bind(t) \/ Answer(t)
    PROVE  LinkFacts(t)
  <1>1. Base' /\ Turn(t) /\ StoreStays  BY LinkStepsKeepBase DEF Linking
  <1>2. Flow(t)'  BY <1>1 DEF Base
  <1> QED  BY <1>1, <1>2, Given DEF LinkFacts

LEMMA ReserveKeepsLinked ==
    ASSUME Base, Linked, NEW t \in Threads, Reserve(t)
    PROVE  Linked'
  <1>1. LinkFacts(t)  BY LinkFactsHold
  <1>2. /\ pc[t] = "reserve" /\ job[t].kind = "upload" /\ Turn(t) /\ StoreStays /\ job'[t] = job[t]
        /\ chat' = chat /\ designs' = designs /\ owner' = owner /\ raced' = raced
        /\ loose' = loose /\ leaked' = leaked /\ pc'[t] \in {"make", "done"}
    BY <1>1 DEF LinkFacts, Reserve, At, history, Goto, Flow, Base, Moving
  <1>3. Rows' /\ LinkedPacksExist' /\ DesignsBelongToChats'
    BY <1>2, ExistStill, BelongStill DEF Linked, Rows, StoreStays, Known
  <1>4. (\A u \in Threads : Holding(u))'
    <2>1. ~Holder(t)'  BY <1>2 DEF Holder
    <2> QED  BY <1>1, <1>2, <2>1, LearnsNothing, OthersPreserve DEF LinkFacts
  <1>5. Reserved'
    <2>1. CASE pending' = pending /\ pc'[t] = "done"
      <3>1. \A c \in Chats : ~Importing(t, c) /\ ~Importing(t, c)'
        BY <1>2, <2>1 DEF Importing
      <3> QED  BY <1>1, <1>2, <2>1, <3>1, ReservedStill DEF Linked, LinkFacts
    <2>2. CASE /\ pending' = pending \cup {job[t].chat} /\ pc'[t] = "make"
               /\ chat[job[t].chat].live /\ job[t].chat \notin pending
      <3>1. \A u \in Threads, c \in Chats :
               Importing(u, c)' <=> Importing(u, c) \/ (u = t /\ c = job[t].chat)
        BY <1>2, <2>2 DEF Importing, Turn, Others
      <3>2. pending \subseteq Chats /\ job[t].chat \in Chats
        BY <1>1, <1>2 DEF LinkFacts, LinkTypes, Flow, Aim
      <3> QED  BY <1>2, <2>2, <3>1, <3>2 DEF Linked, Reserved
    <2> QED
      BY <1>1, <1>2, <2>1, <2>2 DEF Reserve, Goto, LinkFacts, Base, Moving
  <1> QED  BY <1>3, <1>4, <1>5 DEF Linked

LEMMA MadeKeepsLinked ==
    ASSUME Base, Linked, NEW t \in Threads, Made(t)
    PROVE  Linked'
  <1>1. LinkFacts(t)  BY LinkFactsHold
  <1>2. /\ pc[t] = "made" /\ job[t].kind = "upload" /\ Turn(t) /\ StoreStays /\ job'[t] = job[t]
        /\ chat' = chat /\ designs' = designs /\ owner' = owner /\ raced' = raced
        /\ loose' = loose /\ leaked' = leaked /\ pending' = pending
        /\ pc'[t] = IF job[t].chat = None THEN "done" ELSE "enter"
    BY <1>1 DEF LinkFacts, Made, At, history, links, Goto, Flow, Base, Moving
  <1>3. Rows' /\ LinkedPacksExist' /\ DesignsBelongToChats'
    BY <1>2, ExistStill, BelongStill DEF Linked, Rows, StoreStays, Known
  <1>4. (\A u \in Threads : Holding(u))'
    <2>1. ~Holder(t)'  BY <1>2 DEF Holder
    <2> QED  BY <1>1, <1>2, <2>1, LearnsNothing, OthersPreserve DEF LinkFacts
  <1>5. Reserved'
    <2>1. \A c \in Chats : Importing(t, c)' <=> Importing(t, c)
      BY <1>2, Nobody DEF Importing
    <2> QED  BY <1>1, <1>2, <2>1, ReservedStill DEF Linked, LinkFacts
  <1> QED  BY <1>3, <1>4, <1>5 DEF Linked

\* The end of an import ends its reservation.
LEMMA ImportEnds ==
    ASSUME Linked, LinkTypes, NEW t \in Threads, Turn(t), pc'[t] = "done", pc[t] # "reserve",
           pc[t] # "done", job[t].kind = "upload",
           \A d \in Chats : chat'[d].live = chat[d].live,
           \/ pending' = pending \ {job[t].chat} /\ leaked' = leaked
           \/ pending' = pending /\ leaked' = leaked \cup {job[t].chat}
    PROVE  Reserved'
  <1>1. \A u \in Threads, c \in Chats :
           Importing(u, c)' <=> Importing(u, c) /\ u # t
    BY DEF Turn, Others, Importing
  <1>2. \A c \in Chats : c = job[t].chat <=> Importing(t, c)  BY DEF Importing
  <1>3. pending \subseteq Chats  BY DEF LinkTypes
  <1> QED  BY <1>1, <1>2, <1>3 DEF Linked, Reserved

LEMMA CancelKeepsLinked ==
    ASSUME Base, Linked, NEW t \in Threads, Cancel(t)
    PROVE  Linked'
  <1>1. LinkFacts(t)  BY LinkFactsHold
  <1>2. /\ pc[t] \in {"unmade", "unseen"} /\ job[t].kind = "upload" /\ Turn(t) /\ StoreStays
        /\ job'[t] = job[t] /\ pc'[t] = "done"
        /\ chat' = chat /\ designs' = designs /\ owner' = owner /\ raced' = raced
        /\ loose' = loose
    BY <1>1 DEF LinkFacts, Cancel, At, Goto, Flow, Base, Moving
  <1>3. Rows' /\ LinkedPacksExist' /\ DesignsBelongToChats'
    BY <1>2, ExistStill, BelongStill DEF Linked, Rows, StoreStays, Known
  <1>4. (\A u \in Threads : Holding(u))'
    <2>1. ~Holder(t)'  BY <1>2 DEF Holder
    <2> QED  BY <1>1, <1>2, <2>1, LearnsNothing, OthersPreserve DEF LinkFacts
  <1>5. Reserved'
    <2>1. \/ pending' = pending \ {job[t].chat} /\ leaked' = leaked
          \/ pending' = pending /\ leaked' = leaked \cup {job[t].chat}
      BY DEF Cancel
    <2> QED  BY <1>1, <1>2, <2>1, ImportEnds DEF LinkFacts
  <1> QED  BY <1>3, <1>4, <1>5 DEF Linked

LEMMA LinkKeepsLinked ==
    ASSUME Base, Linked, NEW t \in Threads, Link(t)
    PROVE  Linked'
  <1>1. LinkFacts(t)  BY LinkFactsHold
  <1>2. /\ pc[t] = "seen" /\ job[t].kind = "upload" /\ Turn(t) /\ StoreStays
        /\ job'[t] = job[t] /\ pc'[t] = "done" /\ owner = None
        /\ designs' = designs /\ owner' = owner /\ loose' = loose /\ leaked' = leaked
        /\ pending' = pending \ {job[t].chat}
        /\ raced' = IF Known(job[t].pack) THEN raced \ {job[t].chat} ELSE raced \cup {job[t].chat}
    BY <1>1 DEF LinkFacts, Link, At, Free, Goto, Flow, Base, Moving
  <1>3. job[t].chat \in Chats /\ job[t].pack \in Packs
    BY <1>1, <1>2 DEF LinkFacts, Flow, Aim
  <1>4. Repacks(job[t].chat, job[t].pack)
    BY <1>1, <1>3, OneRepacked DEF Link, LinkFacts
  <1>5. chat[job[t].chat].live
    <2>1. Importing(t, job[t].chat)  BY <1>2 DEF Importing
    <2> QED  BY <1>3, <2>1 DEF Linked, Reserved
  <1>6. Rows'  BY <1>4, <1>5 DEF Linked, Rows, Repacks
  <1>7. LinkedPacksExist'
    <2>1. \A c \in Chats : chat'[c].pack = IF c = job[t].chat THEN job[t].pack ELSE chat[c].pack
      BY <1>4 DEF Repacks
    <2>2. dirs' = dirs /\ file' = file /\ lost' = lost  BY <1>2 DEF StoreStays
    <2> QED  BY <1>2, <2>1, <2>2 DEF Linked, LinkedPacksExist, Known
  <1>8. DesignsBelongToChats'  BY <1>2, <1>4, BelongStill DEF Linked, Repacks
  <1>9. (\A u \in Threads : Holding(u))'
    <2>1. ~Holder(t)'  BY <1>2 DEF Holder
    <2> QED  BY <1>1, <1>2, <2>1, LearnsNothing, AlonePreserves DEF LinkFacts
  <1>10. Reserved'
    <2>1. \A d \in Chats : chat'[d].live = chat[d].live  BY <1>4 DEF Repacks
    <2> QED  BY <1>1, <1>2, <2>1, ImportEnds DEF LinkFacts
  <1> QED  BY <1>6, <1>7, <1>8, <1>9, <1>10 DEF Linked

LEMMA AnswerKeepsLinked ==
    ASSUME Base, Linked, NEW t \in Threads, Answer(t)
    PROVE  Linked'
  <1>1. LinkFacts(t)  BY LinkFactsHold
  <1>2. /\ pc[t] = "done" \/ job[t].kind \in {"read", "create"}
        /\ pc[t] # "bind" /\ Turn(t) /\ StoreStays /\ job'[t] = NoJob /\ pc'[t] = "idle"
        /\ chat' = chat /\ designs' = designs /\ raced' = raced
        /\ loose' = loose /\ leaked' = leaked /\ pending' = pending
        /\ owner' = owner \/ owner = t
    BY <1>1 DEF LinkFacts, Answer, At, history, links, Base, Moving
  <1>3. Rows' /\ LinkedPacksExist' /\ DesignsBelongToChats'
    BY <1>2, ExistStill, BelongStill DEF Linked, Rows, StoreStays, Known
  <1>4. (\A u \in Threads : Holding(u))'
    <2>1. ~Holder(t)'  BY <1>2, NoJobRecord DEF Holder
    <2> QED  BY <1>1, <1>2, <2>1, LearnsNothing, OthersPreserve DEF LinkFacts
  <1>5. Reserved'
    <2>1. \A c \in Chats : ~Importing(t, c) /\ ~Importing(t, c)'
      BY <1>2, NoJobRecord DEF Importing
    <2> QED  BY <1>1, <1>2, <2>1, ReservedStill DEF Linked, LinkFacts
  <1> QED  BY <1>3, <1>4, <1>5 DEF Linked

LEMMA DetachKeepsLinked ==
    ASSUME Base, Linked, NEW t \in Threads, Detach(t)
    PROVE  Linked'
  <1>1. LinkFacts(t)  BY LinkFactsHold
  <1>2. /\ pc[t] = "detach" /\ job[t].kind = "delete" /\ Turn(t) /\ StoreStays
        /\ job'[t] = job[t] /\ pc'[t] \in {"enter", "done"} /\ owner = None
        /\ designs' = designs /\ loose' = loose /\ leaked' = leaked /\ pending' = pending
    BY <1>1 DEF LinkFacts, Detach, At, Free, Goto, Flow, Aim, Base, Moving
  <1>3. job[t].pack \in Packs /\ job[t].chat \in Chats \cup {None} /\ job[t].then = "bury"
    BY <1>1, <1>2, Given DEF LinkFacts, Flow
  <1>4. Reserved'
    <2>1. \A c \in Chats : ~Importing(t, c) /\ ~Importing(t, c)'  BY <1>2 DEF Importing
    <2>2. \A c \in Chats : chat'[c].live = chat[c].live
      <3>1. \/ chat' = chat
            \/ chat' = [d \in Chats |-> IF d = job[t].chat THEN [chat[d] EXCEPT !.pack = None]
                                        ELSE chat[d]]
        BY DEF Detach
      <3>2. chat' = chat \/ Repacks(job[t].chat, None)  BY <1>1, <3>1, Repacked DEF LinkFacts
      <3> QED  BY <3>2 DEF Repacks
    <2> QED  BY <1>1, <1>2, <2>1, <2>2, ReservedStill DEF Linked, LinkFacts
  <1>5. CASE chat' = chat /\ raced' = raced /\ pc'[t] = "done"
    <2>1. Rows' /\ LinkedPacksExist' /\ DesignsBelongToChats'
      BY <1>2, <1>5, ExistStill, BelongStill DEF Linked, Rows, StoreStays, Known
    <2>2. (\A u \in Threads : Holding(u))'
      <3>1. ~Holder(t)'  BY <1>2, <1>5 DEF Holder
      <3> QED  BY <1>1, <1>2, <3>1, LearnsNothing, AlonePreserves DEF LinkFacts
    <2> QED  BY <1>4, <2>1, <2>2 DEF Linked
  <1>6. CASE /\ {d \in Chats : chat[d].pack = job[t].pack}
                   = IF job[t].chat = None THEN {} ELSE {job[t].chat}
             /\ chat' = [d \in Chats |-> IF d = job[t].chat THEN [chat[d] EXCEPT !.pack = None]
                                         ELSE chat[d]]
             /\ raced' = raced \ {job[t].chat} /\ owner' = t /\ pc'[t] = "enter"
    <2>1. Repacks(job[t].chat, None)  BY <1>1, <1>6, Repacked DEF LinkFacts
    <2>2. \A d \in Chats : chat[d].pack = job[t].pack <=> d = job[t].chat
      BY <1>3, <1>6, Nobody
    <2>3. \A d \in Chats : d = job[t].chat => chat[d].live
      BY <1>3, <2>2, NewChatRecord, Nobody DEF Linked, Rows
    <2>4. Rows'  BY <2>1, <2>3 DEF Linked, Rows, Repacks
    <2>5. LinkedPacksExist'
      <3>1. \A c \in Chats : chat'[c].pack = IF c = job[t].chat THEN None ELSE chat[c].pack
        BY <2>1 DEF Repacks
      <3>2. dirs' = dirs /\ file' = file /\ lost' = lost  BY <1>2 DEF StoreStays
      <3> QED  BY <1>6, <3>1, <3>2 DEF Linked, LinkedPacksExist, Known
    <2>6. DesignsBelongToChats'  BY <1>2, <2>1, BelongStill DEF Linked, Repacks
    <2>7. (\A u \in Threads : Holding(u))'
      <3>1. Creating(t)' /\ Found(t)' /\ Binding(t)'
        BY <1>2, <1>3, <1>6 DEF Creating, Found, Binding, Aim
      <3>2. Deleting(t)'
        <4>1. \A c \in Chats : chat'[c].pack # job[t].pack /\ chat'[c].live = chat[c].live
          BY <1>3, <2>1, <2>2, Nobody DEF Repacks
        <4> QED  BY <1>2, <1>6, <2>3, <4>1 DEF Deleting
      <3> QED  BY <1>1, <1>2, <3>1, <3>2, AlonePreserves DEF LinkFacts, Holding
    <2> QED  BY <1>4, <2>4, <2>5, <2>6, <2>7 DEF Linked
  <1> QED  BY <1>1, <1>2, <1>5, <1>6 DEF Detach, Goto, LinkFacts, Base, Moving

LEMMA RelinkKeepsLinked ==
    ASSUME Base, Linked, NEW t \in Threads, Relink(t)
    PROVE  Linked'
  <1>1. LinkFacts(t)  BY LinkFactsHold
  <1>2. /\ pc[t] \in {"failed", "seen", "unseen", "gone", "deleted"} /\ job[t].kind = "delete"
        /\ Turn(t) /\ StoreStays /\ owner' = owner /\ raced' = raced
        /\ designs' = designs /\ loose' = loose /\ leaked' = leaked /\ pending' = pending
        /\ chat' = chat \/ pc[t] = "seen"
    BY <1>1 DEF LinkFacts, Relink, At, history
  <1>3. Holder(t) /\ owner = t /\ Deleting(t) /\ Found(t)
    BY <1>2, HolderOwns DEF Holder, Linked, Holding
  <1>4. job'[t].kind = "delete" /\ job'[t].chat = job[t].chat /\ job'[t].pack = job[t].pack
    <2>1. CASE job' = job  BY <1>2, <2>1
    <2>2. CASE job' = [job EXCEPT ![t].then = "look"]
      <3> DEFINE q == Going(job[t], "look")
      <3>1. job[t] \in JobSet /\ "look" \in Places  BY Given DEF Places, Inside, Held
      <3>2. q.kind = job[t].kind /\ q.chat = job[t].chat /\ q.pack = job[t].pack
        BY <3>1, GoingRecord
      <3>3. job' = [job EXCEPT ![t] = q]  BY <2>2 DEF Going
      <3> HIDE DEF q
      <3>4. job'[t] = q  BY <1>1, <3>3 DEF LinkFacts, Base, Moving
      <3> QED  BY <1>2, <3>2, <3>4
    <2> QED  BY <2>1, <2>2 DEF Relink, Goto
  <1>5. job[t].pack \in Packs /\ job[t].chat \in Chats \cup {None}
    BY <1>1, <1>2, Given DEF LinkFacts, Flow
  <1>6. Reserved'
    <2>1. \A c \in Chats : ~Importing(t, c) /\ ~Importing(t, c)'  BY <1>2, <1>4 DEF Importing
    <2>2. \A c \in Chats : chat'[c].live = chat[c].live
      <3>1. \/ chat' = chat
            \/ chat' = [c \in Chats |-> IF c = job[t].chat
                                        THEN [chat[c] EXCEPT !.pack = job[t].pack] ELSE chat[c]]
        BY DEF Relink
      <3>2. chat' = chat \/ Repacks(job[t].chat, job[t].pack)
        BY <1>1, <1>5, <3>1, Repacked DEF LinkFacts
      <3> QED  BY <3>2 DEF Repacks
    <2> QED  BY <1>1, <1>2, <2>1, <2>2, ReservedStill DEF Linked, LinkFacts
  <1>7. CASE chat' = chat
    <2>1. Rows' /\ LinkedPacksExist' /\ DesignsBelongToChats'
      BY <1>2, <1>7, ExistStill, BelongStill DEF Linked, Rows, StoreStays, Known
    <2>2. pc'[t] = "done" \/ (pc'[t] = "enter" /\ job'[t].then = "look")
      <3>1. pc'[t] \in {"done", "enter"}
        BY <1>1 DEF Relink, Goto, LinkFacts, Base, Moving
      <3>2. pc'[t] = "enter" => pc[t] = "failed" /\ job' = [job EXCEPT ![t].then = "look"]
        BY <1>1 DEF Relink, Goto, LinkFacts, Base, Moving, At
      <3>3. job' = [job EXCEPT ![t].then = "look"] => job'[t].then = "look"
        <4>1. job[t] \in JobSet  BY Given
        <4> QED  BY <1>1, <4>1 DEF LinkFacts, Base, Moving, JobSet
      <3> QED  BY <3>1, <3>2, <3>3
    <2>3. Holding(t)'
      <3>1. Creating(t)' /\ Found(t)' /\ Binding(t)'
        BY <1>4, <2>2 DEF Creating, Found, Binding, Aim
      <3>2. Deleting(t)'  BY <1>2, <1>3, <1>4, <1>7 DEF Deleting
      <3> QED  BY <3>1, <3>2 DEF Holding
    <2>4. (\A u \in Threads : Holding(u))'
      BY <1>1, <1>2, <1>3, <2>3, AlonePreserves DEF LinkFacts
    <2> QED  BY <1>6, <2>1, <2>4 DEF Linked
  <1>8. CASE /\ pc[t] = "seen" /\ pc'[t] = "done"
             /\ chat' = [c \in Chats |-> IF c = job[t].chat
                                         THEN [chat[c] EXCEPT !.pack = job[t].pack] ELSE chat[c]]
    <2>1. Repacks(job[t].chat, job[t].pack)  BY <1>1, <1>5, <1>8, Repacked DEF LinkFacts
    <2>2. \A c \in Chats : c = job[t].chat => chat[c].live
      BY <1>2, <1>3, <1>8 DEF Deleting
    <2>3. Rows'  BY <2>1, <2>2 DEF Linked, Rows, Repacks
    <2>4. LinkedPacksExist'
      <3>1. \A c \in Chats : chat'[c].pack = IF c = job[t].chat THEN job[t].pack
                                             ELSE chat[c].pack
        BY <2>1 DEF Repacks
      <3>2. dirs' = dirs /\ file' = file /\ lost' = lost  BY <1>2 DEF StoreStays
      <3>3. Known(job[t].pack) \/ job[t].pack \in lost  BY <1>2, <1>3, <1>8 DEF Found, Aim
      <3> QED  BY <1>2, <3>1, <3>2, <3>3 DEF Linked, LinkedPacksExist, Known
    <2>5. DesignsBelongToChats'  BY <1>2, <2>1, BelongStill DEF Linked, Repacks
    <2>6. (\A u \in Threads : Holding(u))'
      <3>1. ~Holder(t)'  BY <1>4, <1>8 DEF Holder
      <3> QED  BY <1>1, <1>2, <1>3, <3>1, LearnsNothing, AlonePreserves DEF LinkFacts
    <2> QED  BY <1>6, <2>3, <2>4, <2>5, <2>6 DEF Linked
  <1> QED  BY <1>1, <1>2, <1>7, <1>8 DEF Relink, Goto, At, LinkFacts, Base, Moving

LEMMA ClaimKeepsLinked ==
    ASSUME Base, Linked, NEW t \in Threads, Claim(t)
    PROVE  Linked'
  <1>1. LinkFacts(t)  BY LinkFactsHold
  <1>2. /\ pc[t] = "claim" /\ job[t].kind = "create" /\ job[t].then = "look"
        /\ Turn(t) /\ StoreStays /\ job'[t] = job[t] /\ owner = None
        /\ chat' = chat /\ designs' = designs /\ raced' = raced
        /\ loose' = loose /\ leaked' = leaked /\ pending' = pending
    BY <1>1 DEF LinkFacts, Claim, At, Free, history, links, Goto, Flow, Base, Moving
  <1>3. Rows' /\ LinkedPacksExist' /\ DesignsBelongToChats'
    BY <1>2, ExistStill, BelongStill DEF Linked, Rows, StoreStays, Known
  <1>4. Reserved'
    <2>1. \A c \in Chats : ~Importing(t, c) /\ ~Importing(t, c)'  BY <1>2 DEF Importing
    <2> QED  BY <1>1, <1>2, <2>1, ReservedStill DEF Linked, LinkFacts
  <1>5. \/ pc'[t] = "done"
        \/ /\ chat[job[t].chat].live /\ chat[job[t].chat].design = None
           /\ owner' = t /\ pc'[t] \in {"accept", "enter"}
    BY <1>1 DEF Claim, Goto, LinkFacts, Base, Moving
  <1>6. Holding(t)'
    <2>1. CASE pc'[t] = "done"
      <3>1. ~Holder(t)'  BY <1>2, <2>1 DEF Holder
      <3> QED  BY <1>1, <3>1, LearnsNothing DEF LinkFacts
    <2>2. CASE /\ chat[job[t].chat].live /\ chat[job[t].chat].design = None
               /\ owner' = t /\ pc'[t] \in {"accept", "enter"}
      BY <1>2, <2>2 DEF Holding, Creating, Deleting, Found, Binding, Aim
    <2> QED  BY <1>5, <2>1, <2>2
  <1>7. (\A u \in Threads : Holding(u))'
    BY <1>1, <1>2, <1>6, AlonePreserves DEF LinkFacts
  <1> QED  BY <1>3, <1>4, <1>7 DEF Linked

LEMMA AcceptKeepsLinked ==
    ASSUME Base, Linked, NEW t \in Threads, Accept(t)
    PROVE  Linked'
  <1>1. LinkFacts(t)  BY LinkFactsHold
  <1>2. /\ pc[t] \in {"accept", "seen"} /\ job[t].kind = "create" /\ Turn(t) /\ StoreStays
        /\ chat' = chat /\ raced' = raced /\ loose' = loose /\ leaked' = leaked
        /\ pending' = pending /\ owner' = owner
    BY <1>1 DEF LinkFacts, Accept, At, history, Flow
  <1>3. Holder(t) /\ owner = t /\ Creating(t) /\ Found(t)
    BY <1>2, HolderOwns DEF Holder, Linked, Holding
  <1>4. Rows' /\ LinkedPacksExist'
    BY <1>2, ExistStill DEF Linked, Rows, StoreStays, Known
  <1>5. CASE pc'[t] = "done" /\ job'[t] = job[t] /\ designs' = designs
    <2>1. DesignsBelongToChats'  BY <1>2, <1>5, BelongStill DEF Linked
    <2>2. Reserved'
      <3>1. \A c \in Chats : ~Importing(t, c) /\ ~Importing(t, c)'
        BY <1>2, <1>5 DEF Importing
      <3> QED  BY <1>1, <1>2, <3>1, ReservedStill DEF Linked, LinkFacts
    <2>3. (\A u \in Threads : Holding(u))'
      <3>1. ~Holder(t)'  BY <1>2, <1>5 DEF Holder
      <3> QED  BY <1>1, <1>2, <1>3, <3>1, LearnsNothing, AlonePreserves DEF LinkFacts
    <2> QED  BY <1>4, <2>1, <2>2, <2>3 DEF Linked
  <1>6. CASE \E w \in Designs \ accepted : /\ designs' = designs \cup {w}
                                           /\ job' = [job EXCEPT ![t].revision = w]
                                           /\ pc' = [pc EXCEPT ![t] = "bind"]
    <2>1. PICK w \in Designs \ accepted : /\ designs' = designs \cup {w}
                                          /\ job' = [job EXCEPT ![t].revision = w]
                                          /\ pc' = [pc EXCEPT ![t] = "bind"]
      BY <1>6
    <2>2. /\ pc'[t] = "bind" /\ job'[t].revision = w /\ job'[t].kind = "create"
          /\ job'[t].chat = job[t].chat /\ job'[t].pack = job[t].pack
      <3> DEFINE q == Counting(job[t], w)
      <3>1. job[t] \in JobSet /\ w \in Nat  BY Given, Nobody
      <3>2. /\ q.kind = job[t].kind /\ q.chat = job[t].chat /\ q.pack = job[t].pack
            /\ q.revision = w
        BY <3>1, CountingRecord
      <3>3. job' = [job EXCEPT ![t] = q]  BY <2>1 DEF Counting
      <3> HIDE DEF q
      <3> QED  BY <1>1, <1>2, <2>1, <3>2, <3>3 DEF LinkFacts, Base, Moving
    <2>3. w \notin designs /\ \A c \in Chats : chat[c].design # w
      <3>1. designs \subseteq accepted /\ w # None  BY <1>1, Nobody DEF LinkFacts, LinkTypes
      <3> QED  BY <2>1, <3>1 DEF Linked, DesignsBelongToChats
    <2>4. DesignsBelongToChats'
      <3>1. \A u \in Threads : At(u, "bind") => At(u, "bind")' /\ job'[u].revision = job[u].revision
        BY <1>2 DEF At, Turn, Others
      <3>2. At(t, "bind")'  BY <2>2 DEF At
      <3> QED  BY <1>2, <2>1, <2>2, <3>1, <3>2 DEF Linked, DesignsBelongToChats
    <2>5. Reserved'
      <3>1. \A c \in Chats : ~Importing(t, c) /\ ~Importing(t, c)'
        BY <1>2, <2>2 DEF Importing
      <3> QED  BY <1>1, <1>2, <3>1, ReservedStill DEF Linked, LinkFacts
    <2>6. Holding(t)'
      <3>1. Creating(t)' /\ Deleting(t)'
        BY <1>2, <1>3, <2>2 DEF Creating, Deleting
      <3>2. Binding(t)'  BY <1>2, <2>1, <2>2, <2>3 DEF Binding
      <3>3. Found(t)'
        <4>1. Aim(t)' # "seen"  BY <2>2 DEF Aim
        <4>2. job[t].pack # None => Known(job[t].pack) \/ job[t].pack \in lost
          <5>1. pc[t] = "accept" => job[t].pack = None  BY <1>1 DEF LinkFacts, Flow
          <5>2. pc[t] = "seen" => Known(job[t].pack) \/ job[t].pack \in lost
            BY <1>2, <1>3 DEF Found, Aim
          <5> QED  BY <1>2, <5>1, <5>2
        <4> QED  BY <1>2, <2>2, <4>1, <4>2 DEF Found, StoreStays, Known
      <3> QED  BY <3>1, <3>2, <3>3 DEF Holding
    <2>7. (\A u \in Threads : Holding(u))'
      BY <1>1, <1>2, <1>3, <2>6, AlonePreserves DEF LinkFacts
    <2> QED  BY <1>4, <2>4, <2>5, <2>7 DEF Linked
  <1>7. CASE Goto(t, "done") /\ designs' = designs
    BY <1>1, <1>2, <1>5, <1>7 DEF Goto, LinkFacts, Base, Moving
  <1> QED  BY <1>6, <1>7 DEF Accept

LEMMA BindKeepsLinked ==
    ASSUME Base, Linked, NEW t \in Threads, Bind(t)
    PROVE  Linked'
  <1>1. LinkFacts(t)  BY LinkFactsHold
  <1>2. /\ pc[t] = "bind" /\ pc'[t] = "done" /\ job'[t] = job[t] /\ job[t].kind = "create"
        /\ Turn(t) /\ StoreStays /\ designs' = designs /\ leaked' = leaked
        /\ pending' = pending /\ owner' = owner
    BY <1>1 DEF LinkFacts, Bind, At, Goto, Flow, Base, Moving
  <1>3. /\ Holder(t) /\ owner = t /\ Creating(t) /\ Found(t) /\ Binding(t)
    BY <1>2, HolderOwns DEF Holder, Linked, Holding
  <1>4. PICK c \in Chats : c = job[t].chat
    BY <1>1, <1>2 DEF LinkFacts, Flow
  <1>5. PICK w \in Designs : w = job[t].revision
    BY <1>1, <1>2 DEF LinkFacts, Flow
  <1>6. PICK p \in Packs \cup {None} : p = job[t].pack
    BY Given
  <1>7. /\ chat[c].live /\ chat[c].design = None /\ w \in designs
        /\ \A d \in Chats : chat[d].design # w
    BY <1>2, <1>3, <1>4, <1>5 DEF Creating, Binding
  <1>8. (\A u \in Threads : Holding(u))'
    <2>1. ~Holder(t)'  BY <1>2 DEF Holder
    <2> QED  BY <1>1, <1>2, <1>3, <2>1, LearnsNothing, AlonePreserves DEF LinkFacts
  <1>9. \A d \in Chats : ~Importing(t, d) /\ ~Importing(t, d)'  BY <1>2 DEF Importing
  <1>10. \A u \in Threads : At(u, "bind") => u = t \/ (At(u, "bind")' /\ job'[u] = job[u])
    BY <1>2 DEF At, Turn, Others
  <1>11. CASE chat' = chat /\ raced' = raced /\ loose' = loose \cup {w}
    <2>1. Rows' /\ LinkedPacksExist'
      BY <1>2, <1>11, ExistStill DEF Linked, Rows, StoreStays, Known
    <2>2. DesignsBelongToChats'
      BY <1>2, <1>5, <1>10, <1>11 DEF Linked, DesignsBelongToChats
    <2>3. Reserved'
      BY <1>1, <1>2, <1>9, <1>11, ReservedStill DEF Linked, LinkFacts
    <2> QED  BY <1>8, <2>1, <2>2, <2>3 DEF Linked
  <1>12. CASE /\ chat' = [chat EXCEPT ![c].design = w, ![c].pack = IF p = None THEN @ ELSE p]
              /\ raced' = (IF p = None THEN raced ELSE raced \ {c}) /\ loose' = loose
    <2>1. Binds(c, w, p)  BY <1>1, <1>12, Bound DEF LinkFacts
    <2>2. Rows'
      <3>1. \A d \in Chats : d # c => chat'[d] = chat[d]  BY <2>1 DEF Binds
      <3>2. chat'[c].live  BY <1>7, <2>1 DEF Binds
      <3> QED  BY <3>1, <3>2 DEF Linked, Rows
    <2>3. LinkedPacksExist'
      <3>1. \A d \in Chats : chat'[d].pack = IF d = c /\ p # None THEN p ELSE chat[d].pack
        BY <2>1 DEF Binds
      <3>2. dirs' = dirs /\ file' = file /\ lost' = lost  BY <1>2 DEF StoreStays
      <3>3. p # None => Known(p) \/ p \in lost  BY <1>2, <1>3, <1>6 DEF Found
      <3>4. \A d \in Chats : d \in raced /\ (d # c \/ p = None) => d \in raced'  BY <1>12
      <3> QED  BY <3>1, <3>2, <3>3, <3>4 DEF Linked, LinkedPacksExist, Known
    <2>4. DesignsBelongToChats'
      <3>1. \A d \in Chats : chat'[d].design = IF d = c THEN w ELSE chat[d].design
        BY <2>1 DEF Binds
      <3>2. \A v \in designs : v # None  BY <1>1, Nobody DEF LinkFacts, LinkTypes
      <3>3. \A d \in Chats : chat'[d].design # None =>
               chat'[d].design \in designs'
               /\ \A e \in Chats \ {d} : chat'[e].design # chat'[d].design
        BY <1>2, <1>7, <3>1 DEF Linked, DesignsBelongToChats
      <3>4. ASSUME NEW v \in designs' \ loose'
            PROVE  \/ \E d \in Chats : chat'[d].design = v
                   \/ \E u \in Threads : At(u, "bind")' /\ job'[u].revision = v
        <4>1. v \in designs \ loose /\ v # None  BY <1>2, <1>12, <3>2
        <4>2. CASE \E d \in Chats : chat[d].design = v
          BY <1>7, <3>1, <4>1, <4>2
        <4>3. CASE \E u \in Threads : At(u, "bind") /\ job[u].revision = v
          BY <1>5, <1>10, <3>1, <4>3
        <4> QED  BY <4>1, <4>2, <4>3 DEF Linked, DesignsBelongToChats
      <3> QED  BY <3>3, <3>4 DEF DesignsBelongToChats
    <2>5. Reserved'
      <3>1. \A d \in Chats : chat'[d].live = chat[d].live  BY <2>1 DEF Binds
      <3> QED  BY <1>1, <1>2, <1>9, <1>12, <3>1, ReservedStill DEF Linked, LinkFacts
    <2> QED  BY <1>8, <2>2, <2>3, <2>4, <2>5 DEF Linked
  <1>13. chat[c].live /\ chat[c].design \in {None, w}  BY <1>7
  <1> QED  BY <1>4, <1>5, <1>6, <1>11, <1>12, <1>13 DEF Bind

LEMMA LinkStepsKeepLinked ==
    ASSUME Base, Linked, NEW t \in Threads,
           \/ Reserve(t) \/ Made(t) \/ Link(t) \/ Cancel(t) \/ Detach(t) \/ Relink(t)
           \/ Claim(t) \/ Accept(t) \/ Bind(t) \/ Answer(t)
    PROVE  Linked'
  BY ReserveKeepsLinked, MadeKeepsLinked, LinkKeepsLinked, CancelKeepsLinked, DetachKeepsLinked,
     RelinkKeepsLinked, ClaimKeepsLinked, AcceptKeepsLinked, BindKeepsLinked, AnswerKeepsLinked

\* What a request served in one step leaves as it is.
LEMMA OneRequestHolds ==
    ASSUME Base', Linked, OneRequest
    PROVE  (\A u \in Threads : Holding(u))'
  <1>1. ASSUME NEW u \in Threads
        PROVE  Holding(u)'
    <2>1. ~Holder(u)  BY HolderOwns, Nobody DEF OneRequest, Free
    <2>2. ~Holder(u)'  BY <2>1 DEF OneRequest, Holder
    <2> QED  BY <2>2, LearnsNothing
  <1> QED  BY <1>1

LEMMA NobodyBinds ==
    ASSUME Base, Linked, Free
    PROVE  \A t \in Threads : pc[t] # "bind"
  <1> SUFFICES ASSUME NEW t \in Threads, pc[t] = "bind" PROVE FALSE
    OBVIOUS
  <1>1. job[t].kind = "create"  BY Given DEF Flow
  <1> QED  BY <1>1, HolderOwns, Nobody DEF Holder, Free

LEMMA SameImports ==
    ASSUME OneRequest
    PROVE  \A t \in Threads, c \in Chats : Importing(t, c)' <=> Importing(t, c)
  BY DEF OneRequest, Importing

LEMMA DeleteDesignKeepsLinked ==
    ASSUME Base, Linked, NEW w \in Designs, DeleteDesign(w)
    PROVE  Linked'
  <1>1. Base' /\ OneRequest  BY DeleteDesignKeepsBase
  <1>2. /\ designs' = designs \ {w} /\ (\A c \in Chats : chat[c].design # w)
        /\ chat' = chat /\ pending' = pending /\ raced' = raced /\ loose' = loose
        /\ leaked' = leaked
    BY DEF DeleteDesign, history
  <1>3. Rows' /\ LinkedPacksExist'
    BY <1>1, <1>2, ExistStill DEF Linked, Rows, OneRequest, StoreStays, Known
  <1>4. DesignsBelongToChats'
    <2>1. \A t \in Threads : ~At(t, "bind")
      BY <1>1, NobodyBinds DEF At, OneRequest
    <2> QED  BY <1>2, <2>1 DEF Linked, DesignsBelongToChats
  <1>5. Reserved'
    <2>1. pending \subseteq Chats  BY DEF Base, LinkTypes
    <2> QED  BY <1>1, <1>2, <2>1, SameImports DEF Linked, Reserved
  <1> QED  BY <1>1, <1>3, <1>4, <1>5, OneRequestHolds DEF Linked

LEMMA DeleteChatsKeepsLinked ==
    ASSUME Base, Linked, NEW cs \in SUBSET Chats, DeleteChats(cs)
    PROVE  Linked'
  <1>1. Base' /\ OneRequest /\ Gone(cs)  BY DeleteChatsKeepsBase
  <1>2. /\ cs \cap pending = {} /\ loose' = loose \cup ({chat[c].design : c \in cs} \ {None})
        /\ raced' = raced \ cs /\ pending' = pending /\ designs' = designs /\ leaked' = leaked
    BY DEF DeleteChats
  <1>3. \A c \in Chats :
           /\ c \in cs => /\ chat'[c] = Absent /\ chat'[c].pack = None
                          /\ chat'[c].design = None
           /\ c \notin cs => chat'[c] = chat[c]
    BY <1>1, NewChatRecord DEF Gone
  <1>4. Rows'  BY <1>3 DEF Linked, Rows
  <1>5. LinkedPacksExist'
    <2>1. dirs' = dirs /\ file' = file /\ lost' = lost  BY <1>1 DEF OneRequest, StoreStays
    <2> QED  BY <1>2, <1>3, <2>1 DEF Linked, LinkedPacksExist, Known
  <1>6. DesignsBelongToChats'
    <2>1. \A t \in Threads : ~At(t, "bind")
      BY <1>1, NobodyBinds DEF At, OneRequest
    <2>2. \A v \in designs : v # None  BY Nobody DEF Base, LinkTypes
    <2>3. \A c \in Chats : chat'[c].design # None =>
             chat'[c].design \in designs'
             /\ \A d \in Chats \ {c} : chat'[d].design # chat'[c].design
      BY <1>2, <1>3 DEF Linked, DesignsBelongToChats
    <2>4. ASSUME NEW v \in designs' \ loose'
          PROVE  \E c \in Chats : chat'[c].design = v
      <3>1. PICK c \in Chats : chat[c].design = v
        BY <1>2, <2>1 DEF Linked, DesignsBelongToChats
      <3>2. c \notin cs  BY <1>2, <2>2, <3>1
      <3> QED  BY <1>3, <3>1, <3>2
    <2> QED  BY <2>3, <2>4 DEF DesignsBelongToChats
  <1>7. Reserved'
    <2>1. pending \subseteq Chats  BY DEF Base, LinkTypes
    <2>2. \A c \in pending : chat'[c] = chat[c]  BY <1>2, <1>3, <2>1
    <2> QED  BY <1>1, <1>2, <2>1, <2>2, SameImports DEF Linked, Reserved
  <1> QED  BY <1>1, <1>4, <1>5, <1>6, <1>7, OneRequestHolds DEF Linked

LEMMA CreateChatKeepsLinked ==
    ASSUME Base, Linked, NEW c \in Chats, CreateChat(c)
    PROVE  Linked'
  <1>1. Base' /\ OneRequest  BY CreateChatKeepsBase
  <1>2. PICK w \in designs \cup {None} :
           /\ w # None => \A d \in Chats : chat[d].design # w
           /\ chat'[c] = Opened(w) /\ (\A d \in Chats : d # c => chat'[d] = chat[d])
           /\ loose' = loose \ {w}
    BY CreateChatKeepsBase
  <1>3. chat'[c].live /\ chat'[c].design = w /\ chat'[c].pack = None
    <2>1. w \in Designs \cup {None}  BY DEF Base, LinkTypes
    <2> QED  BY <1>2, <2>1, NewChatRecord
  <1>4. /\ ~chat[c].live /\ pending' = pending /\ designs' = designs /\ raced' = raced
        /\ leaked' = leaked
    BY DEF CreateChat
  <1>5. chat[c].design = None  BY <1>4, NewChatRecord DEF Linked, Rows
  <1>6. Rows'  BY <1>2, <1>3 DEF Linked, Rows
  <1>7. LinkedPacksExist'
    <2>1. dirs' = dirs /\ file' = file /\ lost' = lost  BY <1>1 DEF OneRequest, StoreStays
    <2> QED  BY <1>2, <1>3, <1>4, <2>1 DEF Linked, LinkedPacksExist, Known
  <1>8. DesignsBelongToChats'
    <2>1. \A t \in Threads : ~At(t, "bind")
      BY <1>1, NobodyBinds DEF At, OneRequest
    <2>2. \A v \in designs : v # None  BY Nobody DEF Base, LinkTypes
    <2>3. \A d \in Chats : chat'[d].design = IF d = c THEN w ELSE chat[d].design
      BY <1>2, <1>3
    <2>4. \A d \in Chats : chat'[d].design # None =>
             chat'[d].design \in designs'
             /\ \A e \in Chats \ {d} : chat'[e].design # chat'[d].design
      BY <1>2, <1>4, <2>3 DEF Linked, DesignsBelongToChats
    <2>5. ASSUME NEW v \in designs' \ loose'
          PROVE  \E d \in Chats : chat'[d].design = v
      <3>1. CASE v = w  BY <2>3, <3>1
      <3>2. CASE v # w
        <4>1. PICK d \in Chats : chat[d].design = v
          BY <1>2, <1>4, <2>1, <3>2 DEF Linked, DesignsBelongToChats
        <4> QED  BY <1>4, <1>5, <2>2, <2>3, <4>1
      <3> QED  BY <3>1, <3>2
    <2> QED  BY <2>4, <2>5 DEF DesignsBelongToChats
  <1>9. Reserved'
    <2>1. pending \subseteq Chats  BY DEF Base, LinkTypes
    <2>2. \A d \in pending : chat[d].live => chat'[d].live  BY <1>2, <1>3, <2>1
    <2> QED  BY <1>1, <1>4, <2>1, <2>2, SameImports DEF Linked, Reserved
  <1> QED  BY <1>1, <1>6, <1>7, <1>8, <1>9, OneRequestHolds DEF Linked

LEMMA PatchPackKeepsLinked ==
    ASSUME Base, Linked, NEW c \in Chats, NEW p \in Packs \cup {None}, PatchPack(c, p)
    PROVE  Linked'
  <1>1. Base' /\ OneRequest /\ Repacks(c, p)  BY PatchPackKeepsBase
  <1>2. /\ chat[c].live /\ (p = None \/ Known(p)) /\ raced' = raced \ {c}
        /\ pending' = pending /\ designs' = designs /\ loose' = loose /\ leaked' = leaked
    BY DEF PatchPack
  <1>3. \A d \in Chats : /\ d # c => chat'[d] = chat[d]
                         /\ chat'[d].live = chat[d].live /\ chat'[d].design = chat[d].design
                         /\ chat'[d].pack = IF d = c THEN p ELSE chat[d].pack
    BY <1>1 DEF Repacks
  <1>4. Rows'  BY <1>2, <1>3 DEF Linked, Rows
  <1>5. LinkedPacksExist'
    <2>1. dirs' = dirs /\ file' = file /\ lost' = lost  BY <1>1 DEF OneRequest, StoreStays
    <2> QED  BY <1>2, <1>3, <2>1 DEF Linked, LinkedPacksExist, Known
  <1>6. DesignsBelongToChats'
    BY <1>1, <1>2, <1>3 DEF Linked, DesignsBelongToChats, OneRequest, At
  <1>7. Reserved'
    <2>1. pending \subseteq Chats  BY DEF Base, LinkTypes
    <2> QED  BY <1>1, <1>2, <1>3, <2>1, SameImports DEF Linked, Reserved
  <1> QED  BY <1>1, <1>4, <1>5, <1>6, <1>7, OneRequestHolds DEF Linked

LEMMA DieKeepsLinked ==
    ASSUME Base, Linked, Die
    PROVE  Linked'
  <1>1. /\ pc' = [t \in Threads |-> "idle"] /\ job' = [t \in Threads |-> NoJob]
        /\ chat' = chat /\ pending' = {} /\ designs' = designs /\ raced' = raced
        /\ dirs' = dirs /\ file' = file /\ lost' = lost \cup buried
        /\ loose' = loose \cup {job[t].revision : t \in {u \in Threads : At(u, "bind")}}
    BY DEF Die
  <1>2. \A t \in Threads : job'[t].kind = "none" /\ pc'[t] = "idle"
    BY <1>1, NoJobRecord
  <1>3. Rows'  BY <1>1 DEF Linked, Rows
  <1>4. LinkedPacksExist'  BY <1>1, ExistStill DEF Linked, Known
  <1>5. DesignsBelongToChats'  BY <1>1 DEF Linked, DesignsBelongToChats
  <1>6. Reserved'  BY <1>1, <1>2 DEF Reserved, Importing
  <1>7. (\A u \in Threads : Holding(u))'
    BY <1>2 DEF Holding, Creating, Deleting, Found, Binding
  <1> QED  BY <1>3, <1>4, <1>5, <1>6, <1>7 DEF Linked

LEMMA InitHasLinked ==
    ASSUME Init
    PROVE  Linked
  <1>1. /\ pc = [t \in Threads |-> "idle"] /\ job = [t \in Threads |-> NoJob]
        /\ pending = {} /\ designs = {} /\ dirs = named
        /\ chat \in [Chats -> [live : {TRUE}, design : {None}, pack : named \cup {None}]]
    BY DEF Init
  <1>2. \A t \in Threads : job[t].kind = "none" /\ pc[t] = "idle"
    BY <1>1, NoJobRecord
  <1>3. \A c \in Chats : chat[c].live /\ chat[c].design = None /\ chat[c].pack \in named \cup {None}
    BY <1>1
  <1>4. Rows /\ DesignsBelongToChats /\ Reserved
    BY <1>1, <1>2, <1>3 DEF Rows, DesignsBelongToChats, Reserved, Importing
  <1>5. LinkedPacksExist
    <2>1. \A p \in named : Known(p)
      <3>1. \A p \in Packs : file[p] = [f \in Files |-> IF p \in named THEN 1 ELSE 0]
        BY DEF Init
      <3>2. named \subseteq Packs /\ {"index", "spec", "summary"} \subseteq Files
        BY DEF Init, Files
      <3>3. dirs = named  BY <1>1
      <3>4. \A p \in named, f \in Files : file[p][f] = 1  BY <3>1, <3>2, ZenonT(60)
      <3> QED  BY <3>2, <3>3, <3>4 DEF Known, Whole
    <2> QED  BY <1>3, <2>1 DEF LinkedPacksExist
  <1>6. \A u \in Threads : Holding(u)
    BY <1>2 DEF Holding, Creating, Deleting, Found, Binding, Aim
  <1> QED  BY <1>4, <1>5, <1>6 DEF Linked

-----------------------------------------------------------------------------
(* The invariant and what it says of packs and of conversations.           *)

LEMMA PackTurnLeavesLinks ==
    ASSUME UNCHANGED <<links, owner, served, history>>
    PROVE  LinksStay
  BY DEF links, history, LinksStay, RowsStay

LEMMA InitIsSafe == Init => Safe
  <1>1. Init => Unlocked  BY DEF Init, Unlocked
  <1> QED  BY <1>1, InitHasBase, IdleLocks, InitHasStored, InitHasLinked DEF Safe

LEMMA ThreadsKeepSafe ==
    ASSUME Safe, NEW t \in Threads, Step(t) \/ Ask(t)
    PROVE  Safe'
  <1>1. Base /\ Locked /\ Stored /\ Linked  BY DEF Safe
  <1>2. CASE PackStep(t) /\ UNCHANGED <<links, owner, served, history>>
    <2>1. LinksStay  BY <1>2, PackTurnLeavesLinks
    <2>2. Base'  BY <1>1, <1>2, <2>1, PackStepsKeepBase
    <2>3. Locked'  BY <1>1, <1>2, <2>1, PackStepsKeepLocks
    <2>4. Stored'  BY <1>1, <1>2, <2>1, PackStepsKeepStored
    <2>5. Linked'  BY <1>1, <1>2, <2>1, <2>2, PackStepsKeepLinked
    <2> QED  BY <2>2, <2>3, <2>4, <2>5 DEF Safe
  <1>3. CASE \/ Reserve(t) \/ Made(t) \/ Link(t) \/ Cancel(t) \/ Detach(t) \/ Relink(t)
             \/ Claim(t) \/ Accept(t) \/ Bind(t) \/ Answer(t)
    BY <1>1, <1>3, LinkStepsKeepBase, LinkStepsKeepLocks, LinkStepsKeepStored,
       LinkStepsKeepLinked DEF Safe
  <1>4. CASE Ask(t)
    BY <1>1, <1>4, AskKeepsBase, AskKeepsLocks, AskKeepsStored, AskKeepsLinked DEF Safe
  <1> QED  BY <1>2, <1>3, <1>4 DEF Step

LEMMA RequestsKeepSafe ==
    ASSUME Safe,
           \/ \E w \in Designs : DeleteDesign(w)
           \/ \E c \in Chats : \/ DeleteChat(c) \/ CreateChat(c)
                               \/ \E p \in Packs \cup {None} : PatchPack(c, p)
           \/ DeleteProject
    PROVE  Safe'
  <1>1. Base /\ Locked /\ Stored /\ Linked  BY DEF Safe
  <1>2. ASSUME Base', OneRequest, Linked'
        PROVE  Safe'
    BY <1>1, <1>2, OneStepKeepsLocks, OneStepKeepsStored DEF Safe
  <1>3. ASSUME NEW cs \in SUBSET Chats, DeleteChats(cs)
        PROVE  Safe'
    BY <1>1, <1>2, <1>3, DeleteChatsKeepsBase, DeleteChatsKeepsLinked
  <1>4. ASSUME NEW w \in Designs, DeleteDesign(w)
        PROVE  Safe'
    BY <1>1, <1>2, <1>4, DeleteDesignKeepsBase, DeleteDesignKeepsLinked
  <1>5. ASSUME NEW c \in Chats, CreateChat(c)
        PROVE  Safe'
    BY <1>1, <1>2, <1>5, CreateChatKeepsBase, CreateChatKeepsLinked
  <1>6. ASSUME NEW c \in Chats, NEW p \in Packs \cup {None}, PatchPack(c, p)
        PROVE  Safe'
    BY <1>1, <1>2, <1>6, PatchPackKeepsBase, PatchPackKeepsLinked
  <1>7. DeleteProject => \E cs \in SUBSET Chats : DeleteChats(cs)
    BY DEF DeleteProject
  <1>8. \A c \in Chats : DeleteChat(c) => \E cs \in SUBSET Chats : DeleteChats(cs)
    BY DEF DeleteChat
  <1> QED  BY <1>3, <1>4, <1>5, <1>6, <1>7, <1>8

LEMMA StutterKeepsSafe ==
    ASSUME Safe, UNCHANGED vars
    PROVE  Safe'
  <1>1. /\ StoreStays /\ MapStays /\ key' = key /\ pc' = pc /\ job' = job /\ LinksStay
        /\ troubles' = troubles
    BY DEF vars, store, locks, flow, links, history, StoreStays, MapStays, LinksStay, RowsStay
  <1>2. Base'
    <2>1. Moving' /\ (\A t \in Threads : Flow(t))'
      BY <1>1 DEF Safe, Base, Moving, Flow, Aim
    <2>2. PackTypes' /\ LinkTypes'
      BY <1>1 DEF Safe, Base, PackTypes, LinkTypes, StoreStays, LinksStay, RowsStay
    <2>3. Heard'
      BY <1>1 DEF Safe, Base, Heard, HeardPacks, HeardJobs, HeardChats, Sole, StoreStays,
                  LinksStay, RowsStay
    <2> QED  BY <2>1, <2>2, <2>3 DEF Base
  <1>3. Locked'  BY <1>1, OutsideKeepsLocks DEF Safe
  <1>4. Stored'  BY <1>1, StoreLeft DEF Safe
  <1>5. Linked'
    <2>1. Rows' /\ LinkedPacksExist' /\ DesignsBelongToChats'
      BY <1>1 DEF Safe, Linked, Rows, LinkedPacksExist, DesignsBelongToChats, Known, At,
                  StoreStays, LinksStay, RowsStay
    <2>2. Reserved'
      BY <1>1 DEF Safe, Linked, Reserved, Importing, LinksStay, RowsStay
    <2>3. (\A t \in Threads : Holding(t))'
      BY <1>1 DEF Safe, Linked, Holding, Creating, Deleting, Found, Binding, Aim, Known,
                  StoreStays, LinksStay, RowsStay
    <2> QED  BY <2>1, <2>2, <2>3 DEF Linked
  <1> QED  BY <1>2, <1>3, <1>4, <1>5 DEF Safe

LEMMA StepsKeepSafe == Safe /\ [Next]_vars => Safe'
  <1> SUFFICES ASSUME Safe, [Next]_vars PROVE Safe'
    OBVIOUS
  <1>1. CASE \E t \in Threads : Step(t) \/ Ask(t)
    BY <1>1, ThreadsKeepSafe
  <1>2. CASE Die
    BY <1>2, DieKeepsBase, DieKeepsLocks, DieKeepsStored, DieKeepsLinked DEF Safe
  <1>3. CASE Rest
    BY <1>3, StutterKeepsSafe DEF Rest
  <1>4. CASE UNCHANGED vars
    BY <1>4, StutterKeepsSafe
  <1> QED  BY <1>1, <1>2, <1>3, <1>4, RequestsKeepSafe DEF Next

LEMMA SafeGivesPacks == Safe => PacksConsistent
  <1> SUFFICES ASSUME Safe PROVE PacksConsistent
    OBVIOUS
  <1>1. TypeOK
    BY DEF Safe, Base, Locked, PackTypes, LockTypes, LinkTypes, ChatSet, TypeOK
  <1>2. OneOperationPerPack
    BY OneHolder DEF Safe, OneOperationPerPack, Holds
  <1>3. RevisionsAgree
    <2> SUFFICES ASSUME NEW p \in Packs, Known(p)
                 PROVE  /\ file[p]["corrections"] # 0 =>
                              /\ file[p]["spec"] <= file[p]["corrections"]
                              /\ file[p]["summary"] <= file[p]["spec"]
                              /\ file[p]["reports"] <= file[p]["spec"]
                        /\ Agree(file[p]) \/ p \in torn
                             \/ \E t \in Threads : job[t].pack = p
                                                   /\ pc[t] \in {"revise", "publish"}
      BY DEF RevisionsAgree
    <2>1. Chain(file[p]) /\ Settled(p)  BY DEF Safe, Stored, AtPack
    <2> QED  BY <2>1 DEF Chain, Settled, Known, Whole
  <1>4. MemoryFollowsPack
    BY DEF Safe, Stored, AtPack, Remembered, MemoryFollowsPack
  <1> QED  BY <1>1, <1>2, <1>3, <1>4 DEF PacksConsistent

LEMMA SafeGivesLinks == Safe => LinksHold
  BY DEF Safe, Linked, Reserved, Importing, LinksHold, ReservationsHaveImports

\* One thread at a time works on a pack although lock objects come and go; what get_summary
\* reads is of one revision unless a correction died or failed between two files, or an import
\* wrote over it, and no file is newer than the one it is made from; the memory holds nothing
\* of a pack without a directory, unless a death or a late import left it: for any threads,
\* packs, revisions and failures (_pack_operation, _apply_correction, delete_pack).
THEOREM PacksStayConsistent == Spec => []PacksConsistent
  BY InitIsSafe, StepsKeepSafe, SafeGivesPacks, PTL DEF Spec

\* No conversation links a deleted pack but in the two races that are named, no design is
\* shared or lost but by a failed link or a conversation that goes, and every reservation has
\* a conversation and an import, unless it could not be cancelled: for any conversations,
\* designs, threads and failures (WorkspaceStore, main.py).
THEOREM LinksStayWhole == Spec => []LinksHold
  BY InitIsSafe, StepsKeepSafe, SafeGivesLinks, PTL DEF Spec
=============================================================================
