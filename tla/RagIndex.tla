------------------------------ MODULE RagIndex ------------------------------
(***************************************************************************)
(* RagService: an index is built aside in collections of its own, named by *)
(* one manifest file once it is complete, and the collections it replaces  *)
(* are deleted when no search reads them. The static index (knowledge      *)
(* files, searched through a cache of answers) and the runtime index (the  *)
(* projection VectorOutbox asks for) work alike and share no collection: a *)
(* behaviour is about one of them, its family.                             *)
(*                                                                         *)
(* The collections of one build are created, published and deleted         *)
(* together and count as one. What a build holds is the revision of its    *)
(* documents: the knowledge files, the asset manifests and the qualified   *)
(* catalog, of which no edit restores old bytes. The index is compared by  *)
(* all three, an answer is kept under the knowledge files alone.           *)
(***************************************************************************)
EXTENDS Integers, FiniteSets

CONSTANTS
    Clients,      \* threads that search, and rebuild what they find outdated
    Rebuilders,   \* those of them that also ask for a rebuild or an invalidation
    Builds,       \* bound: identities of the builds that are known at a time
    MaxRevision,  \* bound: revisions of the documents
    MaxTroubles,  \* bound: errors raised and deaths of the process
    Nobody,       \* no thread
    NoBuild       \* no build

ASSUME RagAssumption ==
    /\ IsFiniteSet(Builds) /\ NoBuild \notin Builds
    /\ Nobody \notin Clients /\ Rebuilders \subseteq Clients
    /\ MaxRevision \in Nat \ {0} /\ MaxTroubles \in Nat

VARIABLES
    family,        \* "static" or "runtime"
    documents,     \* revision of the documents now
    knowledge,     \* the one the knowledge files are of: knowledge_index_hash
    store,         \* per build: the revision it holds, 0 where there is none
    manifest,      \* the state file: build, the revision it stands for, obsolete
    leader,        \* the thread that leads the flight, or holds the runtime locks
    building,      \* its build, the revision read first, what it may delete, and
                   \* what it keeps for later
    invalidating,  \* _runtime_memory_invalidating
    cache,         \* answers kept: the key's revision, the revision answered,
                   \* history: did the documents change during that search?
    client,        \* per thread: its step and what it knows
    orphans,       \* history: builds a death, a failed deletion or a state file
                   \* that could not be read left behind
    broken,        \* history: the manifest lost its collections to an error
    troubles       \* errors and deaths so far

vars == <<family, documents, knowledge, store, manifest, leader, building, invalidating, cache,
          client, orphans, broken, troubles>>

-----------------------------------------------------------------------------

Revisions == 0 .. MaxRevision

Steps == {"idle", "compare", "enter", "follow", "key", "embed", "read", "remember",
          "load", "verify", "publish", "sweep", "delete", "unstage",
          "drain", "purge"}

\* goal: what the thread does once an index is there. moved: history, the
\* documents changed during the search or the rebuild it waited for.
Rest       == [at |-> "idle", key |-> 0, seen |-> 0, held |-> NoBuild, goal |-> "idle",
               moved |-> FALSE]
NoManifest == [build |-> NoBuild, of |-> 0, obsolete |-> {}]
NotBuilding == [id |-> NoBuild, of |-> 0, safe |-> {}, kept |-> {}]
Answers     == [key : Revisions, seen : Revisions, late : BOOLEAN]

TypeOK ==
    /\ family \in {"static", "runtime"}
    /\ documents \in 1 .. MaxRevision /\ knowledge \in 1 .. MaxRevision
    /\ store \in [Builds -> Revisions]
    /\ manifest \in [build : Builds \cup {NoBuild}, of : Revisions, obsolete : SUBSET Builds]
    /\ leader \in Clients \cup {Nobody}
    /\ building \in [id : Builds \cup {NoBuild}, of : Revisions, safe : SUBSET Builds,
                    kept : SUBSET Builds]
    /\ invalidating \in BOOLEAN
    /\ cache \subseteq Answers
    /\ client \in [Clients -> [at : Steps, key : Revisions, seen : Revisions,
                               held : Builds \cup {NoBuild}, goal : {"idle", "key"},
                               moved : BOOLEAN]]
    /\ orphans \subseteq Builds
    /\ broken \in BOOLEAN
    /\ troubles \in 0 .. MaxTroubles

Init ==
    /\ family \in {"static", "runtime"}
    /\ documents = 1 /\ knowledge = 1
    /\ store = [b \in Builds |-> 0]
    /\ manifest = NoManifest
    /\ leader = Nobody
    /\ building = NotBuilding
    /\ invalidating = FALSE
    /\ cache = {}
    /\ client = [c \in Clients |-> Rest]
    /\ orphans = {} /\ broken = FALSE /\ troubles = 0

At(c, step)   == client[c].at = step
Go(c, step)   == client' = [client EXCEPT ![c].at = step]
Trouble       == troubles < MaxTroubles /\ troubles' = troubles + 1
Existing      == {b \in Builds : store[b] # 0}
Without(S)    == [b \in Builds |-> IF b \in S THEN 0 ELSE store[b]]

\* _collection_readers: a collection counts from the snapshot to its release.
Read(b) == \E c \in Clients : At(c, "read") /\ client[c].held = b

corpus == <<family, documents, knowledge>>
index  == <<store, manifest, leader, building, invalidating, cache, orphans, broken>>

-----------------------------------------------------------------------------
(* A search.                                                               *)

\* The documents change under whoever is at work: a knowledge file, or an asset.
Edit ==
    /\ documents < MaxRevision
    /\ documents' = documents + 1
    /\ knowledge' \in {knowledge, documents + 1}
    /\ client' = [c \in Clients |->
                    [client[c] EXCEPT !.moved = family = "static" /\ ~At(c, "idle")]]
    /\ UNCHANGED <<family, index, troubles>>

\* _ensure_static_index_current reads the identity first, then the manifest.
Search(c) ==
    /\ At(c, "idle")
    /\ client' = IF family = "static"
                 THEN [client EXCEPT ![c].at = "compare", ![c].key = documents]
                 ELSE [client EXCEPT ![c].at = "embed"]
    /\ UNCHANGED <<corpus, index, troubles>>

\* Mutant: an index that is there is taken for current.
AnyIndex(state, identity) == state.build \in Existing

\* _static_index_matches, _static_collections_exist.
Current(state, identity) == state.of = identity /\ state.build \in Existing

Compare(c, state) ==
    /\ At(c, "compare")
    /\ client' = IF Current(state, client[c].key)
                 THEN [client EXCEPT ![c].at = "key", ![c].key = 0]
                 ELSE [client EXCEPT ![c].at = "enter", ![c].key = 0, ![c].goal = "key"]
    /\ UNCHANGED <<corpus, index>>

\* The key carries the knowledge files as they are now; a hit ends the search,
\* and an answer that is too old is dropped, or was by TTLCache.set.
Hits == {e \in cache : e.key = knowledge}

Key(c) ==
    /\ At(c, "key")
    /\ \/ /\ Hits # {}
          /\ client' = [client EXCEPT ![c] = Rest]
          /\ UNCHANGED cache
       \/ /\ cache' = cache \ Hits
          /\ client' = [client EXCEPT ![c].at = "embed", ![c].key = knowledge]
    /\ UNCHANGED <<corpus, store, manifest, leader, building, invalidating,
                   orphans, broken, troubles>>

\* The query is embedded by a remote model; without it, or without the answer of
\* the store, the static index is searched by words, or the search raises.
SearchRaises(c) ==
    /\ \E step \in {"compare", "embed", "read"} : At(c, step)
    /\ Trouble
    /\ client' = [client EXCEPT ![c] = Rest]
    /\ UNCHANGED <<corpus, index>>

\* _static_collection_snapshot, _runtime_collection_snapshot.
Snapshot(c, state) ==
    /\ At(c, "embed")
    /\ ~invalidating
    /\ client' = [client EXCEPT ![c].at = "read", ![c].held = state.build]
    /\ UNCHANGED <<corpus, index>>

\* The query: a collection that is not there is passed over.
Query(c) ==
    /\ At(c, "read")
    /\ LET held == client[c].held
           seen == IF held = NoBuild THEN 0 ELSE store[held]
       IN  client' = IF family = "static"
                     THEN [client EXCEPT ![c].at = "remember", ![c].seen = seen,
                                         ![c].held = NoBuild]
                     ELSE [client EXCEPT ![c] = Rest]
    /\ UNCHANGED <<corpus, index, troubles>>

\* TTLCache.set, after the collections were released and the answers ranked.
\* What it lets go of, too old or too much, goes when it is looked up (Key).
Remember(c) ==
    /\ At(c, "remember")
    /\ cache' = {e \in cache : e.key # client[c].key}
                 \cup {[key |-> client[c].key, seen |-> client[c].seen, late |-> client[c].moved]}
    /\ client' = [client EXCEPT ![c] = Rest]
    /\ UNCHANGED <<corpus, store, manifest, leader, building, invalidating,
                   orphans, broken, troubles>>

-----------------------------------------------------------------------------
(* A rebuild.                                                              *)

\* POST /rag/reindex, or the rebuild of a projection.
Rebuild(c) ==
    /\ At(c, "idle") /\ c \in Rebuilders
    /\ Go(c, "enter")
    /\ UNCHANGED <<corpus, index, troubles>>

\* One thread leads, and reads the identity of what it is to index; the static
\* index lets the others wait for its result, the runtime locks for their turn.
Enter(c) ==
    /\ At(c, "enter")
    /\ \/ /\ leader = Nobody
          /\ leader' = c
          /\ building' = [NotBuilding EXCEPT !.of = documents]
          /\ Go(c, "load")
       \/ /\ leader # Nobody /\ family = "static"
          /\ client' = [client EXCEPT ![c].at = "follow",
                                      ![c].moved = @ \/ building.of # documents]
          /\ UNCHANGED <<leader, building>>
    /\ UNCHANGED <<corpus, store, manifest, invalidating, cache, orphans, broken,
                   troubles>>

\* A thread that has its index, or the error instead of it.
Arrived(c, ok) ==
    IF ok /\ client[c].goal = "key"
    THEN [client[c] EXCEPT !.at = "key", !.goal = "idle"] ELSE Rest

\* Mutant: an error does not reach those who wait.
FinishAlone(c, ok) ==
    /\ leader' = Nobody
    /\ building' = NotBuilding
    /\ client' = [d \in Clients |-> IF d = c \/ (ok /\ At(d, "follow")) THEN Arrived(d, ok)
                                    ELSE client[d]]

\* The flight is completed: the followers have the leader's result.
Finish(c, ok) ==
    /\ leader' = Nobody
    /\ building' = NotBuilding
    /\ client' = [d \in Clients |-> IF d = c \/ At(d, "follow") THEN Arrived(d, ok)
                                    ELSE client[d]]

\* A build has a name no file and no thread knows: Builds bounds how many do.
Unused == {b \in Builds : /\ store[b] = 0 /\ b # manifest.build
                          /\ b \notin manifest.obsolete /\ ~Read(b)}
Fresh  == CHOOSE b \in Unused : TRUE

\* The documents are read, embedded and stored. The static ones may have
\* changed since the identity was read.
Load(c) ==
    /\ At(c, "load") /\ Unused # {}
    /\ store' = [store EXCEPT ![Fresh] = IF family = "static" THEN documents ELSE building.of]
    /\ building' = [building EXCEPT !.id = Fresh]
    /\ Go(c, "verify")
    /\ UNCHANGED <<corpus, manifest, leader, invalidating, cache, orphans, broken,
                   troubles>>

\* The embedding or the store raises, with some collections created.
LoadRaises(c) ==
    /\ At(c, "load") /\ Unused # {}
    /\ Trouble
    /\ store' = [store EXCEPT ![Fresh] = building.of]
    /\ building' = [building EXCEPT !.id = Fresh]
    /\ Go(c, "unstage")
    /\ UNCHANGED <<corpus, manifest, leader, invalidating, cache, orphans, broken>>

Verified(c) == family = "runtime" \/ documents = building.of

Verify(c) ==
    /\ At(c, "verify")
    /\ Go(c, IF Verified(c) THEN "publish" ELSE "unstage")
    /\ UNCHANGED <<corpus, index, troubles>>

Replaced(state) == ({state.build} \cup state.obsolete) \ {NoBuild}

NewManifest(state) ==
    [build |-> building.id, of |-> building.of, obsolete |-> Replaced(state)]

\* The state file is replaced: from here on searches read the new collections.
\* What the old one names is listed only if it could be read.
Publish(c, state) ==
    /\ At(c, "publish")
    /\ manifest' = NewManifest(state)
    /\ orphans' = orphans \cup (Replaced(manifest) \ Replaced(state))
    /\ broken' = FALSE
    /\ Go(c, "sweep")
    /\ UNCHANGED <<corpus, store, leader, building, invalidating, cache>>

\* It raises, before the file was replaced or, in the fsync of its directory,
\* after: the collections are deleted in either case.
PublishRaises(c) ==
    /\ At(c, "publish")
    /\ Trouble
    /\ \/ UNCHANGED <<manifest, broken>>
       \/ /\ manifest' = NewManifest(manifest)
          /\ broken' = TRUE
    /\ Go(c, "unstage")
    /\ UNCHANGED <<corpus, store, leader, building, invalidating, cache, orphans>>

\* Mutant: the readers are not waited for and not looked at.
Anything(state) == state.obsolete

Unread(state) == {b \in state.obsolete : ~Read(b)}

\* The cache is cleared; then at most two seconds for the readers of what the
\* state file lists, and what is still read is kept for later.
Sweep(c, state) ==
    /\ At(c, "sweep")
    /\ cache' = {}
    /\ building' = [building EXCEPT !.safe = Unread(state),
                                   !.kept = state.obsolete \ Unread(state)]
    /\ orphans' = orphans \cup (manifest.obsolete \ state.obsolete)
    /\ Go(c, "delete")
    /\ UNCHANGED <<corpus, store, manifest, leader, invalidating, broken>>

\* _delete_collections, then the manifest without what is gone; a deletion that
\* fails stays listed. Failing to write that is only logged.
Delete(c) ==
    /\ At(c, "delete")
    /\ \E gone \in SUBSET building.safe :
          /\ store' = Without(gone)
          /\ \/ /\ gone = building.safe
                /\ UNCHANGED troubles
             \/ /\ gone # building.safe
                /\ Trouble
          /\ manifest' = [manifest EXCEPT !.obsolete = building.kept \cup (building.safe \ gone)]
          /\ orphans' = orphans \ gone
    /\ Finish(c, TRUE)
    /\ UNCHANGED <<corpus, invalidating, cache, broken>>

DeleteUnlisted(c) ==
    /\ At(c, "delete")
    /\ Trouble
    /\ store' = Without(building.safe)
    /\ Finish(c, TRUE)
    /\ UNCHANGED <<corpus, manifest, invalidating, cache, orphans, broken>>

\* The collections of a failed build go, but for those that resist, and whoever
\* waits has the error. A search then looks up words instead.
Unstage(c) ==
    /\ At(c, "unstage")
    /\ \/ /\ store' = Without({building.id})
          /\ UNCHANGED <<orphans, troubles>>
       \/ /\ Trouble
          /\ orphans' = orphans \cup {building.id}
          /\ UNCHANGED store
    /\ Finish(c, FALSE)
    /\ UNCHANGED <<corpus, manifest, invalidating, cache, broken>>

-----------------------------------------------------------------------------
(* invalidate_runtime_memory.                                              *)

Invalidate(c) ==
    /\ At(c, "idle") /\ c \in Rebuilders
    /\ family = "runtime" /\ leader = Nobody
    /\ leader' = c
    /\ invalidating' = TRUE
    /\ Go(c, "drain")
    /\ UNCHANGED <<corpus, store, manifest, building, cache, orphans, broken, troubles>>

InvalidationEnds(c) ==
    /\ leader' = Nobody
    /\ invalidating' = FALSE
    /\ client' = [client EXCEPT ![c] = Rest]

\* The readers leave within two seconds, or the request is refused.
Drain(c) ==
    /\ At(c, "drain")
    /\ \/ /\ \A b \in Existing : ~Read(b)
          /\ Go(c, "purge")
          /\ UNCHANGED <<leader, invalidating>>
       \/ /\ \E b \in Existing : Read(b)
          /\ InvalidationEnds(c)
    /\ UNCHANGED <<corpus, store, manifest, building, cache, orphans, broken, troubles>>

\* Every collection of the family, those of forgotten builds too. The manifest
\* goes only if none of them resisted.
PurgeAll(c) ==
    /\ At(c, "purge")
    /\ \/ /\ store' = [b \in Builds |-> 0]
          /\ manifest' = NoManifest
          /\ cache' = {} /\ orphans' = {} /\ broken' = FALSE
          /\ UNCHANGED troubles
       \/ /\ Trouble
          /\ \E resists \in (SUBSET Existing) \ {{}} :
                /\ store' = Without(Existing \ resists)
                /\ orphans' = orphans \cap resists
                /\ broken' = (broken \/ manifest.build \in Existing \ resists)
          /\ UNCHANGED <<manifest, cache>>
    /\ InvalidationEnds(c)
    /\ UNCHANGED <<corpus, building>>

-----------------------------------------------------------------------------

\* The process dies and is started again: files and collections remain.
Die ==
    /\ Trouble
    /\ orphans' = orphans \cup ({building.id} \ {NoBuild, manifest.build})
    /\ broken' = (broken \/ \E c \in Clients : At(c, "purge"))
    /\ leader' = Nobody /\ building' = NotBuilding /\ invalidating' = FALSE /\ cache' = {}
    /\ client' = [c \in Clients |-> Rest]
    /\ UNCHANGED <<corpus, store, manifest>>

\* What a thread makes of the state file it reads.
WithState(c, state) ==
    Compare(c, state) \/ Snapshot(c, state) \/ Publish(c, state) \/ Sweep(c, state)

\* _read_static_index_state, _read_runtime_index_state: a file that cannot be
\* read is taken for none.
Unreadable(c) == Trouble /\ WithState(c, NoManifest)

\* What a thread does once it has begun, errors left aside.
Step(c) ==
    \/ WithState(c, manifest) /\ UNCHANGED troubles
    \/ Key(c) \/ Query(c) \/ Remember(c)
    \/ Enter(c) \/ Load(c) \/ Verify(c) \/ Delete(c)
    \/ Unstage(c) \/ Drain(c) \/ PurgeAll(c)

Next ==
    \/ Edit
    \/ Die
    \/ \E c \in Clients : \/ Search(c) \/ Rebuild(c) \/ Invalidate(c)
                          \/ Step(c) \/ Unreadable(c) \/ SearchRaises(c)
                          \/ LoadRaises(c) \/ PublishRaises(c) \/ DeleteUnlisted(c)

Spec == Init /\ [][Next]_vars

\* Threads are scheduled and remote calls have a timeout; a lock that is free
\* again and again is got at last.
Fairness == \A c \in Clients : SF_vars(Step(c))

FairSpec == Spec /\ Fairness

-----------------------------------------------------------------------------

(* A collection a search reads is not deleted under it, by the clean-up    *)
(* after a rebuild or by an invalidation, although the first gives up      *)
(* waiting and both delete after they let go of the lock. Only a           *)
(* publication that fails after it became visible takes its own back.      *)
ReadersKeepTheirIndex ==
    [][\A c \in Clients :
           LET held == client[c].held
           IN  (At(c, "read") /\ At(c, "read")' /\ held \in Existing)
                   => held \in Existing' \/ \E d \in Clients : At(d, "unstage")]_vars

(* No build is lost sight of: what exists is published, listed to be       *)
(* deleted, or being built, but for what a death, a failed deletion or a   *)
(* state file that could not be read left behind.                          *)
NothingForgotten ==
    Existing \subseteq {manifest.build, building.id} \cup manifest.obsolete \cup orphans

(* The manifest names collections that are there and hold the revision it  *)
(* says, unless an error took them away after they were published.         *)
ManifestComplete ==
    manifest.build # NoBuild => \/ broken
                                \/ store[manifest.build] = manifest.of

(* A search that no edit overtakes is answered from the cache with an      *)
(* answer of the documents as they are, although the key is of the         *)
(* knowledge files only: the rebuild it waited for cleared the cache. What *)
(* may be served instead was kept by a search that an edit did overtake    *)
(* and that came after the clearing, or is served while a rebuild has      *)
(* published and not cleared yet, after a publication that raised, or is   *)
(* an empty answer an error left.                                          *)
HitsAreCurrent ==
    \A c \in Clients : At(c, "key") /\ ~client[c].moved =>
        \A e \in Hits : \/ e.seen = documents
                        \/ e.late
                        \/ broken \/ \E d \in Clients : At(d, "sweep")
                        \/ e.seen = 0 /\ troubles > 0

(* Whoever searches, leads a rebuild or waits for one comes to an end,     *)
(* also if the leader's build failed.                                      *)
EveryoneReturns == \A c \in Clients : []<>At(c, "idle")

(* Searches, rebuilds, invalidations, errors and deaths lose sight of no   *)
(* collection, leave no manifest without its collection and no cached      *)
(* answer of other documents, but for the cases named (RagService).        *)
IndexSafe == TypeOK /\ NothingForgotten /\ ManifestComplete /\ HitsAreCurrent
=============================================================================
