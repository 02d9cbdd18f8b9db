--------------------------- MODULE RagIndexProofs ---------------------------
(***************************************************************************)
(* Theorems of RagIndex, for any threads, any number of builds, revisions, *)
(* errors and deaths.                                                      *)
(*                                                                         *)
(* One thread leads at a time, and what it has of its build depends on its *)
(* step (Works). A reader holds a build that was published, which nobody   *)
(* takes away but an error (Reads). A search that no edit of the documents *)
(* has overtaken finds the index of them at each of its steps (Knows), and *)
(* so an answer that can be found in the cache is of the index there is,   *)
(* unless its search was overtaken (CacheSafe).                            *)
(***************************************************************************)
EXTENDS RagIndex, TLAPS

\* The steps of the thread that leads a rebuild, or an invalidation.
BuildSteps  == {"load", "verify", "publish", "sweep", "delete"}
LeaderSteps == BuildSteps \cup {"unstage", "drain", "purge"}

Static == family = "static"

Leads(c) == client[c].at \in LeaderSteps <=> leader = c

\* A build no manifest names yet.
Staged == /\ building.id \in Builds /\ building.id # manifest.build
          /\ building.id \notin manifest.obsolete

\* What the leader has of its build, at each of its steps.
Works(c) ==
    /\ At(c, "load") => building.id = NoBuild
    /\ client[c].at \in {"load", "verify", "publish"} => building.safe = {} /\ building.kept = {}
    /\ client[c].at \in {"verify", "publish"} => Staged
    /\ At(c, "verify") => IF Static THEN /\ building.of <= store[building.id]
                                         /\ store[building.id] <= documents
                          ELSE store[building.id] = building.of
    /\ At(c, "publish") => store[building.id] = building.of
    /\ client[c].at \in {"load", "verify", "publish"} => manifest.of <= building.of
    /\ client[c].at \in {"sweep", "delete"} =>
           manifest.build = building.id /\ manifest.of = building.of /\ building.id \in Builds
    /\ At(c, "delete") =>
           manifest.obsolete \subseteq building.safe \cup building.kept \cup orphans
    /\ At(c, "unstage") => /\ building.id \in Builds
                           /\ manifest.build = building.id => broken
    /\ client[c].at \in {"drain", "purge"} =>
           family = "runtime" /\ invalidating /\ building = NotBuilding
    /\ At(c, "purge") => \A b \in Existing : ~Read(b)

\* A reader's collection is not among those to delete, and was published.
Reads(c) ==
    At(c, "read") =>
        /\ client[c].held \notin building.safe
        /\ client[c].held \in Builds /\ client[c].held = building.id
               => manifest.build = client[c].held \/ troubles > 0

\* What a search that no edit has overtaken knows of the documents.
Knows(c) ==
    /\ client[c].at \in {"compare", "key", "remember", "follow"} \/ client[c].goal = "key" => Static
    /\ Static /\ ~client[c].moved =>
           /\ At(c, "compare") => client[c].key = documents
           /\ client[c].at \in BuildSteps \cup {"follow"} => building.of = documents
           /\ client[c].at \in {"key", "embed", "read", "remember"} =>
                  manifest.of = documents /\ manifest.build \in Builds
           /\ At(c, "read") =>
                  \/ client[c].held \in Builds /\ store[client[c].held] = documents
                  \/ /\ troubles > 0
                     /\ client[c].held = NoBuild \/ store[client[c].held] = 0
           /\ At(c, "remember") => \/ client[c].seen = documents
                                   \/ client[c].seen = 0 /\ troubles > 0

\* The manifest names one build, and others to delete.
Listed ==
    /\ manifest.build \notin manifest.obsolete
    /\ building.safe \subseteq manifest.obsolete /\ building.kept \subseteq manifest.obsolete
    /\ leader = Nobody => building = NotBuilding

\* Revisions do not run ahead of the documents, nor errors of their count.
Bounded == /\ manifest.of <= documents /\ building.of <= documents
           /\ broken => troubles > 0

\* What the manifest names is what it says, or was taken back by an error.
Holds ==
    manifest.build # NoBuild =>
        /\ store[manifest.build] \in {0, manifest.of}
        /\ broken \/ store[manifest.build] = manifest.of

Local(c) == Leads(c) /\ Works(c) /\ Reads(c) /\ Knows(c)
Shared   == TypeOK /\ Listed /\ Bounded /\ Holds /\ NothingForgotten

Safe == Shared /\ \A c \in Clients : Local(c)

-----------------------------------------------------------------------------
(* Types.                                                                  *)

ClientSet == [at : Steps, key : Revisions, seen : Revisions, held : Builds \cup {NoBuild},
              goal : {"idle", "key"}, moved : BOOLEAN]
ManifestSet == [build : Builds \cup {NoBuild}, of : Revisions, obsolete : SUBSET Builds]
BuildingSet == [id : Builds \cup {NoBuild}, of : Revisions, safe : SUBSET Builds,
                kept : SUBSET Builds]

LEMMA Kinds ==
    ASSUME TypeOK
    PROVE  /\ client \in [Clients -> ClientSet] /\ manifest \in ManifestSet
           /\ building \in BuildingSet /\ store \in [Builds -> Revisions]
           /\ documents \in 1 .. MaxRevision /\ documents \in Revisions
           /\ knowledge \in 1 .. MaxRevision /\ knowledge \in Revisions
           /\ MaxRevision \in Nat \ {0} /\ Revisions \subseteq Nat /\ 0 \in Revisions
           /\ NoBuild \notin Builds /\ Nobody \notin Clients
           /\ troubles \in Nat /\ MaxTroubles \in Nat
  BY RagAssumption DEF TypeOK, ClientSet, ManifestSet, BuildingSet, Revisions

LEMMA Fields ==
    ASSUME TypeOK
    PROVE  /\ manifest.build \in Builds \cup {NoBuild} /\ manifest.of \in Revisions
           /\ manifest.obsolete \subseteq Builds
           /\ building.id \in Builds \cup {NoBuild} /\ building.of \in Revisions
           /\ building.safe \subseteq Builds /\ building.kept \subseteq Builds
           /\ \A c \in Clients :
                 /\ client[c] \in ClientSet /\ client[c].at \in Steps
                 /\ client[c].key \in Revisions /\ client[c].seen \in Revisions
                 /\ client[c].held \in Builds \cup {NoBuild}
                 /\ client[c].goal \in {"idle", "key"} /\ client[c].moved \in BOOLEAN
  <1>1. manifest \in ManifestSet /\ building \in BuildingSet  BY Kinds
  <1>2. \A c \in Clients : client[c] \in ClientSet  BY Kinds
  <1> QED  BY <1>1, <1>2 DEF ManifestSet, BuildingSet, ClientSet

\* The records a step makes of a thread's.
Moved(r, p)     == [r EXCEPT !.at = p]
Keyed(r, p, k)  == [r EXCEPT !.at = p, !.key = k]
Entering(r)     == [r EXCEPT !.at = "enter", !.key = 0, !.goal = "key"]
Holding(r, b)   == [r EXCEPT !.at = "read", !.held = b]
Having(r, s)    == [r EXCEPT !.at = "remember", !.seen = s, !.held = NoBuild]
Following(r, m) == [r EXCEPT !.at = "follow", !.moved = m]
Arriving(r)     == [r EXCEPT !.at = "key", !.goal = "idle"]
Edited(r, m)    == [r EXCEPT !.moved = m]

LEMMA RestRecord ==
    /\ Rest \in ClientSet /\ Rest.at = "idle" /\ Rest.goal = "idle" /\ Rest.held = NoBuild
    /\ Rest.moved = FALSE
  <1>1. 0 \in Revisions  BY RagAssumption DEF Revisions
  <1> QED  BY <1>1 DEF Rest, ClientSet, Steps

LEMMA MovedRecord ==
    ASSUME NEW r \in ClientSet, NEW p \in Steps
    PROVE  LET q == Moved(r, p)
           IN  /\ q \in ClientSet /\ q.at = p /\ q.key = r.key /\ q.seen = r.seen
               /\ q.held = r.held /\ q.goal = r.goal /\ q.moved = r.moved
  BY DEF Moved, ClientSet

LEMMA KeyedRecord ==
    ASSUME NEW r \in ClientSet, NEW p \in Steps, NEW k \in Revisions
    PROVE  LET q == Keyed(r, p, k)
           IN  /\ q \in ClientSet /\ q.at = p /\ q.key = k /\ q.seen = r.seen
               /\ q.held = r.held /\ q.goal = r.goal /\ q.moved = r.moved
  BY DEF Keyed, ClientSet

LEMMA EnteringRecord ==
    ASSUME NEW r \in ClientSet
    PROVE  LET q == Entering(r)
           IN  q \in ClientSet /\ q.at = "enter" /\ q.goal = "key" /\ q.moved = r.moved
  <1>1. 0 \in Revisions  BY RagAssumption DEF Revisions
  <1> QED  BY <1>1 DEF Entering, ClientSet, Steps

LEMMA HoldingRecord ==
    ASSUME NEW r \in ClientSet, NEW b \in Builds \cup {NoBuild}
    PROVE  LET q == Holding(r, b)
           IN  /\ q \in ClientSet /\ q.at = "read" /\ q.key = r.key /\ q.seen = r.seen
               /\ q.held = b /\ q.goal = r.goal /\ q.moved = r.moved
  BY DEF Holding, ClientSet, Steps

LEMMA HavingRecord ==
    ASSUME NEW r \in ClientSet, NEW s \in Revisions
    PROVE  LET q == Having(r, s)
           IN  /\ q \in ClientSet /\ q.at = "remember" /\ q.key = r.key /\ q.seen = s
               /\ q.goal = r.goal /\ q.moved = r.moved
  BY DEF Having, ClientSet, Steps

LEMMA FollowingRecord ==
    ASSUME NEW r \in ClientSet, NEW m \in BOOLEAN
    PROVE  LET q == Following(r, m)
           IN  q \in ClientSet /\ q.at = "follow" /\ q.goal = r.goal /\ q.moved = m
  BY DEF Following, ClientSet, Steps

LEMMA ArrivingRecord ==
    ASSUME NEW r \in ClientSet
    PROVE  LET q == Arriving(r)
           IN  q \in ClientSet /\ q.at = "key" /\ q.goal = "idle" /\ q.moved = r.moved
  BY DEF Arriving, ClientSet, Steps

LEMMA EditedRecord ==
    ASSUME NEW r \in ClientSet, NEW m \in BOOLEAN
    PROVE  LET q == Edited(r, m)
           IN  /\ q \in ClientSet /\ q.at = r.at /\ q.key = r.key /\ q.seen = r.seen
               /\ q.held = r.held /\ q.goal = r.goal /\ q.moved = m
  BY DEF Edited, ClientSet

-----------------------------------------------------------------------------
(* Steps that leave the index as it is.                                    *)

\* Who does not lead has no work.
LEMMA NoWork ==
    ASSUME NEW c, client[c].at \notin LeaderSteps
    PROVE  Works(c)
  BY DEF Works, At, LeaderSteps, BuildSteps

\* The index and what else is shared, but for the answers kept and the errors met.
Stays == /\ family' = family /\ documents' = documents /\ knowledge' = knowledge
         /\ store' = store /\ manifest' = manifest
         /\ leader' = leader /\ building' = building /\ invalidating' = invalidating
         /\ orphans' = orphans /\ broken' = broken
Calm  == Stays /\ cache' = cache
\* Errors are counted.
Counts == troubles' \in 0 .. MaxTroubles /\ troubles' >= troubles

\* A search does nothing to the index and to the other threads: what is left to show is
\* that it knows what it should at its own next step.
LEMMA SearchStep ==
    ASSUME Safe, NEW c \in Clients, NEW q \in ClientSet,
           client' = [client EXCEPT ![c] = q],
           client[c].at \notin LeaderSteps, q.at \notin LeaderSteps,
           Stays,
           cache' \subseteq Answers,
           Counts,
           q.at = "read" => ~invalidating,
           Reads(c)', Knows(c)'
    PROVE  Safe'
  <1> USE DEF Stays, Counts
  <1>1. TypeOK'
    BY Kinds DEF Safe, Shared, TypeOK, ClientSet
  <1>2. Shared'
    BY <1>1, Kinds DEF Safe, Shared, Listed, Bounded, Holds, NothingForgotten, Existing
  <1>3. client'[c] = q /\ \A d \in Clients : d # c => client'[d] = client[d]
    BY Kinds DEF Safe, Shared
  <1>4. \A d \in Clients : Leads(d) /\ Works(d) /\ Reads(d) /\ Knows(d)
    BY DEF Safe, Local
  <1>5. \A d \in Clients : Leads(d)'
    BY <1>3, <1>4 DEF Leads
  <1>6. \A d \in Clients : Works(d)'
    <2> SUFFICES ASSUME NEW d \in Clients PROVE Works(d)'  OBVIOUS
    <2>1. CASE client'[d].at \notin LeaderSteps
      BY <2>1 DEF Works, At, LeaderSteps, BuildSteps
    <2>2. CASE client'[d].at \in LeaderSteps
      <3>1. d # c /\ client'[d] = client[d]  BY <1>3, <2>2
      <3>2. (At(d, "purge") /\ \A b \in Existing : ~Read(b)) => \A b \in Existing' : ~Read(b)'
        <4>1. At(d, "purge") => invalidating  BY <1>4 DEF Works, At
        <4> QED  BY <1>3, <4>1 DEF Read, At, Existing
      <3> QED  BY <1>4, <3>1, <3>2 DEF Works, At, Staged, Static
    <2> QED  BY <2>1, <2>2
  <1>7. \A d \in Clients : Reads(d)'
    BY <1>3, <1>4, Kinds DEF Reads, At, Safe, Shared
  <1>8. \A d \in Clients : Knows(d)'
    <2> SUFFICES ASSUME NEW d \in Clients, d # c PROVE Knows(d)'  OBVIOUS
    <2>1. Knows(d) /\ client'[d] = client[d]  BY <1>3, <1>4
    <2> QED  BY <2>1, Kinds DEF Knows, At, Static, BuildSteps, Safe, Shared
  <1> QED  BY <1>2, <1>5, <1>6, <1>7, <1>8 DEF Safe, Local

\* A thread that comes to rest knows nothing it could be wrong about.
LEMMA RestKnows ==
    ASSUME NEW c, client'[c] = Rest
    PROVE  Reads(c)' /\ Knows(c)' /\ Works(c)' /\ client'[c].at \notin LeaderSteps
  <1>1. client'[c].at = "idle" /\ client'[c].goal = "idle"  BY RestRecord
  <1>2. client'[c].at \notin LeaderSteps  BY <1>1 DEF LeaderSteps, BuildSteps
  <1>3. Works(c)'  BY <1>1 DEF Works, At
  <1> QED  BY <1>1, <1>2, <1>3 DEF Reads, Knows, At, BuildSteps

\* What the invariant says of one thread, and the types of what it is about.
LEMMA Given ==
    ASSUME Safe, NEW c \in Clients
    PROVE  /\ TypeOK /\ Leads(c) /\ Works(c) /\ Reads(c) /\ Knows(c)
           /\ Listed /\ Bounded /\ Holds
           /\ client[c] \in ClientSet /\ client \in [Clients -> ClientSet]
           /\ troubles \in 0 .. MaxTroubles
           /\ cache \subseteq Answers
           /\ documents \in Revisions /\ knowledge \in Revisions /\ MaxTroubles \in Nat
  <1>1. TypeOK  BY DEF Safe, Shared
  <1>2. client[c] \in ClientSet /\ client \in [Clients -> ClientSet]
    BY <1>1, Kinds
  <1> QED  BY <1>1, <1>2, Kinds DEF Safe, Shared, Local, TypeOK

LEMMA Updated ==
    ASSUME Safe, NEW c \in Clients, NEW q, client' = [client EXCEPT ![c] = q]
    PROVE  client'[c] = q /\ \A d \in Clients : d # c => client'[d] = client[d]
  BY Given

\* The same, where nothing is kept.
LEMMA CalmStep ==
    ASSUME Safe, NEW c \in Clients, NEW q \in ClientSet,
           client' = [client EXCEPT ![c] = q],
           client[c].at \notin LeaderSteps, q.at \notin LeaderSteps, Calm, Counts,
           q.at = "read" => ~invalidating,
           Reads(c)', Knows(c)'
    PROVE  Safe'
  <1>1. cache' \subseteq Answers
    BY Given DEF Calm
  <1> QED  BY <1>1, SearchStep DEF Calm

\* A search that comes to rest.
LEMMA RestingStep ==
    ASSUME Safe, NEW c \in Clients, client' = [client EXCEPT ![c] = Rest],
           client[c].at \notin LeaderSteps, Stays,
           cache' \subseteq Answers, Counts
    PROVE  Safe'
  <1>1. client'[c] = Rest  BY Updated
  <1>2. Reads(c)' /\ Knows(c)' /\ Rest.at # "read" /\ Rest.at \notin LeaderSteps
    BY <1>1, RestKnows, RestRecord
  <1> QED  BY <1>2, RestRecord, SearchStep

LEMMA NoError ==
    ASSUME Safe, troubles' = troubles
    PROVE  Counts
  BY Kinds DEF Counts, Safe, Shared, TypeOK

LEMMA OneError ==
    ASSUME Safe, Trouble
    PROVE  Counts /\ troubles' > 0
  BY Kinds DEF Counts, Trouble, Safe, Shared, TypeOK

\* What a thread makes of the state file: what it says, or nothing, in error.
StateRead(state) == \/ state = manifest /\ UNCHANGED troubles
                    \/ state = NoManifest /\ Trouble

LEMMA StateIs ==
    ASSUME Safe, NEW state, StateRead(state)
    PROVE  /\ Counts
           /\ state.build \in Builds \cup {NoBuild} /\ state.obsolete \subseteq manifest.obsolete
           /\ \/ state = manifest
              \/ state.build = NoBuild /\ state.obsolete = {} /\ troubles' > 0
  <1>1. CASE state = manifest /\ UNCHANGED troubles
    <2>1. TypeOK  BY Given DEF Safe, Shared
    <2> QED  BY <1>1, <2>1, Fields, NoError
  <1>2. CASE state = NoManifest /\ Trouble
    BY <1>2, OneError DEF NoManifest
  <1> QED  BY <1>1, <1>2 DEF StateRead

LEMMA BeginSteps ==
    ASSUME Safe, NEW c \in Clients, Search(c) \/ Rebuild(c)
    PROVE  Safe'
  <1> DEFINE r == client[c]
  <1>0. r.at = "idle" /\ r.at \notin LeaderSteps /\ r \in ClientSet /\ Knows(c)
    BY Given DEF Search, Rebuild, At, LeaderSteps, BuildSteps, corpus
  <1>1. Calm /\ Counts
    BY NoError DEF Search, Rebuild, index, Calm, Stays, corpus
  <1>2. CASE Search(c) /\ Static
    <2> DEFINE q == Keyed(r, "compare", documents)
    <2>1. q \in ClientSet /\ q.at = "compare" /\ q.key = documents
      <3>1. documents \in Revisions /\ "compare" \in Steps  BY Given DEF Steps
      <3> QED  BY <1>0, <3>1, KeyedRecord
    <2>2. client' = [client EXCEPT ![c] = q]  BY <1>2 DEF Search, Static, Keyed, corpus
    <2> HIDE DEF q
    <2>3. client'[c] = q  BY <2>2, Updated
    <2>4. Reads(c)' /\ Knows(c)'
      BY <1>1, <1>2, <2>1, <2>3 DEF Calm, Stays, Reads, Knows, At, BuildSteps, Static
    <2>5. q.at \notin LeaderSteps  BY <2>1 DEF LeaderSteps, BuildSteps
    <2> QED  BY <1>0, <1>1, <2>1, <2>2, <2>4, <2>5, CalmStep
  <1>3. ASSUME NEW p \in {"embed", "enter"}, client' = [client EXCEPT ![c] = Moved(r, p)],
               p = "embed" => ~Static
        PROVE  Safe'
    <2> DEFINE q == Moved(r, p)
    <2>1. q \in ClientSet /\ q.at = p /\ q.goal = r.goal
      <3>1. p \in Steps  BY DEF Steps
      <3> QED  BY <1>0, <3>1, MovedRecord
    <2> HIDE DEF q
    <2>2. client' = [client EXCEPT ![c] = q]  BY <1>3 DEF q
    <2>3. client'[c] = q  BY <2>2, Updated
    <2>4. q.at \notin LeaderSteps /\ q.at # "read"  BY <2>1 DEF LeaderSteps, BuildSteps
    <2>5. Reads(c)' /\ Knows(c)'
      BY <1>0, <1>1, <1>3, <2>1, <2>3 DEF Calm, Stays, Reads, Knows, At, BuildSteps, Static
    <2> QED  BY <1>0, <1>1, <2>1, <2>2, <2>4, <2>5, CalmStep
  <1>4. CASE Search(c) /\ ~Static
    BY <1>3, <1>4 DEF Search, Static, Moved, corpus
  <1>5. CASE Rebuild(c)
    BY <1>3, <1>5 DEF Rebuild, Go, Moved, corpus
  <1> QED  BY <1>2, <1>4, <1>5

LEMMA CompareStep ==
    ASSUME Safe, NEW c \in Clients, NEW state, StateRead(state), Compare(c, state)
    PROVE  Safe'
  <1> DEFINE r == client[c]
  <1>0. /\ r.at = "compare" /\ r.at \notin LeaderSteps /\ r \in ClientSet /\ Knows(c)
        /\ Calm /\ Counts
    BY Given, StateIs DEF Compare, At, LeaderSteps, BuildSteps, index, Calm, Stays, corpus
  <1>1. CASE Current(state, r.key)
    <2> DEFINE q == Keyed(r, "key", 0)
    <2>1. q \in ClientSet /\ q.at = "key" /\ q.moved = r.moved
      <3>1. 0 \in Revisions /\ "key" \in Steps  BY Given, Kinds DEF Steps
      <3> QED  BY <1>0, <3>1, KeyedRecord
    <2>2. client' = [client EXCEPT ![c] = q]  BY <1>1 DEF Compare, Keyed
    <2> HIDE DEF q
    <2>3. client'[c] = q  BY <2>2, Updated
    <2>4. q.at \notin LeaderSteps /\ q.at # "read"  BY <2>1 DEF LeaderSteps, BuildSteps
    <2>5. state = manifest /\ manifest.build \in Builds /\ manifest.of = r.key
      BY <1>1, StateIs, Given, Kinds DEF Current, Existing
    <2>6. Reads(c)' /\ Knows(c)'
      BY <1>0, <2>1, <2>3, <2>5 DEF Calm, Stays, Reads, Knows, At, BuildSteps, Static
    <2> QED  BY <1>0, <2>1, <2>2, <2>4, <2>6, CalmStep
  <1>2. CASE ~Current(state, r.key)
    <2> DEFINE q == Entering(r)
    <2>1. q \in ClientSet /\ q.at = "enter" /\ q.goal = "key"
      BY <1>0, EnteringRecord
    <2>2. client' = [client EXCEPT ![c] = q]  BY <1>2 DEF Compare, Entering
    <2> HIDE DEF q
    <2>3. client'[c] = q  BY <2>2, Updated
    <2>4. q.at \notin LeaderSteps /\ q.at # "read"  BY <2>1 DEF LeaderSteps, BuildSteps
    <2>5. Reads(c)' /\ Knows(c)'
      BY <1>0, <2>1, <2>3 DEF Calm, Stays, Reads, Knows, At, BuildSteps, Static
    <2> QED  BY <1>0, <2>1, <2>2, <2>4, <2>5, CalmStep
  <1> QED  BY <1>1, <1>2

LEMMA KeyStep ==
    ASSUME Safe, NEW c \in Clients, Key(c)
    PROVE  Safe'
  <1> DEFINE r == client[c]
  <1>0. /\ r.at = "key" /\ r.at \notin LeaderSteps /\ r \in ClientSet /\ Knows(c)
        /\ cache' \subseteq Answers
        /\ Stays /\ troubles' = troubles
    BY Given DEF Key, At, LeaderSteps, BuildSteps, Stays, corpus
  <1>1. Counts
    BY <1>0, NoError
  <1>2. CASE client' = [client EXCEPT ![c] = Rest]
    BY <1>0, <1>1, <1>2, RestingStep
  <1>3. CASE client' = [client EXCEPT ![c].at = "embed", ![c].key = knowledge]
    <2> DEFINE q == Keyed(r, "embed", knowledge)
    <2>1. q \in ClientSet /\ q.at = "embed" /\ q.moved = r.moved /\ q.goal = r.goal
      <3>1. knowledge \in Revisions /\ "embed" \in Steps  BY Given DEF Steps
      <3> QED  BY <1>0, <3>1, KeyedRecord
    <2>2. client' = [client EXCEPT ![c] = q]  BY <1>3 DEF Keyed
    <2> HIDE DEF q
    <2>3. client'[c] = q  BY <2>2, Updated
    <2>4. q.at \notin LeaderSteps /\ q.at # "read"  BY <2>1 DEF LeaderSteps, BuildSteps
    <2>5. Reads(c)' /\ Knows(c)'
      BY <1>0, <2>1, <2>3 DEF Calm, Stays, Reads, Knows, At, BuildSteps, Static
    <2> QED  BY <1>0, <2>1, <2>2, <2>4, <2>5, <1>1, SearchStep
  <1> QED  BY <1>2, <1>3 DEF Key, corpus

LEMMA SearchRaisesStep ==
    ASSUME Safe, NEW c \in Clients, SearchRaises(c)
    PROVE  Safe'
  <1>1. client[c].at \notin LeaderSteps
    BY DEF SearchRaises, At, LeaderSteps, BuildSteps, corpus
  <1>2. Counts
    BY OneError DEF SearchRaises
  <1>3. cache' \subseteq Answers /\ Stays
    BY Given DEF SearchRaises, index, Stays, corpus
  <1> QED  BY <1>1, <1>2, <1>3, RestingStep DEF SearchRaises, corpus

LEMMA SnapshotStep ==
    ASSUME Safe, NEW c \in Clients, NEW state, StateRead(state), Snapshot(c, state)
    PROVE  Safe'
  <1> DEFINE r == client[c]
             q == Holding(r, state.build)
  <1>0. /\ r.at = "embed" /\ r.at \notin LeaderSteps /\ r \in ClientSet /\ Knows(c)
        /\ ~invalidating
        /\ Calm /\ Counts
    BY Given, StateIs DEF Snapshot, At, LeaderSteps, BuildSteps, index, Calm, Stays, corpus
  <1>1. /\ q \in ClientSet /\ q.at = "read" /\ q.held = state.build
        /\ q.goal = r.goal /\ q.moved = r.moved
    BY <1>0, StateIs, HoldingRecord
  <1>2. client' = [client EXCEPT ![c] = q]  BY DEF Snapshot, Holding
  <1> HIDE DEF q
  <1>3. client'[c] = q  BY <1>2, Updated
  <1>4. q.at \notin LeaderSteps  BY <1>1 DEF LeaderSteps, BuildSteps
  <1>5. state = manifest \/ (state.build = NoBuild /\ troubles' > 0)  BY StateIs
  <1>6. Reads(c)'
    <2>1. NoBuild \notin Builds /\ building.safe \subseteq Builds  BY Given, Kinds, Fields
    <2> QED  BY <1>0, <1>1, <1>3, <1>5, <2>1, Given DEF Calm, Stays, Reads, At, Listed
  <1>7. Knows(c)'
    <2>1. Holds /\ Bounded /\ NoBuild \notin Builds /\ troubles \in Nat  BY Given, Kinds
    <2>2. troubles > 0 => troubles' > 0  BY <1>0, <2>1 DEF Counts
    <2> QED
      BY <1>0, <1>1, <1>3, <1>5, <2>1, <2>2
         DEF Calm, Stays, Knows, At, BuildSteps, Static, Holds, Bounded
  <1> QED  BY <1>0, <1>1, <1>2, <1>4, <1>6, <1>7, CalmStep

LEMMA QueryStep ==
    ASSUME Safe, NEW c \in Clients, Query(c)
    PROVE  Safe'
  <1> DEFINE r == client[c]
             seen == IF r.held = NoBuild THEN 0 ELSE store[r.held]
             q == Having(r, seen)
  <1>0. /\ r.at = "read" /\ r.at \notin LeaderSteps /\ r \in ClientSet /\ Knows(c)
        /\ Calm /\ Counts /\ troubles' = troubles
    BY Given, NoError DEF Query, At, LeaderSteps, BuildSteps, index, Calm, Stays, corpus
  <1>1. CASE ~Static
    <2>1. client' = [client EXCEPT ![c] = Rest]  BY <1>1 DEF Query, Static, corpus
    <2>2. cache' \subseteq Answers
      BY <1>0, Given DEF Calm
    <2> QED  BY <1>0, <2>1, <2>2, RestingStep DEF Calm
  <1>2. CASE Static
    <2>0. seen \in Revisions
      BY Given, Kinds, Fields
    <2>1. client' = [client EXCEPT ![c] = q]  BY <1>2 DEF Query, Having, Static, corpus
    <2>2. Static /\ ~r.moved => seen = documents \/ (seen = 0 /\ troubles > 0)
      BY <1>0, Given, Kinds DEF Knows, At
    <2> HIDE DEF seen
    <2>3. /\ q \in ClientSet /\ q.at = "remember" /\ q.key = r.key /\ q.seen = seen
          /\ q.goal = r.goal /\ q.moved = r.moved
      BY <1>0, <2>0, HavingRecord
    <2> HIDE DEF q
    <2>4. client'[c] = q  BY <2>1, Updated
    <2>5. q.at \notin LeaderSteps /\ q.at # "read"  BY <2>3 DEF LeaderSteps, BuildSteps
    <2>6. Reads(c)' /\ Knows(c)'
      BY <1>0, <1>2, <2>2, <2>3, <2>4 DEF Calm, Stays, Reads, Knows, At, BuildSteps, Static
    <2> QED  BY <1>0, <2>1, <2>3, <2>5, <2>6, CalmStep
  <1> QED  BY <1>1, <1>2

LEMMA RememberStep ==
    ASSUME Safe, NEW c \in Clients, Remember(c)
    PROVE  Safe'
  <1>1. client[c].at \notin LeaderSteps
    BY DEF Remember, At, LeaderSteps, BuildSteps, corpus
  <1>2. cache' \subseteq Answers
    <2>1. /\ client[c].key \in Revisions /\ client[c].seen \in Revisions
          /\ client[c].moved \in BOOLEAN
      BY Given, Fields
    <2> QED  BY <2>1, Given DEF Remember, Answers
  <1>3. Counts /\ Stays
    BY NoError DEF Remember, Stays, corpus
  <1> QED  BY <1>1, <1>2, <1>3, RestingStep DEF Remember, corpus

-----------------------------------------------------------------------------
(* Steps of the thread that leads.                                         *)

\* What a reader, and a search about to read, must be left with.
Spared(b) ==
    /\ b \notin building'.safe
    /\ b \in Builds /\ b = building'.id => manifest'.build = b \/ troubles' > 0
    /\ b \in Builds => store'[b] = store[b] \/ (store'[b] = 0 /\ troubles' > 0)
Readable == \A d \in Clients : At(d, "read") => Spared(client[d].held)
Outlook  == (Static /\ manifest.of = documents /\ manifest.build \in Builds)
                => manifest'.of = documents /\ manifest'.build \in Builds

\* A step of the leader, or of a thread that comes to lead.
LeadersStep(c) ==
    /\ family' = family /\ documents' = documents /\ knowledge' = knowledge
    /\ troubles' >= troubles /\ troubles' \in Nat
    /\ leader \in {c, Nobody} /\ leader' \in {c, Nobody}
    /\ Readable /\ Outlook

\* Another thread, which the step leaves where it is.
LEMMA OtherStays ==
    ASSUME Safe, NEW c \in Clients, LeadersStep(c), NEW d \in Clients, d # c,
           client'[d] = client[d], building'.of = building.of \/ building'.of = documents
    PROVE  Local(d)'
  <1>1. Leads(d) /\ Reads(d) /\ Knows(d)  BY Given
  <1>2. Nobody \notin Clients /\ troubles \in Nat  BY Given, Kinds
  <1>3. client[d].at \notin LeaderSteps /\ leader' # d
    BY <1>1, <1>2 DEF Leads, LeadersStep
  <1>4. Leads(d)'  BY <1>3 DEF Leads
  <1>5. Works(d)'  BY <1>3 DEF Works, At, LeaderSteps, BuildSteps
  <1>6. Reads(d)'
    <2>1. At(d, "read") => Spared(client[d].held)  BY DEF LeadersStep, Readable
    <2> QED  BY <2>1 DEF Reads, At, Spared
  <1>7. Knows(d)'
    <2>1. At(d, "read") => Spared(client[d].held)  BY DEF LeadersStep, Readable
    <2>2. family' = family /\ documents' = documents /\ knowledge' = knowledge
                           /\ troubles' \in Nat /\ troubles' >= troubles
      BY DEF LeadersStep
    <2>3. (client[d].at \in {"compare", "key", "remember", "follow"} \/ client[d].goal = "key")
              => Static'
      BY <1>1, <2>2 DEF Knows, Static
    <2>5. ASSUME Static, ~client[d].moved
          PROVE  /\ At(d, "compare") => client[d].key = documents
                 /\ client[d].at \in BuildSteps \cup {"follow"} => building'.of = documents
                 /\ client[d].at \in {"key", "embed", "read", "remember"} =>
                        manifest'.of = documents /\ manifest'.build \in Builds
                 /\ At(d, "read") =>
                        \/ client[d].held \in Builds /\ store'[client[d].held] = documents
                        \/ /\ troubles' > 0
                           /\ client[d].held = NoBuild \/ store'[client[d].held] = 0
                 /\ At(d, "remember") => \/ client[d].seen = documents
                                         \/ client[d].seen = 0 /\ troubles' > 0
      <3>1. /\ At(d, "compare") => client[d].key = documents
            /\ client[d].at \in BuildSteps \cup {"follow"} => building.of = documents
            /\ client[d].at \in {"key", "embed", "read", "remember"} =>
                   manifest.of = documents /\ manifest.build \in Builds
            /\ At(d, "read") =>
                   \/ client[d].held \in Builds /\ store[client[d].held] = documents
                   \/ /\ troubles > 0
                      /\ client[d].held = NoBuild \/ store[client[d].held] = 0
            /\ At(d, "remember") => \/ client[d].seen = documents
                                    \/ client[d].seen = 0 /\ troubles > 0
        BY <1>1, <2>5 DEF Knows
      <3>2. Outlook  BY DEF LeadersStep
      <3>3. troubles > 0 => troubles' > 0  BY <1>2, <2>2
      <3>4. client[d].held \in Builds \cup {NoBuild}  BY Given, Fields
      <3> QED  BY <2>1, <2>5, <3>1, <3>2, <3>3, <3>4 DEF Outlook, Spared
    <2> QED  BY <2>2, <2>3, <2>5 DEF Knows, At, Static
  <1> QED  BY <1>4, <1>5, <1>6, <1>7 DEF Local

\* The types of a step, from what it makes of each part.
LEMMA TypesKept ==
    ASSUME Safe, family' = family, documents' = documents /\ knowledge' = knowledge,
           troubles' \in 0 .. MaxTroubles,
           store' \in [Builds -> Revisions], manifest' \in ManifestSet, building' \in BuildingSet,
           leader' \in Clients \cup {Nobody}, invalidating' \in BOOLEAN, broken' \in BOOLEAN,
           cache' \subseteq Answers,
           client' \in [Clients -> ClientSet], orphans' \subseteq Builds
    PROVE  TypeOK'
  BY DEF Safe, Shared, TypeOK, ManifestSet, BuildingSet, ClientSet

\* The leader goes on to its next step.
LEMMA LeaderGoesOn ==
    ASSUME Safe, NEW c \in Clients, NEW p \in LeaderSteps, Go(c, p), leader' = c,
           LeadersStep(c), building'.of = building.of \/ building'.of = documents,
           client[c].at \in LeaderSteps \cup {"enter", "idle"},
           (Static /\ p \in BuildSteps /\ ~client[c].moved) => building'.of = documents,
           Shared', Works(c)'
    PROVE  Safe'
  <1> DEFINE q == Moved(client[c], p)
  <1>1. q \in ClientSet /\ q.at = p /\ q.goal = client[c].goal /\ q.moved = client[c].moved
    <2>1. client[c] \in ClientSet /\ p \in Steps
      BY Given DEF Steps, LeaderSteps, BuildSteps
    <2> QED  BY <2>1, MovedRecord
  <1>2. client' = [client EXCEPT ![c] = q]  BY DEF Go, Moved
  <1> HIDE DEF q
  <1>3. client'[c] = q /\ \A d \in Clients : d # c => client'[d] = client[d]
    BY <1>2, Updated
  <1>4. Leads(c)'  BY <1>1, <1>3 DEF Leads
  <1>5. Reads(c)'  BY <1>1, <1>3 DEF Reads, At, LeaderSteps, BuildSteps
  <1>6. Knows(c)'
    <2>1. Knows(c) /\ family' = family /\ documents' = documents /\ knowledge' = knowledge
      BY Given DEF LeadersStep
    <2> QED  BY <1>1, <1>3, <2>1 DEF Knows, At, Static, LeaderSteps, BuildSteps
  <1>7. \A d \in Clients : d # c => Local(d)'
    BY <1>3, OtherStays
  <1>8. Local(c)'  BY <1>4, <1>5, <1>6 DEF Local
  <1> QED  BY <1>7, <1>8 DEF Safe

\* It ends, and with it the wait of those who follow.
LEMMA LeaderFinishes ==
    ASSUME Safe, NEW c \in Clients, NEW ok \in BOOLEAN, Finish(c, ok), LeadersStep(c),
           client[c].at \in BuildSteps \cup {"unstage"},
           ok => client[c].at \in BuildSteps /\ manifest'.of = building.of
                 /\ manifest'.build \in Builds,
           Shared'
    PROVE  Safe'
  <1>1. \A d \in Clients :
            client'[d] = IF d = c \/ At(d, "follow") THEN Arrived(d, ok) ELSE client[d]
    BY DEF Finish
  <1>2. leader' = Nobody /\ building' = NotBuilding /\ Nobody \notin Clients
    BY Given, Kinds DEF Finish
  <1>3. family' = family /\ documents' = documents /\ knowledge' = knowledge  BY DEF LeadersStep
  <1>4. ASSUME NEW d \in Clients, client'[d] = Arrived(d, ok), d = c \/ At(d, "follow")
        PROVE  Local(d)'
    <2>1. Knows(d) /\ client[d] \in ClientSet  BY Given
    <2>2. CASE ok /\ client[d].goal = "key"
      <3> DEFINE q == Arriving(client[d])
      <3>1. q \in ClientSet /\ q.at = "key" /\ q.goal = "idle" /\ q.moved = client[d].moved
        BY <2>1, ArrivingRecord
      <3>2. client'[d] = q  BY <1>4, <2>2 DEF Arrived, Arriving
      <3> HIDE DEF q
      <3>3. Static  BY <2>1, <2>2 DEF Knows
      <3>4. ~client[d].moved => manifest'.of = documents /\ manifest'.build \in Builds
        BY <1>4, <2>1, <2>2, <3>3 DEF Knows, At, BuildSteps
      <3>5. Knows(d)'  BY <1>3, <3>1, <3>2, <3>3, <3>4 DEF Knows, At, Static, BuildSteps
      <3>6. Leads(d)' /\ Works(d)' /\ Reads(d)'
        BY <1>2, <3>1, <3>2 DEF Leads, Works, Reads, At, LeaderSteps, BuildSteps
      <3> QED  BY <3>5, <3>6 DEF Local
    <2>3. CASE ~(ok /\ client[d].goal = "key")
      <3>1. client'[d] = Rest  BY <1>4, <2>3 DEF Arrived
      <3> QED  BY <1>2, <3>1, RestKnows DEF Local, Leads
    <2> QED  BY <2>2, <2>3
  <1>5. ASSUME NEW d \in Clients, client'[d] = client[d], d # c, ~At(d, "follow")
        PROVE  Local(d)'
    <2>1. /\ Leads(d) /\ Reads(d) /\ Knows(d)  BY Given
    <2>2. client[d].at \notin LeaderSteps
      BY <1>2, <1>5, <2>1 DEF Leads, LeadersStep
    <2>4. Leads(d)' /\ Works(d)'
      BY <1>2, <1>5, <2>2 DEF Leads, Works, At, LeaderSteps, BuildSteps
    <2>5. At(d, "read") => Spared(client[d].held)  BY DEF LeadersStep, Readable
    <2>6. Reads(d)'  BY <1>5, <2>5 DEF Reads, At, Spared
    <2>7. Knows(d)'
      <3>1. troubles > 0 => troubles' > 0
        BY Given DEF LeadersStep
      <3>2. Outlook  BY DEF LeadersStep
      <3>3. client[d].at \notin BuildSteps \cup {"follow"}
        BY <1>5, <2>2 DEF LeaderSteps, At
      <3>4. client[d].held \in Builds \cup {NoBuild}  BY Given, Fields
      <3> QED
        BY <1>3, <1>5, <2>1, <2>5, <3>1, <3>2, <3>3, <3>4 DEF Knows, At, Static, Outlook, Spared
    <2> QED  BY <2>4, <2>6, <2>7 DEF Local
  <1>6. \A d \in Clients : Local(d)'  BY <1>1, <1>4, <1>5
  <1> QED  BY <1>6 DEF Safe

\* Who is at a step of the leader leads.
LEMMA LeaderIs ==
    ASSUME Safe, NEW c \in Clients, client[c].at \in LeaderSteps
    PROVE  leader = c
  BY Given DEF Leads

\* The threads after the leader's step.
LEMMA Gone ==
    ASSUME Safe, NEW c \in Clients, NEW p \in LeaderSteps, Go(c, p)
    PROVE  /\ client' \in [Clients -> ClientSet] /\ client'[c].at = p
           /\ \A d \in Clients : d # c => client'[d] = client[d]
  <1> DEFINE q == Moved(client[c], p)
  <1>1. q \in ClientSet /\ q.at = p
    <2>1. client[c] \in ClientSet /\ p \in Steps
      BY Given DEF Steps, LeaderSteps, BuildSteps
    <2> QED  BY <2>1, MovedRecord
  <1>2. client' = [client EXCEPT ![c] = q]  BY DEF Go, Moved
  <1> HIDE DEF q
  <1> QED  BY <1>1, <1>2, Updated, Given

LEMMA Finished ==
    ASSUME Safe, NEW c \in Clients, NEW ok \in BOOLEAN, Finish(c, ok)
    PROVE  /\ client' \in [Clients -> ClientSet]
           /\ leader' = Nobody /\ building' = NotBuilding
  <1>1. ASSUME NEW d \in Clients
        PROVE  (IF d = c \/ At(d, "follow") THEN Arrived(d, ok) ELSE client[d]) \in ClientSet
    <2>1. client[d] \in ClientSet  BY Given
    <2>2. Arriving(client[d]) \in ClientSet  BY <2>1, ArrivingRecord
    <2> QED  BY <2>1, <2>2, RestRecord DEF Arrived, Arriving
  <1> QED  BY <1>1 DEF Finish

LEMMA NoBuilding ==
    /\ NotBuilding \in BuildingSet /\ NotBuilding.id = NoBuild /\ NotBuilding.of = 0
    /\ NotBuilding.safe = {} /\ NotBuilding.kept = {}
  <1>1. 0 \in Revisions  BY RagAssumption DEF Revisions
  <1> QED  BY <1>1 DEF NotBuilding, BuildingSet

\* Whose collections stay, stays readable.
LEMMA ReadersSpared ==
    ASSUME Safe, store' = store, troubles' \in Nat, troubles' >= troubles,
           building'.safe \subseteq building.safe, building'.id \in {building.id, NoBuild},
           manifest'.build \in {manifest.build, building.id}
    PROVE  Readable
  <1> SUFFICES ASSUME NEW d \in Clients, At(d, "read") PROVE Spared(client[d].held)
    BY DEF Readable
  <1>1. Reads(d) /\ NoBuild \notin Builds /\ troubles \in Nat  BY Given, Kinds
  <1> QED  BY <1>1 DEF Reads, Spared

\* Nothing is shared anew.
LEMMA SharedStays ==
    ASSUME Safe, TypeOK', store' = store, manifest' = manifest, orphans' = orphans,
           broken' = broken, documents' = documents /\ knowledge' = knowledge,
           troubles' >= troubles,
           building'.id \in {building.id} \/ building.id = NoBuild,
           building'.of <= documents, building'.safe \subseteq manifest.obsolete,
           building'.kept \subseteq manifest.obsolete,
           leader' = Nobody => building' = NotBuilding
    PROVE  Shared'
  <1>0. Listed /\ Bounded /\ Holds /\ TypeOK  BY DEF Safe, Shared
  <1>1. Listed'  BY <1>0 DEF Listed
  <1>2. Bounded'
    <2>1. troubles' \in Nat /\ troubles \in Nat  BY <1>0, Kinds DEF TypeOK
    <2> QED  BY <1>0, <2>1 DEF Bounded
  <1>3. Holds'  BY <1>0 DEF Holds
  <1>4. NothingForgotten'
    <2>1. NoBuild \notin Existing  BY <1>0, Kinds DEF Existing
    <2> QED  BY <2>1 DEF Safe, Shared, NothingForgotten, Existing
  <1> QED  BY <1>1, <1>2, <1>3, <1>4 DEF Shared

LEMMA EnterStep ==
    ASSUME Safe, NEW c \in Clients, Enter(c)
    PROVE  Safe'
  <1> DEFINE r == client[c]
  <1>0. r.at = "enter" /\ r.at \notin LeaderSteps /\ r \in ClientSet
    BY Given DEF Enter, At, LeaderSteps, BuildSteps, corpus
  <1>1. CASE client' = [client EXCEPT ![c].at = "follow", ![c].moved = @ \/ building.of # documents]
             /\ Static /\ leader' = leader /\ building' = building
    <2> DEFINE m == r.moved \/ building.of # documents
               q == Following(r, m)
    <2>0. m \in BOOLEAN /\ (~m => building.of = documents)  BY <1>0 DEF ClientSet
    <2>1. client' = [client EXCEPT ![c] = q]  BY <1>1 DEF Following
    <2> HIDE DEF m
    <2>2. q \in ClientSet /\ q.at = "follow" /\ q.goal = r.goal /\ q.moved = m
      BY <1>0, <2>0, FollowingRecord
    <2> HIDE DEF q
    <2>3. client'[c] = q  BY <2>1, Updated
    <2>4. q.at \notin LeaderSteps /\ q.at # "read"  BY <2>2 DEF LeaderSteps, BuildSteps
    <2>5. Calm /\ Counts  BY <1>1, NoError DEF Enter, Calm, Stays, corpus
    <2>6. Reads(c)' /\ Knows(c)'
      BY <1>1, <2>0, <2>2, <2>3, <2>5 DEF Calm, Stays, Reads, Knows, At, BuildSteps, Static
    <2> QED  BY <1>0, <2>1, <2>2, <2>4, <2>5, <2>6, CalmStep
  <1>2. CASE /\ leader = Nobody /\ leader' = c /\ Go(c, "load")
             /\ building' = [NotBuilding EXCEPT !.of = documents]
    <2>1. /\ family' = family /\ documents' = documents /\ knowledge' = knowledge /\ store' = store
          /\ manifest' = manifest /\ invalidating' = invalidating /\ cache' = cache
          /\ orphans' = orphans /\ broken' = broken /\ troubles' = troubles
      BY DEF Enter, corpus
    <2>2. /\ building'.id = NoBuild /\ building'.of = documents /\ building'.safe = {}
          /\ building'.kept = {}
          /\ building' \in BuildingSet
      <3>1. documents \in Revisions  BY Given
      <3> QED  BY <1>2, <3>1 DEF NotBuilding, BuildingSet
    <2>3. "load" \in LeaderSteps /\ Nobody \notin Clients
      BY Given, Kinds DEF LeaderSteps, BuildSteps
    <2>4. client' \in [Clients -> ClientSet] /\ client'[c].at = "load"
      BY <1>2, <2>3, Gone
    <2>5. building = NotBuilding  BY <1>2, Given DEF Listed
    <2>6. TypeOK'
      BY <1>2, <2>1, <2>2, <2>4, Given, Kinds, TypesKept DEF TypeOK
    <2>7. Shared'
      <3>1. building.id = NoBuild /\ documents <= documents  BY <2>5, Given, Kinds, NoBuilding
      <3> QED  BY <1>2, <2>1, <2>2, <2>3, <2>6, <3>1, Given, Kinds, SharedStays
    <2>8. Works(c)'
      BY <2>1, <2>2, <2>4, Given DEF Works, At, Bounded
    <2>9. LeadersStep(c)
      <3>1. troubles' \in Nat /\ troubles' >= troubles  BY <2>1, Given, Kinds
      <3>2. Readable  BY <2>1, <2>2, <3>1, ReadersSpared
      <3> QED  BY <1>2, <2>1, <3>1, <3>2 DEF LeadersStep, Outlook
    <2> QED  BY <1>0, <1>2, <2>2, <2>3, <2>7, <2>8, <2>9, LeaderGoesOn
  <1> QED  BY <1>1, <1>2 DEF Enter, Static, corpus

\* What the leader knows of its build, and the types of a step it goes on with.
LEMMA LeaderKnows ==
    ASSUME Safe, NEW c \in Clients, client[c].at \in BuildSteps
    PROVE  Static /\ ~client[c].moved => building.of = documents
  BY Given DEF Knows

LEMMA InvalidateStep ==
    ASSUME Safe, NEW c \in Clients, Invalidate(c)
    PROVE  Safe'
  <1>1. /\ client[c].at = "idle" /\ family = "runtime" /\ leader = Nobody /\ leader' = c
        /\ invalidating' = TRUE /\ Go(c, "drain")
        /\ family' = family /\ documents' = documents /\ knowledge' = knowledge
        /\ store' = store /\ manifest' = manifest
        /\ building' = building /\ cache' = cache /\ orphans' = orphans /\ broken' = broken
        /\ troubles' = troubles
    BY DEF Invalidate, At, corpus
  <1>2. "drain" \in LeaderSteps /\ "drain" \notin BuildSteps /\ Nobody \notin Clients
    BY Given, Kinds DEF LeaderSteps, BuildSteps
  <1>3. client' \in [Clients -> ClientSet] /\ client'[c].at = "drain"
    BY <1>1, <1>2, Gone
  <1>4. building = NotBuilding /\ troubles' \in Nat /\ troubles' >= troubles
    BY <1>1, Given, Kinds DEF Listed
  <1>5. TypeOK'  BY <1>1, <1>3, Given, Kinds, TypesKept DEF TypeOK
  <1>6. Shared'
    <2>1. building'.of <= documents /\ building'.safe \subseteq manifest.obsolete
          /\ building'.kept \subseteq manifest.obsolete
      BY <1>1, Given DEF Bounded, Listed
    <2> QED  BY <1>1, <1>2, <1>4, <1>5, <2>1, SharedStays
  <1>7. Works(c)'  BY <1>1, <1>3, <1>4 DEF Works, At
  <1>8. LeadersStep(c)
    <2>1. Readable  BY <1>1, <1>4, ReadersSpared
    <2> QED  BY <1>1, <1>4, <2>1 DEF LeadersStep, Outlook
  <1> QED  BY <1>1, <1>2, <1>6, <1>7, <1>8, LeaderGoesOn

\* The build that is begun is nobody's.
LEMMA FreshIsUnused ==
    ASSUME Unused # {}
    PROVE  /\ Fresh \in Builds /\ store[Fresh] = 0 /\ Fresh # manifest.build
           /\ Fresh \notin manifest.obsolete /\ ~Read(Fresh)
  <1>1. Fresh \in Unused  BY DEF Fresh
  <1> QED  BY <1>1 DEF Unused

\* A build that is stored, whole or in part.
LEMMA StoringStep ==
    ASSUME Safe, NEW c \in Clients, At(c, "load"), Unused # {}, NEW v \in Revisions,
           NEW p \in {"verify", "unstage"}, Go(c, p),
           p = "verify" => v = (IF Static THEN documents ELSE building.of),
           store' = [store EXCEPT ![Fresh] = v],
           building' = [building EXCEPT !.id = Fresh],
           family' = family, documents' = documents /\ knowledge' = knowledge,
           manifest' = manifest, leader' = leader,
           invalidating' = invalidating, cache' = cache, orphans' = orphans, broken' = broken,
           troubles' \in 0 .. MaxTroubles, troubles' >= troubles
    PROVE  Safe'
  <1>1. client[c].at \in BuildSteps /\ client[c].at \in LeaderSteps /\ p \in LeaderSteps
    BY DEF At, BuildSteps, LeaderSteps
  <1>2. leader = c /\ Nobody \notin Clients /\ NoBuild \notin Builds
    BY <1>1, LeaderIs, Given, Kinds
  <1>3. client' \in [Clients -> ClientSet] /\ client'[c].at = p  BY <1>1, Gone
  <1>4. /\ building'.id = Fresh /\ building'.of = building.of /\ building'.safe = building.safe
        /\ building'.kept = building.kept /\ building.safe = {} /\ building.kept = {}
        /\ building' \in BuildingSet /\ building.id = NoBuild
    BY <1>1, FreshIsUnused, Given, Kinds DEF BuildingSet, Works, At
  <1>5. /\ store' \in [Builds -> Revisions] /\ store'[Fresh] = v
        /\ \A b \in Builds : b # Fresh => store'[b] = store[b]
    BY FreshIsUnused, Given, Kinds
  <1>6. troubles' \in Nat /\ troubles \in Nat  BY Given, Kinds DEF TypeOK
  <1>7. TypeOK'
    BY <1>2, <1>3, <1>4, <1>5, Given, Kinds, TypesKept DEF TypeOK
  <1>8. Shared'
    <2>1. Listed'  BY <1>2, <1>4, Given DEF Listed
    <2>2. Bounded'  BY <1>4, <1>6, Given DEF Bounded
    <2>3. Holds'
      <3>1. manifest.build # NoBuild => manifest.build \in Builds /\ manifest.build # Fresh
        BY FreshIsUnused, Given, Fields
      <3> QED  BY <1>5, <3>1, Given DEF Holds
    <2>4. NothingForgotten'
      <3>1. NothingForgotten  BY DEF Safe, Shared
      <3>2. \A b \in Builds : store'[b] # 0 => b = Fresh \/ store[b] # 0  BY <1>5
      <3> QED  BY <1>2, <1>4, <3>1, <3>2 DEF NothingForgotten, Existing
    <2> QED  BY <1>7, <2>1, <2>2, <2>3, <2>4 DEF Shared
  <1>9. Works(c)'
    <2>1. Staged'  BY <1>4, FreshIsUnused DEF Staged
    <2>2. manifest.of <= building.of /\ building.of <= documents /\ documents \in Nat
          /\ building.of \in Nat
      <3>1. Works(c) /\ Bounded /\ documents \in Revisions /\ building.of \in Revisions
        BY Given, Fields
      <3>2. Revisions \subseteq Nat  BY RagAssumption DEF Revisions
      <3>3. manifest.of <= building.of  BY <3>1 DEF Works, At
      <3> QED  BY <3>1, <3>2, <3>3 DEF Bounded
    <2>3. p = "verify" => IF Static THEN building.of <= v /\ v <= documents ELSE v = building.of
      BY <2>2
    <2> QED  BY <1>3, <1>4, <1>5, <2>1, <2>2, <2>3, FreshIsUnused DEF Works, At, Static
  <1>10. LeadersStep(c)
    <2>1. ASSUME NEW d \in Clients, At(d, "read") PROVE Spared(client[d].held)
      <3>1. client[d].held # Fresh  BY <2>1, FreshIsUnused DEF Read
      <3>2. Reads(d)  BY Given
      <3> QED  BY <1>4, <1>5, <2>1, <3>1, <3>2 DEF Spared, Reads
    <2> QED  BY <1>2, <1>6, <2>1 DEF LeadersStep, Readable, Outlook
  <1> QED  BY <1>1, <1>2, <1>4, <1>8, <1>9, <1>10, LeaderGoesOn, LeaderKnows

LEMMA LoadSteps ==
    ASSUME Safe, NEW c \in Clients, Load(c) \/ LoadRaises(c)
    PROVE  Safe'
  <1>1. building.of \in Revisions /\ documents \in Revisions /\ troubles \in 0 .. MaxTroubles
        /\ MaxTroubles \in Nat
    BY Given, Fields
  <1>2. CASE Load(c)
    <2> DEFINE v == IF Static THEN documents ELSE building.of
    <2>1. v \in Revisions  BY <1>1
    <2>2. /\ Unused # {} /\ store' = [store EXCEPT ![Fresh] = v]
          /\ building' = [building EXCEPT !.id = Fresh]
          /\ At(c, "load") /\ Go(c, "verify")
          /\ family' = family /\ documents' = documents /\ knowledge' = knowledge
          /\ manifest' = manifest
          /\ leader' = leader /\ invalidating' = invalidating /\ cache' = cache
          /\ orphans' = orphans /\ broken' = broken
      BY <1>2 DEF Load, Static, corpus
    <2>3. troubles' \in 0 .. MaxTroubles /\ troubles' >= troubles  BY <1>1, <1>2 DEF Load, corpus
    <2> HIDE DEF Unused, Fresh
    <2> QED  BY <2>1, <2>2, <2>3, StoringStep
  <1>3. CASE LoadRaises(c)
    <2>1. /\ Unused # {} /\ store' = [store EXCEPT ![Fresh] = building.of]
          /\ building' = [building EXCEPT !.id = Fresh]
          /\ At(c, "load") /\ Go(c, "unstage")
          /\ family' = family /\ documents' = documents /\ knowledge' = knowledge
          /\ manifest' = manifest
          /\ leader' = leader /\ invalidating' = invalidating /\ cache' = cache
          /\ orphans' = orphans /\ broken' = broken
      BY <1>3 DEF LoadRaises, corpus
    <2>2. troubles' \in 0 .. MaxTroubles /\ troubles' >= troubles
      BY <1>1, <1>3 DEF LoadRaises, Trouble, corpus
    <2> QED  BY <1>1, <2>1, <2>2, StoringStep
  <1> QED  BY <1>2, <1>3

LEMMA VerifyStep ==
    ASSUME Safe, NEW c \in Clients, Verify(c)
    PROVE  Safe'
  <1> DEFINE p == IF Verified(c) THEN "publish" ELSE "unstage"
  <1>1. /\ client[c].at = "verify" /\ Go(c, p) /\ p \in LeaderSteps
        /\ client[c].at \in BuildSteps /\ client[c].at \in LeaderSteps
        /\ family' = family /\ documents' = documents /\ knowledge' = knowledge
        /\ store' = store /\ manifest' = manifest
        /\ leader' = leader /\ building' = building /\ invalidating' = invalidating
        /\ cache' = cache /\ orphans' = orphans /\ broken' = broken /\ troubles' = troubles
    BY DEF Verify, At, index, LeaderSteps, BuildSteps, corpus
  <1>2. leader = c /\ Nobody \notin Clients  BY <1>1, LeaderIs, Given, Kinds
  <1>3. client' \in [Clients -> ClientSet] /\ client'[c].at = p  BY <1>1, Gone
  <1>4. troubles' \in Nat /\ troubles' >= troubles  BY <1>1, Given, Kinds
  <1>5. TypeOK'  BY <1>1, <1>3, Given, Kinds, TypesKept DEF TypeOK
  <1>6. Shared'
    <2>1. building'.of <= documents /\ building'.safe \subseteq manifest.obsolete
          /\ building'.kept \subseteq manifest.obsolete
      BY <1>1, Given DEF Bounded, Listed
    <2> QED  BY <1>1, <1>2, <1>4, <1>5, <2>1, SharedStays
  <1>7. Works(c)'
    <2>1. Staged /\ manifest.of <= building.of /\ building.safe = {} /\ building.kept = {}
      BY <1>1, Given DEF Works
    <2>2. Verified(c) => store[building.id] = building.of
      <3>1. IF Static THEN building.of <= store[building.id] /\ store[building.id] <= documents
            ELSE store[building.id] = building.of
        BY <1>1, Given DEF Works, At
      <3>2. store[building.id] \in Nat /\ documents \in Nat /\ building.of \in Nat
        BY <2>1, Given, Kinds, Fields DEF Staged
      <3>3. family \in {"static", "runtime"}  BY Given DEF TypeOK
      <3> QED  BY <3>1, <3>2, <3>3 DEF Verified, Static
    <2>3. Staged'  BY <1>1, <2>1 DEF Staged
    <2> QED  BY <1>1, <1>3, <2>1, <2>2, <2>3 DEF Works, At, Staged
  <1>8. LeadersStep(c)
    <2>1. Readable  BY <1>1, <1>4, ReadersSpared
    <2> QED  BY <1>1, <1>2, <1>4, <2>1 DEF LeadersStep, Outlook
  <1> HIDE DEF p
  <1> QED  BY <1>1, <1>2, <1>6, <1>7, <1>8, LeaderGoesOn, LeaderKnows

\* The manifest that names the new build, made from what was read of the old one.
LEMMA Renewed ==
    ASSUME Safe, NEW c \in Clients, At(c, "publish"), NEW state,
           state = manifest \/ (state.build = NoBuild /\ state.obsolete = {})
    PROVE  LET new == NewManifest(state)
           IN  /\ new \in ManifestSet /\ new.build = building.id /\ new.of = building.of
               /\ building.id \in Builds /\ building.id # manifest.build
               /\ store[building.id] = building.of /\ building.id \notin new.obsolete
               /\ new.obsolete = Replaced(state) /\ Replaced(manifest) \subseteq Builds
               /\ manifest.obsolete \subseteq Replaced(manifest)
               /\ manifest.build \in Replaced(manifest) \cup {NoBuild}
               /\ manifest.of <= building.of /\ building.safe = {} /\ building.kept = {}
  <1> DEFINE new == NewManifest(state)
  <1>1. new.build = building.id /\ new.of = building.of /\ new.obsolete = Replaced(state)
    BY DEF NewManifest
  <1>2. /\ Staged /\ store[building.id] = building.of /\ manifest.of <= building.of
        /\ building.safe = {} /\ building.kept = {}
    BY Given DEF Works, At
  <1>3. manifest.obsolete \subseteq Builds /\ manifest.build \in Builds \cup {NoBuild}
        /\ NoBuild \notin Builds /\ building.of \in Revisions
    BY Given, Kinds, Fields
  <1>4. /\ Replaced(manifest) \subseteq Builds /\ building.id \notin Replaced(manifest)
        /\ manifest.obsolete \subseteq Replaced(manifest)
        /\ manifest.build \in Replaced(manifest) \cup {NoBuild}
    BY <1>2, <1>3 DEF Replaced, Staged
  <1>5. Replaced(state) \subseteq Replaced(manifest)  BY DEF Replaced
  <1>6. new \in ManifestSet
    BY <1>2, <1>3, <1>4, <1>5 DEF NewManifest, ManifestSet, Staged
  <1> HIDE DEF new
  <1> QED  BY <1>1, <1>2, <1>4, <1>5, <1>6 DEF Staged, new

\* A manifest that is replaced, or is not because of an error.
LEMMA PublishingStep ==
    ASSUME Safe, NEW c \in Clients, At(c, "publish"), NEW p \in {"sweep", "unstage"}, Go(c, p),
           NEW state, state = manifest \/ (state.build = NoBuild /\ state.obsolete = {}),
           \/ /\ manifest' = NewManifest(state)
              /\ orphans' = orphans \cup (Replaced(manifest) \ Replaced(state))
           \/ manifest' = manifest /\ broken' = broken /\ orphans' = orphans,
           p = "sweep" => manifest' = NewManifest(state) /\ broken' = FALSE,
           p = "unstage" /\ manifest' # manifest => broken' = TRUE /\ troubles' > 0,
           manifest' # manifest => broken' \in BOOLEAN,
           troubles' \in 0 .. MaxTroubles, troubles' >= troubles,
           family' = family, documents' = documents, knowledge' = knowledge, store' = store,
           leader' = leader, building' = building, invalidating' = invalidating, cache' = cache
    PROVE  Safe'
  <1> DEFINE new == NewManifest(state)
  <1>0. /\ new \in ManifestSet /\ new.build = building.id /\ new.of = building.of
        /\ building.id \in Builds /\ building.id # manifest.build
        /\ store[building.id] = building.of /\ building.id \notin new.obsolete
        /\ new.obsolete = Replaced(state) /\ Replaced(manifest) \subseteq Builds
        /\ manifest.obsolete \subseteq Replaced(manifest)
        /\ manifest.build \in Replaced(manifest) \cup {NoBuild}
        /\ manifest.of <= building.of /\ building.safe = {} /\ building.kept = {}
    BY Renewed
  <1> HIDE DEF new
  <1>1. client[c].at \in BuildSteps /\ client[c].at \in LeaderSteps /\ p \in LeaderSteps
    BY DEF At, BuildSteps, LeaderSteps
  <1>2. leader = c /\ Nobody \notin Clients  BY <1>1, LeaderIs, Given, Kinds
  <1>3. client' \in [Clients -> ClientSet] /\ client'[c].at = p  BY <1>1, Gone
  <1>4. troubles' \in Nat /\ troubles \in Nat  BY Given, Kinds DEF TypeOK
  <1>5. /\ manifest' \in ManifestSet /\ broken' \in BOOLEAN /\ new # manifest
        /\ orphans' \subseteq Builds
    <2>1. new # manifest  BY <1>0
    <2> QED  BY <1>0, <2>1, Given, Kinds DEF TypeOK, new
  <1>6. TypeOK'
    BY <1>2, <1>3, <1>5, Given, Kinds, TypesKept DEF TypeOK
  <1>7. CASE manifest' = manifest
    <2>1. p = "unstage" /\ broken' = broken /\ orphans' = orphans  BY <1>5, <1>7 DEF new
    <2>2. Shared'
      <3>1. building'.of <= documents /\ building'.safe \subseteq manifest.obsolete
            /\ building'.kept \subseteq manifest.obsolete
        BY Given DEF Bounded, Listed
      <3> QED  BY <1>2, <1>4, <1>6, <1>7, <2>1, <3>1, SharedStays
    <2>3. Works(c)'  BY <1>0, <1>3, <1>7, <2>1 DEF Works, At
    <2>4. Readable  BY <1>4, <1>7, ReadersSpared
    <2>5. LeadersStep(c)  BY <1>2, <1>4, <1>7, <2>4 DEF LeadersStep, Outlook
    <2> QED  BY <1>1, <1>2, <2>2, <2>3, <2>5, LeaderGoesOn, LeaderKnows
  <1>8. CASE manifest' = new /\ orphans' = orphans \cup (Replaced(manifest) \ Replaced(state))
    <2>1. p = "sweep" => broken' = FALSE  OBVIOUS
    <2>2. p = "unstage" => broken' /\ troubles' > 0  BY <1>5, <1>8
    <2>3. Shared'
      <3>1. Listed'  BY <1>0, <1>2, <1>8, Given DEF Listed
      <3>2. Bounded'
        <4>1. building.of <= documents  BY Given DEF Bounded
        <4> QED  BY <1>0, <1>8, <2>1, <2>2, <4>1 DEF Bounded
      <3>3. Holds'  BY <1>0, <1>8 DEF Holds
      <3>4. NothingForgotten'
        <4>1. NothingForgotten /\ NoBuild \notin Existing
          BY Given, Kinds DEF Safe, Shared, Existing
        <4> QED  BY <1>0, <1>8, <4>1 DEF NothingForgotten, Existing
      <3> QED  BY <1>6, <3>1, <3>2, <3>3, <3>4 DEF Shared
    <2>4. Works(c)'  BY <1>0, <1>3, <1>8, <2>2 DEF Works, At
    <2>5. Readable  BY <1>0, <1>4, <1>8, ReadersSpared
    <2>6. Outlook
      <3>1. building.of <= documents /\ manifest.of <= building.of
        BY <1>0, Given DEF Bounded
      <3>2. building.of \in Nat /\ documents \in Nat /\ manifest.of \in Nat
        BY Given, Kinds, Fields
      <3> QED  BY <1>0, <1>8, <3>1, <3>2 DEF Outlook
    <2>7. LeadersStep(c)  BY <1>2, <1>4, <2>5, <2>6 DEF LeadersStep
    <2> QED  BY <1>1, <1>2, <2>3, <2>4, <2>7, LeaderGoesOn, LeaderKnows
  <1> QED  BY <1>7, <1>8 DEF new

LEMMA PublishSteps ==
    ASSUME Safe, NEW c \in Clients,
           PublishRaises(c) \/ \E state : StateRead(state) /\ Publish(c, state)
    PROVE  Safe'
  <1>1. ASSUME NEW state, StateRead(state), Publish(c, state)
        PROVE  Safe'
    <2>1. /\ troubles' \in 0 .. MaxTroubles /\ troubles' >= troubles
          /\ state = manifest \/ (state.build = NoBuild /\ state.obsolete = {})
      BY <1>1, StateIs DEF Counts
    <2>2. /\ At(c, "publish") /\ Go(c, "sweep") /\ manifest' = NewManifest(state)
          /\ broken' = FALSE /\ orphans' = orphans \cup (Replaced(manifest) \ Replaced(state))
          /\ family' = family /\ documents' = documents /\ knowledge' = knowledge
          /\ store' = store /\ leader' = leader
          /\ building' = building /\ invalidating' = invalidating /\ cache' = cache
      BY <1>1 DEF Publish, corpus
    <2> QED  BY <2>1, <2>2, PublishingStep
  <1>2. CASE PublishRaises(c)
    <2>1. /\ At(c, "publish") /\ Go(c, "unstage")
          /\ \/ manifest' = manifest /\ broken' = broken
             \/ manifest' = NewManifest(manifest) /\ broken' = TRUE
          /\ family' = family /\ documents' = documents /\ knowledge' = knowledge
          /\ store' = store /\ leader' = leader
          /\ building' = building /\ invalidating' = invalidating /\ cache' = cache
          /\ orphans' = orphans
      BY <1>2 DEF PublishRaises, corpus
    <2>2. troubles' \in 0 .. MaxTroubles /\ troubles' >= troubles /\ troubles' > 0
      BY <1>2, OneError DEF PublishRaises, Counts
    <2>3. orphans' = orphans \cup (Replaced(manifest) \ Replaced(manifest))  BY <2>1
    <2> QED  BY <2>1, <2>2, <2>3, PublishingStep
  <1> QED  BY <1>1, <1>2

LEMMA SweepStep ==
    ASSUME Safe, NEW c \in Clients, NEW state, StateRead(state), Sweep(c, state)
    PROVE  Safe'
  <1>1. /\ client[c].at = "sweep" /\ Go(c, "delete") /\ "delete" \in LeaderSteps
        /\ client[c].at \in BuildSteps /\ client[c].at \in LeaderSteps
        /\ family' = family /\ documents' = documents /\ knowledge' = knowledge
        /\ store' = store /\ manifest' = manifest
        /\ leader' = leader /\ invalidating' = invalidating
        /\ cache' = {} /\ broken' = broken
        /\ orphans' = orphans \cup (manifest.obsolete \ state.obsolete)
    BY DEF Sweep, At, LeaderSteps, BuildSteps, corpus
  <1>2. leader = c /\ Nobody \notin Clients  BY <1>1, LeaderIs, Given, Kinds
  <1>3. client' \in [Clients -> ClientSet] /\ client'[c].at = "delete"  BY <1>1, Gone
  <1>4. /\ troubles' \in 0 .. MaxTroubles /\ troubles' \in Nat /\ troubles' >= troubles
        /\ state.obsolete \subseteq manifest.obsolete /\ manifest.obsolete \subseteq Builds
    BY Given, Kinds, Fields, StateIs DEF Counts
  <1>5. Unread(state) \subseteq state.obsolete
    BY DEF Unread
  <1>6. /\ building'.id = building.id /\ building'.of = building.of
        /\ building'.safe = Unread(state) /\ building'.kept = state.obsolete \ Unread(state)
        /\ building' \in BuildingSet
    BY <1>4, <1>5, Given, Kinds DEF Sweep, BuildingSet
  <1>7. TypeOK'
    <2>1. orphans' \subseteq Builds /\ cache' \subseteq Answers  BY <1>1, <1>4, Given DEF TypeOK
    <2> QED  BY <1>1, <1>3, <1>4, <1>6, <2>1, Given, Kinds, TypesKept DEF TypeOK
  <1>8. Shared'
    <2>1. Listed'  BY <1>1, <1>2, <1>4, <1>5, <1>6, Given DEF Listed
    <2>2. Bounded'
      <3>1. troubles \in Nat  BY Given, Kinds
      <3> QED  BY <1>1, <1>4, <1>6, <3>1, Given DEF Bounded
    <2>3. Holds'  BY <1>1, Given DEF Holds
    <2>4. NothingForgotten'
      <3>1. NothingForgotten  BY DEF Safe, Shared
      <3> QED  BY <1>1, <1>6, <3>1 DEF NothingForgotten, Existing
    <2> QED  BY <1>7, <2>1, <2>2, <2>3, <2>4 DEF Shared
  <1>9. manifest.build = building.id /\ manifest.of = building.of /\ building.id \in Builds
    BY <1>1, Given DEF Works
  <1>10. Works(c)'
    <2>1. manifest'.obsolete \subseteq building'.safe \cup building'.kept \cup orphans'
      BY <1>1, <1>5, <1>6
    <2> QED  BY <1>1, <1>3, <1>6, <1>9, <2>1 DEF Works, At
  <1>11. LeadersStep(c)
    <2>1. Readable  BY <1>1, <1>6, <1>9 DEF Readable, Spared, Unread, Read
    <2> QED  BY <1>1, <1>2, <1>4, <2>1 DEF LeadersStep, Outlook
  <1> QED  BY <1>1, <1>2, <1>6, <1>8, <1>10, <1>11, LeaderGoesOn, LeaderKnows

\* The collections a leader deletes are read by nobody and named no more.
LEMMA DeletingStep ==
    ASSUME Safe, NEW c \in Clients, At(c, "delete"), Finish(c, TRUE),
           NEW gone \in SUBSET building.safe, store' = Without(gone),
           \/ manifest' = manifest
           \/ manifest' =
                  [manifest EXCEPT !.obsolete = building.kept \cup (building.safe \ gone)],
           \/ orphans' = orphans
           \/ orphans' = orphans \ gone,
           troubles' \in 0 .. MaxTroubles, troubles' >= troubles,
           family' = family, documents' = documents /\ knowledge' = knowledge,
           invalidating' = invalidating,
           cache' = cache, broken' = broken
    PROVE  Safe'
  <1>1. client[c].at \in BuildSteps /\ client[c].at \in LeaderSteps
    BY DEF At, BuildSteps, LeaderSteps
  <1>2. leader = c /\ Nobody \notin Clients  BY <1>1, LeaderIs, Given, Kinds
  <1>3. /\ client' \in [Clients -> ClientSet] /\ leader' = Nobody /\ building' = NotBuilding
    BY Finished
  <1>4. /\ manifest.build = building.id /\ manifest.of = building.of /\ building.id \in Builds
        /\ gone \subseteq manifest.obsolete /\ manifest.build \notin gone /\ gone \subseteq Builds
    BY Given, Fields DEF Works, At, Listed
  <1>5. /\ manifest' \in ManifestSet /\ manifest'.build = manifest.build
        /\ manifest'.of = manifest.of /\ manifest'.obsolete \subseteq manifest.obsolete
        /\ manifest.obsolete \ gone \subseteq manifest'.obsolete \cup orphans
    <2>1. /\ building.kept \subseteq manifest.obsolete /\ building.safe \subseteq manifest.obsolete
          /\ manifest.obsolete \subseteq building.safe \cup building.kept \cup orphans
      BY Given DEF Listed, Works
    <2> QED  BY <2>1, Given, Kinds DEF ManifestSet
  <1>6. /\ store' \in [Builds -> Revisions]
        /\ \A b \in Builds : store'[b] = IF b \in gone THEN 0 ELSE store[b]
    BY Given, Kinds DEF Without
  <1>7. troubles' \in Nat /\ troubles \in Nat  BY Given, Kinds DEF TypeOK
  <1>8. TypeOK'
    <2>1. orphans' \subseteq Builds  BY Given DEF TypeOK
    <2>2. leader' \in Clients \cup {Nobody} /\ building' \in BuildingSet
      BY <1>3, NoBuilding
    <2> QED  BY <1>3, <1>5, <1>6, <2>1, <2>2, Given, TypesKept DEF TypeOK
  <1>9. Shared'
    <2>1. Listed'  BY <1>3, <1>5, NoBuilding, Given DEF Listed
    <2>2. Bounded'
      <3>1. documents \in Nat  BY Given, Kinds
      <3> QED  BY <1>3, <1>5, <1>7, <3>1, NoBuilding, Given DEF Bounded
    <2>3. Holds'  BY <1>4, <1>5, <1>6, Given DEF Holds
    <2>4. NothingForgotten'
      <3>1. NothingForgotten  BY DEF Safe, Shared
      <3>2. \A b \in Builds : store'[b] # 0 => b \notin gone /\ store[b] # 0  BY <1>6
      <3> QED  BY <1>4, <1>5, <3>1, <3>2 DEF NothingForgotten, Existing
    <2> QED  BY <1>8, <2>1, <2>2, <2>3, <2>4 DEF Shared
  <1>10. LeadersStep(c)
    <2>1. ASSUME NEW d \in Clients, At(d, "read") PROVE Spared(client[d].held)
      <3>1. client[d].held \notin building.safe  BY <2>1, Given DEF Reads
      <3>2. NoBuild \notin Builds  BY Given, Kinds
      <3> QED  BY <1>3, <1>6, <3>1, <3>2, NoBuilding DEF Spared
    <2> QED  BY <1>2, <1>3, <1>5, <1>7, <2>1 DEF LeadersStep, Readable, Outlook
  <1> QED  BY <1>1, <1>4, <1>5, <1>9, <1>10, LeaderFinishes

LEMMA DeleteSteps ==
    ASSUME Safe, NEW c \in Clients, Delete(c) \/ DeleteUnlisted(c)
    PROVE  Safe'
  <1>1. troubles \in 0 .. MaxTroubles /\ MaxTroubles \in Nat  BY Given
  <1>2. CASE Delete(c)
    <2>1. PICK gone \in SUBSET building.safe :
              /\ store' = Without(gone)
              /\ \/ gone = building.safe /\ UNCHANGED troubles
                 \/ gone # building.safe /\ Trouble
              /\ manifest' =
                     [manifest EXCEPT !.obsolete = building.kept \cup (building.safe \ gone)]
              /\ orphans' = orphans \ gone
      BY <1>2 DEF Delete, corpus
    <2>2. troubles' \in 0 .. MaxTroubles /\ troubles' >= troubles  BY <1>1, <2>1 DEF Trouble
    <2>3. /\ At(c, "delete") /\ Finish(c, TRUE)
          /\ family' = family /\ documents' = documents /\ knowledge' = knowledge
          /\ invalidating' = invalidating /\ cache' = cache /\ broken' = broken
      BY <1>2 DEF Delete, corpus
    <2> QED  BY <2>1, <2>2, <2>3, DeletingStep
  <1>3. CASE DeleteUnlisted(c)
    <2>1. troubles' \in 0 .. MaxTroubles /\ troubles' >= troubles
      BY <1>1, <1>3 DEF DeleteUnlisted, Trouble, corpus
    <2>2. /\ At(c, "delete") /\ Finish(c, TRUE)
          /\ family' = family /\ documents' = documents /\ knowledge' = knowledge
          /\ invalidating' = invalidating /\ cache' = cache /\ broken' = broken
          /\ manifest' = manifest /\ orphans' = orphans /\ store' = Without(building.safe)
      BY <1>3 DEF DeleteUnlisted, corpus
    <2> QED  BY <2>1, <2>2, DeletingStep
  <1> QED  BY <1>2, <1>3

LEMMA UnstageStep ==
    ASSUME Safe, NEW c \in Clients, Unstage(c)
    PROVE  Safe'
  <1>1. /\ client[c].at = "unstage" /\ client[c].at \in LeaderSteps /\ Finish(c, FALSE)
        /\ family' = family /\ documents' = documents /\ knowledge' = knowledge
        /\ manifest' = manifest
        /\ invalidating' = invalidating /\ cache' = cache /\ broken' = broken
    BY DEF Unstage, At, LeaderSteps, corpus
  <1>2. leader = c /\ Nobody \notin Clients /\ NoBuild \notin Builds
    BY <1>1, LeaderIs, Given, Kinds
  <1>3. /\ client' \in [Clients -> ClientSet] /\ leader' = Nobody /\ building' = NotBuilding
    BY <1>1, Finished
  <1>4. building.id \in Builds /\ (manifest.build = building.id => broken)
    BY <1>1, Given DEF Works, At
  <1>5. troubles' \in 0 .. MaxTroubles /\ troubles' >= troubles /\ troubles \in Nat
    BY Given DEF Unstage, Trouble, corpus
  <1>6. troubles' \in Nat  BY <1>5
  <1>7. /\ store' \in [Builds -> Revisions]
        /\ \A b \in Builds : store'[b] = store[b] \/ (b = building.id /\ store'[b] = 0)
        /\ \/ store'[building.id] = 0 /\ orphans' = orphans
           \/ orphans' = orphans \cup {building.id}
    BY <1>4, Given, Kinds DEF Unstage, Without, corpus
  <1>8. TypeOK'
    <2>1. orphans' \subseteq Builds  BY <1>4, <1>7, Given DEF TypeOK
    <2>2. leader' \in Clients \cup {Nobody} /\ building' \in BuildingSet
      BY <1>3, NoBuilding
    <2> QED  BY <1>1, <1>3, <1>5, <1>7, <2>1, <2>2, Given, Kinds, TypesKept DEF TypeOK
  <1>9. Shared'
    <2>1. Listed'  BY <1>1, <1>3, NoBuilding, Given DEF Listed
    <2>2. Bounded'
      <3>1. documents \in Nat  BY Given, Kinds
      <3> QED  BY <1>1, <1>3, <1>5, <1>6, <3>1, NoBuilding, Given DEF Bounded
    <2>3. Holds'
      <3>1. manifest.build # NoBuild => manifest.build \in Builds  BY Given, Fields
      <3> QED  BY <1>1, <1>4, <1>7, <3>1, Given DEF Holds
    <2>4. NothingForgotten'
      <3>1. NothingForgotten  BY DEF Safe, Shared
      <3>2. \A b \in Builds : store'[b] # 0 => store[b] # 0  BY <1>7
      <3> QED  BY <1>1, <1>4, <1>7, <3>1, <3>2 DEF NothingForgotten, Existing
    <2> QED  BY <1>8, <2>1, <2>2, <2>3, <2>4 DEF Shared
  <1>10. LeadersStep(c)
    <2>1. ASSUME NEW d \in Clients, At(d, "read") PROVE Spared(client[d].held)
      <3>1. client[d].held \in Builds /\ client[d].held = building.id => troubles > 0
        BY <1>4, <2>1, Given DEF Reads, Bounded
      <3> QED  BY <1>2, <1>3, <1>5, <1>6, <1>7, <3>1, NoBuilding DEF Spared
    <2> QED  BY <1>1, <1>2, <1>3, <1>5, <1>6, <2>1 DEF LeadersStep, Readable, Outlook
  <1> QED  BY <1>1, <1>9, <1>10, LeaderFinishes

-----------------------------------------------------------------------------
(* Invalidations, edits and deaths.                                        *)

LEMMA DrainedStep ==
    ASSUME Safe, NEW c \in Clients, At(c, "drain"), \A b \in Existing : ~Read(b), Go(c, "purge"),
           Calm, troubles' = troubles
    PROVE  Safe'
  <1>1. /\ client[c].at \in LeaderSteps /\ "purge" \in LeaderSteps /\ "purge" \notin BuildSteps
        /\ family' = family /\ documents' = documents /\ knowledge' = knowledge
        /\ store' = store /\ manifest' = manifest
        /\ leader' = leader /\ building' = building /\ invalidating' = invalidating
        /\ cache' = cache /\ orphans' = orphans /\ broken' = broken /\ troubles' = troubles
    BY DEF At, LeaderSteps, BuildSteps, Calm, Stays
  <1>2. leader = c /\ Nobody \notin Clients  BY <1>1, LeaderIs, Given, Kinds
  <1>3. /\ client' \in [Clients -> ClientSet] /\ client'[c].at = "purge"
        /\ \A d \in Clients : d # c => client'[d] = client[d]
    BY <1>1, Gone
  <1>4. troubles' \in Nat /\ troubles' >= troubles  BY <1>1, Given, Kinds
  <1>5. TypeOK'  BY <1>1, <1>3, Given, Kinds, TypesKept DEF TypeOK
  <1>6. Shared'
    <2>1. building'.of <= documents /\ building'.safe \subseteq manifest.obsolete
          /\ building'.kept \subseteq manifest.obsolete
      BY <1>1, Given DEF Bounded, Listed
    <2> QED  BY <1>1, <1>2, <1>4, <1>5, <2>1, SharedStays
  <1>7. Works(c)'
    <2>1. family = "runtime" /\ invalidating /\ building = NotBuilding
      BY Given DEF Works, At
    <2>2. \A b \in Existing' : ~Read(b)'
      BY <1>1, <1>3 DEF Existing, Read, At
    <2> QED  BY <1>1, <1>3, <2>1, <2>2 DEF Works, At
  <1>8. LeadersStep(c)
    <2>1. Readable  BY <1>1, <1>4, ReadersSpared
    <2> QED  BY <1>1, <1>2, <1>4, <2>1 DEF LeadersStep, Outlook
  <1> QED  BY <1>1, <1>2, <1>6, <1>7, <1>8, LeaderGoesOn

\* The threads after an invalidation.
LEMMA Ended ==
    ASSUME Safe, NEW c \in Clients, InvalidationEnds(c)
    PROVE  /\ client' \in [Clients -> ClientSet] /\ client'[c] = Rest
           /\ \A d \in Clients : d # c => client'[d] = client[d]
           /\ leader' = Nobody /\ invalidating' = FALSE
  BY Given, RestRecord DEF InvalidationEnds

LEMMA InvalidationOver ==
    ASSUME Safe, NEW c \in Clients, InvalidationEnds(c), LeadersStep(c), building' = building,
           Shared'
    PROVE  Safe'
  <1>1. \A d \in Clients : d # c => Local(d)'
    BY Ended, OtherStays
  <1>2. Local(c)'
    <2>1. Leads(c)'  BY Ended, RestKnows, Given, Kinds DEF Leads
    <2> QED  BY <2>1, Ended, RestKnows DEF Local
  <1> QED  BY <1>1, <1>2 DEF Safe

LEMMA DrainStep ==
    ASSUME Safe, NEW c \in Clients, Drain(c)
    PROVE  Safe'
  <1>1. CASE (\A b \in Existing : ~Read(b)) /\ Go(c, "purge") /\ UNCHANGED <<leader, invalidating>>
    <2>1. Calm /\ troubles' = troubles  BY <1>1 DEF Drain, Calm, Stays, corpus
    <2> QED  BY <1>1, <2>1, DrainedStep DEF Drain, corpus
  <1>2. CASE InvalidationEnds(c)
    <2>1. /\ client[c].at = "drain" /\ client[c].at \in LeaderSteps
          /\ family' = family /\ documents' = documents /\ knowledge' = knowledge /\ store' = store
          /\ manifest' = manifest /\ building' = building /\ cache' = cache
          /\ orphans' = orphans /\ broken' = broken /\ troubles' = troubles
      BY DEF Drain, At, LeaderSteps, corpus
    <2>2. leader = c /\ building = NotBuilding  BY <2>1, LeaderIs, Given DEF Works
    <2>3. troubles' \in Nat /\ troubles' >= troubles  BY <2>1, Given, Kinds
    <2>4. TypeOK'  BY <1>2, <2>1, Ended, Given, Kinds, TypesKept DEF TypeOK
    <2>5. Shared'
      <3>1. building'.of <= documents /\ building'.safe \subseteq manifest.obsolete
          /\ building'.kept \subseteq manifest.obsolete
        BY <2>1, Given DEF Bounded, Listed
      <3> QED  BY <2>1, <2>2, <2>3, <2>4, <3>1, SharedStays
    <2>6. LeadersStep(c)
      <3>1. Readable  BY <2>1, <2>3, ReadersSpared
      <3> QED  BY <1>2, <2>1, <2>2, <2>3, <3>1, Ended DEF LeadersStep, Outlook
    <2> QED  BY <1>2, <2>1, <2>5, <2>6, InvalidationOver
  <1> QED  BY <1>1, <1>2 DEF Drain, corpus

\* What an invalidation deletes is read by nobody.
LEMMA PurgingStep ==
    ASSUME Safe, NEW c \in Clients, At(c, "purge"), InvalidationEnds(c),
           store' \in [Builds -> Revisions],
           \A b \in Builds : store'[b] \in {0, store[b]},
           Holds', NothingForgotten', manifest' \in ManifestSet,
           manifest'.of <= documents, manifest'.build \notin manifest'.obsolete,
           broken' \in BOOLEAN, broken' => troubles' > 0, orphans' \subseteq orphans,
           cache' \subseteq cache, troubles' \in 0 .. MaxTroubles, troubles' >= troubles,
           family' = family, documents' = documents /\ knowledge' = knowledge, building' = building
    PROVE  Safe'
  <1>1. client[c].at = "purge" /\ client[c].at \in LeaderSteps
    BY DEF At, LeaderSteps
  <1>2. leader = c /\ building = NotBuilding /\ (\A b \in Existing : ~Read(b))
        /\ family = "runtime"
    BY <1>1, LeaderIs, Given DEF Works, At
  <1>3. troubles' \in Nat /\ NoBuild \notin Builds  BY Given, Kinds
  <1>4. TypeOK'
    <2>1. /\ leader' \in Clients \cup {Nobody} /\ invalidating' \in BOOLEAN
          /\ client' \in [Clients -> ClientSet]
      BY Ended
    <2>2. orphans' \subseteq Builds /\ cache' \subseteq Answers
          /\ building' \in BuildingSet
      BY Given, Kinds DEF TypeOK
    <2> QED  BY <2>1, <2>2, TypesKept
  <1>5. Shared'
    <2>1. Listed'  BY <1>2, NoBuilding DEF Listed
    <2>2. Bounded'
      <3>1. building.of <= documents  BY Given DEF Bounded
      <3> QED  BY <3>1 DEF Bounded
    <2> QED  BY <1>4, <2>1, <2>2 DEF Shared
  <1>6. LeadersStep(c)
    <2>1. ASSUME NEW d \in Clients, At(d, "read") PROVE Spared(client[d].held)
      <3>1. client[d].held \in Builds => store[client[d].held] = 0
        BY <1>2, <2>1 DEF Read, Existing
      <3> QED  BY <1>2, <1>3, <3>1, NoBuilding DEF Spared
    <2>2. Outlook  BY <1>2 DEF Outlook, Static
    <2> QED  BY <1>2, <1>3, <2>1, <2>2, Ended DEF LeadersStep, Readable
  <1> QED  BY <1>5, <1>6, InvalidationOver

LEMMA PurgeAllStep ==
    ASSUME Safe, NEW c \in Clients, PurgeAll(c)
    PROVE  Safe'
  <1>1. troubles \in 0 .. MaxTroubles /\ MaxTroubles \in Nat  BY Given
  <1>2. /\ At(c, "purge") /\ InvalidationEnds(c)
        /\ family' = family /\ documents' = documents /\ knowledge' = knowledge
        /\ building' = building
    BY DEF PurgeAll, corpus
  <1>3. CASE /\ store' = [b \in Builds |-> 0] /\ manifest' = NoManifest /\ cache' = {}
             /\ orphans' = {} /\ broken' = FALSE /\ UNCHANGED troubles
    <2>1. 0 \in Revisions /\ 0 <= documents  BY Given, Kinds
    <2>2. /\ manifest' \in ManifestSet /\ manifest'.build = NoBuild /\ manifest'.of = 0
          /\ manifest'.obsolete = {}
      BY <1>3, <2>1 DEF NoManifest, ManifestSet
    <2>3. Holds' /\ NothingForgotten'
      BY <1>3, <2>2 DEF Holds, NothingForgotten, Existing
    <2>4. store' \in [Builds -> Revisions] /\ \A b \in Builds : store'[b] \in {0, store[b]}
      BY <1>3, <2>1
    <2>5. troubles' \in 0 .. MaxTroubles /\ troubles' >= troubles  BY <1>1, <1>3
    <2> QED  BY <1>2, <1>3, <2>1, <2>2, <2>3, <2>4, <2>5, PurgingStep
  <1>4. ASSUME Trouble, manifest' = manifest, cache' = cache,
               NEW resists \in (SUBSET Existing) \ {{}},
               store' = Without(Existing \ resists),
               orphans' = orphans \cap resists,
               broken' = (broken \/ manifest.build \in Existing \ resists)
        PROVE  Safe'
    <2>1. /\ store' \in [Builds -> Revisions]
          /\ \A b \in Builds : store'[b] = IF b \in Existing \ resists THEN 0 ELSE store[b]
      BY <1>4, Given, Kinds DEF Without
    <2>2. troubles' \in 0 .. MaxTroubles /\ troubles' >= troubles /\ troubles' > 0
      BY <1>1, <1>4 DEF Trouble
    <2>3. Holds'
      <3>1. manifest.build # NoBuild => manifest.build \in Builds  BY Given, Fields
      <3> QED  BY <1>4, <2>1, <3>1, Given DEF Holds
    <2>4. NothingForgotten'
      <3>1. NothingForgotten  BY DEF Safe, Shared
      <3>2. \A b \in Builds : store'[b] # 0 => b \in resists /\ b \in Existing
        BY <2>1 DEF Existing
      <3> QED  BY <1>2, <1>4, <3>1, <3>2 DEF NothingForgotten, Existing
    <2>5. /\ manifest' \in ManifestSet /\ manifest'.of <= documents
          /\ manifest'.build \notin manifest'.obsolete /\ broken' \in BOOLEAN
      BY <1>4, Given, Kinds DEF Bounded, Listed, TypeOK
    <2> QED  BY <1>2, <1>4, <2>1, <2>2, <2>3, <2>4, <2>5, PurgingStep
  <1> QED  BY <1>3, <1>4 DEF PurgeAll, corpus

LEMMA EditStep ==
    ASSUME Safe, Edit
    PROVE  Safe'
  <1>1. /\ documents < MaxRevision /\ documents' = documents + 1
        /\ family' = family /\ store' = store /\ manifest' = manifest /\ leader' = leader
        /\ building' = building /\ invalidating' = invalidating /\ cache' = cache
        /\ orphans' = orphans /\ broken' = broken /\ troubles' = troubles
    BY DEF Edit, index
  <1>2. TypeOK /\ Listed /\ Bounded /\ Holds /\ NothingForgotten  BY DEF Safe, Shared
  <1>3. /\ documents \in Nat /\ documents' \in 1 .. MaxRevision /\ documents <= documents'
        /\ knowledge' \in 1 .. MaxRevision
        /\ building.of \in Nat /\ manifest.of \in Nat
    BY <1>1, <1>2, Kinds, Fields DEF Edit
  <1>4. ASSUME NEW d \in Clients
        PROVE  /\ client'[d] \in ClientSet
               /\ client'[d].at = client[d].at /\ client'[d].key = client[d].key
               /\ client'[d].seen = client[d].seen /\ client'[d].held = client[d].held
               /\ client'[d].goal = client[d].goal
               /\ client'[d].moved = (Static /\ client[d].at # "idle")
    <2> DEFINE m == Static /\ client[d].at # "idle"
               q == Edited(client[d], m)
    <2>1. client'[d] = q  BY DEF Edit, Edited, Static, At
    <2>2. m \in BOOLEAN  OBVIOUS
    <2> HIDE DEF m
    <2>3. /\ q \in ClientSet /\ q.at = client[d].at /\ q.key = client[d].key
          /\ q.seen = client[d].seen /\ q.held = client[d].held /\ q.goal = client[d].goal
          /\ q.moved = m
      BY <2>2, Given, EditedRecord
    <2> HIDE DEF q
    <2>4. client'[d].moved = m  BY <2>1, <2>3
    <2>5. client'[d].moved = (Static /\ client[d].at # "idle")  BY <2>4 DEF m
    <2> QED  BY <2>1, <2>3, <2>5
  <1>5. client' \in [Clients -> ClientSet]
    <2>1. client' = [d \in Clients |-> client'[d]]  BY DEF Edit
    <2> QED  BY <1>4, <2>1
  <1>6. TypeOK'
    BY <1>1, <1>2, <1>3, <1>5 DEF TypeOK, ClientSet
  <1>7. Shared'
    <2>1. Listed' /\ Holds' /\ NothingForgotten'
      BY <1>1, <1>2 DEF Listed, Holds, NothingForgotten, Existing
    <2>2. Bounded'  BY <1>1, <1>2, <1>3 DEF Bounded
    <2> QED  BY <1>6, <2>1, <2>2 DEF Shared
  <1>8. \A b : Read(b)' <=> Read(b)  BY <1>4 DEF Read, At
  <1>9. ASSUME NEW d \in Clients PROVE Local(d)'
    <2>1. Leads(d) /\ Works(d) /\ Reads(d) /\ Knows(d)  BY Given
    <2>2. Leads(d)' /\ Reads(d)'
      BY <1>1, <1>4, <2>1 DEF Leads, Reads, At
    <2>3. Works(d)'
      <3>1. At(d, "verify") /\ Static => store[building.id] <= documents'
        <4>1. At(d, "verify") => building.id \in Builds  BY <2>1 DEF Works, Staged, At
        <4>2. At(d, "verify") => store[building.id] \in Nat  BY <1>2, <4>1, Kinds
        <4> QED  BY <1>1, <1>3, <2>1, <4>2 DEF Works
      <3>2. Staged' <=> Staged  BY <1>1 DEF Staged
      <3>3. (\A b \in Existing : ~Read(b)) => (\A b \in Existing' : ~Read(b)')
        BY <1>1, <1>8 DEF Existing
      <3> QED  BY <1>1, <1>4, <2>1, <3>1, <3>2, <3>3 DEF Works, At, Static
    <2>4. Knows(d)'
      BY <1>1, <1>4, <2>1 DEF Knows, At, Static, BuildSteps
    <2> QED  BY <2>2, <2>3, <2>4 DEF Local
  <1> QED  BY <1>7, <1>9 DEF Safe

LEMMA DieStep ==
    ASSUME Safe, Die
    PROVE  Safe'
  <1>1. /\ leader' = Nobody /\ building' = NotBuilding /\ invalidating' = FALSE /\ cache' = {}
        /\ client' = [c \in Clients |-> Rest]
        /\ family' = family /\ documents' = documents /\ knowledge' = knowledge
        /\ store' = store /\ manifest' = manifest
        /\ orphans' = orphans \cup ({building.id} \ {NoBuild, manifest.build})
        /\ broken' = (broken \/ \E c \in Clients : At(c, "purge"))
        /\ Trouble
    BY DEF Die, corpus
  <1>2. TypeOK /\ Listed /\ Bounded /\ Holds /\ NothingForgotten  BY DEF Safe, Shared
  <1>3. /\ troubles' \in 0 .. MaxTroubles /\ troubles' > 0 /\ troubles' \in Nat
    BY <1>1, <1>2, Kinds DEF Trouble, TypeOK
  <1>4. TypeOK'
    <2>1. client' \in [Clients -> ClientSet]  BY <1>1, RestRecord
    <2>2. orphans' \subseteq Builds  BY <1>1, <1>2, Fields DEF TypeOK
    <2>3. building' \in BuildingSet  BY <1>1, NoBuilding
    <2>4. broken' \in BOOLEAN  BY <1>1, <1>2 DEF TypeOK
    <2> QED  BY <1>1, <1>2, <1>3, <2>1, <2>2, <2>3, <2>4, Kinds, TypesKept DEF TypeOK
  <1>5. Shared'
    <2>1. Listed'  BY <1>1, <1>2, NoBuilding DEF Listed
    <2>2. Bounded'  BY <1>1, <1>2, <1>3, Kinds, NoBuilding DEF Bounded
    <2>3. Holds'  BY <1>1, <1>2 DEF Holds
    <2>4. NothingForgotten'
      <3>1. NoBuild \notin Existing  BY <1>2, Kinds DEF Existing
      <3> QED  BY <1>1, <1>2, <3>1 DEF NothingForgotten, Existing
    <2> QED  BY <1>4, <2>1, <2>2, <2>3, <2>4 DEF Shared
  <1>6. ASSUME NEW d \in Clients PROVE Local(d)'
    <2>1. client'[d] = Rest  BY <1>1
    <2>2. Leads(d)'  BY <1>1, <1>2, <2>1, RestKnows, Kinds DEF Leads
    <2> QED  BY <2>1, <2>2, RestKnows DEF Local
  <1> QED  BY <1>5, <1>6 DEF Safe

LEMMA NothingHappens ==
    ASSUME Safe, UNCHANGED vars
    PROVE  Safe'
  <1>1. /\ family' = family /\ documents' = documents /\ knowledge' = knowledge
        /\ store' = store /\ manifest' = manifest
        /\ leader' = leader /\ building' = building /\ invalidating' = invalidating
        /\ cache' = cache /\ client' = client /\ orphans' = orphans /\ broken' = broken
        /\ troubles' = troubles
    BY DEF vars
  <1>2. Shared'
    BY <1>1 DEF Safe, Shared, TypeOK, Listed, Bounded, Holds, NothingForgotten, Existing
  <1>3. ASSUME NEW d \in Clients PROVE Local(d)'
    <2>1. Leads(d) /\ Works(d) /\ Reads(d) /\ Knows(d)  BY Given
    <2>2. Leads(d)' /\ Reads(d)' /\ Knows(d)'
      BY <1>1, <2>1 DEF Leads, Reads, Knows, At, Static
    <2>3. Works(d)'
      BY <1>1, <2>1 DEF Works, At, Static, Staged, Existing, Read
    <2> QED  BY <2>2, <2>3 DEF Local
  <1> QED  BY <1>2, <1>3 DEF Safe

-----------------------------------------------------------------------------

LEMMA SafeAtFirst ==
    ASSUME Init
    PROVE  Safe
  <1>1. /\ documents = 1 /\ knowledge = 1 /\ store = [b \in Builds |-> 0] /\ manifest = NoManifest
        /\ leader = Nobody /\ building = NotBuilding /\ invalidating = FALSE /\ cache = {}
        /\ client = [c \in Clients |-> Rest] /\ orphans = {} /\ broken = FALSE /\ troubles = 0
        /\ family \in {"static", "runtime"}
    BY DEF Init
  <1>2. /\ 0 \in Revisions /\ 1 \in 1 .. MaxRevision /\ 0 \in 0 .. MaxTroubles
        /\ Nobody \notin Clients
    BY RagAssumption DEF Revisions
  <1>3. /\ manifest \in ManifestSet /\ manifest.build = NoBuild /\ manifest.of = 0
        /\ manifest.obsolete = {}
    BY <1>1, <1>2 DEF NoManifest, ManifestSet
  <1>4. TypeOK
    <2>1. client \in [Clients -> ClientSet] /\ building \in BuildingSet
      BY <1>1, RestRecord, NoBuilding
    <2> QED  BY <1>1, <1>2, <1>3, <2>1 DEF TypeOK, ClientSet, BuildingSet, ManifestSet
  <1>5. Shared
    BY <1>1, <1>3, <1>4, NoBuilding
       DEF Shared, Listed, Bounded, Holds, NothingForgotten, Existing
  <1>6. ASSUME NEW d \in Clients PROVE Local(d)
    <2>1. client[d].at = "idle" /\ client[d].goal = "idle"  BY <1>1, RestRecord
    <2> QED
      BY <1>1, <1>2, <2>1
         DEF Local, Leads, Works, Reads, Knows, At, LeaderSteps, BuildSteps
  <1> QED  BY <1>5, <1>6 DEF Safe

LEMMA SafeIsKept ==
    ASSUME Safe, [Next]_vars
    PROVE  Safe'
  <1>1. CASE Edit  BY <1>1, EditStep
  <1>2. CASE Die  BY <1>2, DieStep
  <1>3. ASSUME NEW c \in Clients,
               Search(c) \/ Rebuild(c) \/ Invalidate(c) \/ SearchRaises(c) \/ LoadRaises(c)
               \/ PublishRaises(c) \/ DeleteUnlisted(c)
        PROVE  Safe'
    BY <1>3, BeginSteps, InvalidateStep, SearchRaisesStep, LoadSteps, PublishSteps, DeleteSteps
  <1>4. ASSUME NEW c \in Clients, NEW state, StateRead(state), WithState(c, state)
        PROVE  Safe'
    BY <1>4, CompareStep, SnapshotStep, PublishSteps, SweepStep DEF WithState
  <1>5. ASSUME NEW c \in Clients, Step(c) \/ Unreadable(c)
        PROVE  Safe'
    <2>1. CASE Key(c) \/ Query(c) \/ Remember(c)
      BY <2>1, KeyStep, QueryStep, RememberStep
    <2>2. CASE Enter(c) \/ Load(c) \/ Verify(c) \/ Delete(c)
      BY <2>2, EnterStep, LoadSteps, VerifyStep, DeleteSteps
    <2>3. CASE Unstage(c) \/ Drain(c) \/ PurgeAll(c)
      BY <2>3, UnstageStep, DrainStep, PurgeAllStep
    <2>4. CASE WithState(c, manifest) /\ UNCHANGED troubles
      BY <1>4, <2>4 DEF StateRead
    <2>5. CASE Unreadable(c)
      BY <1>4, <2>5 DEF Unreadable, StateRead
    <2> QED  BY <1>5, <2>1, <2>2, <2>3, <2>4, <2>5 DEF Step
  <1>6. CASE UNCHANGED vars  BY <1>6, NothingHappens
  <1> QED  BY <1>1, <1>2, <1>3, <1>4, <1>5, <1>6 DEF Next

-----------------------------------------------------------------------------
(* The answers kept.                                                       *)

Sweeping == \E d \in Clients : At(d, "sweep")

\* No key is ahead of the documents.
KeysBounded ==
    /\ knowledge <= documents
    /\ \A e \in cache : e.key <= documents
    /\ \A d \in Clients : client[d].key <= documents

\* An answer that can be found is of the index there is, or is about to be cleared.
Kept(e) ==
    e.key = knowledge /\ ~e.late =>
        \/ e.seen = manifest.of
        \/ broken \/ Sweeping
        \/ e.seen = 0 /\ troubles > 0

CacheSafe == KeysBounded /\ \A e \in cache : Kept(e)

\* A step that keeps no new answer. It may only replace the index on its way to
\* the clearing, or by an error.
LEMMA CacheStays ==
    ASSUME Safe, CacheSafe, documents' = documents, knowledge' = knowledge,
           cache' \subseteq cache, troubles' \in Nat, troubles' >= troubles,
           \A d \in Clients : client'[d].key <= documents,
           manifest'.of = manifest.of \/ broken' \/ Sweeping' \/ cache' = {},
           broken => broken' \/ Sweeping' \/ cache' = {},
           Sweeping => Sweeping' \/ cache' = {}
    PROVE  CacheSafe'
  <1>1. KeysBounded'  BY DEF CacheSafe, KeysBounded
  <1>2. ASSUME NEW e \in cache' PROVE Kept(e)'
    <2>1. e \in cache /\ Kept(e) /\ cache' # {}  BY <1>2 DEF CacheSafe
    <2>2. troubles > 0 => troubles' > 0  BY Kinds DEF Safe, Shared
    <2> QED  BY <2>1, <2>2 DEF Kept
  <1> QED  BY <1>1, <1>2 DEF CacheSafe

\* The numbers the bounds are about.
LEMMA Numbers ==
    ASSUME Safe
    PROVE  /\ documents \in Nat /\ knowledge \in Nat /\ troubles \in Nat /\ 0 <= documents
           /\ documents \in Revisions /\ 0 \in Revisions
           /\ cache \subseteq Answers
           /\ \A e \in Answers : e.key \in Nat /\ e.seen \in Nat
           /\ \A d \in Clients : client[d].key \in Nat
  <1>1. TypeOK  BY DEF Safe, Shared
  <1>2. \A e \in Answers : e.key \in Revisions /\ e.seen \in Revisions  BY DEF Answers
  <1>3. cache \subseteq Answers  BY <1>1 DEF TypeOK
  <1> QED  BY <1>1, <1>2, <1>3, Kinds, Fields

\* A thread that goes to another step keeps its key, and one that comes to rest
\* or begins has 0.
LEMMA KeyOfUpdate ==
    ASSUME Safe, CacheSafe, NEW c \in Clients, NEW q, client' = [client EXCEPT ![c] = q],
           q.key <= documents
    PROVE  \A d \in Clients : client'[d].key <= documents
  <1>1. client'[c] = q /\ \A d \in Clients : d # c => client'[d] = client[d]  BY Updated
  <1> QED  BY <1>1 DEF CacheSafe, KeysBounded

LEMMA KeyAtRest ==
    Rest.key = 0 /\ Rest.at = "idle"
  BY DEF Rest

\* What goes on at another step.
LEMMA KeyOfGo ==
    ASSUME Safe, CacheSafe, NEW c \in Clients, NEW p \in Steps, Go(c, p)
    PROVE  /\ \A d \in Clients : client'[d].key <= documents
           /\ client'[c].at = p /\ \A d \in Clients : d # c => client'[d] = client[d]
  <1> DEFINE q == Moved(client[c], p)
  <1>1. q.key = client[c].key /\ q.at = p  BY Given, MovedRecord
  <1>2. client' = [client EXCEPT ![c] = q]  BY DEF Go, Moved
  <1> HIDE DEF q
  <1>3. q.key <= documents  BY <1>1 DEF CacheSafe, KeysBounded
  <1> QED  BY <1>1, <1>2, <1>3, KeyOfUpdate, Updated

LEMMA KeyOfFinish ==
    ASSUME Safe, CacheSafe, NEW c \in Clients, NEW ok \in BOOLEAN, Finish(c, ok)
    PROVE  \A d \in Clients :
               /\ client'[d].key <= documents
               /\ d # c /\ At(d, "sweep") => At(d, "sweep")'
  <1> SUFFICES ASSUME NEW d \in Clients
               PROVE  /\ client'[d].key <= documents
                      /\ d # c /\ At(d, "sweep") => At(d, "sweep")'
    OBVIOUS
  <1>1. client'[d] = IF d = c \/ At(d, "follow") THEN Arrived(d, ok) ELSE client[d]
    BY DEF Finish
  <1>2. client[d].key <= documents /\ client[d] \in ClientSet
    BY Given DEF CacheSafe, KeysBounded
  <1>3. Arrived(d, ok).key <= documents
    <2>1. Arriving(client[d]).key = client[d].key  BY <1>2 DEF Arriving, ClientSet
    <2> QED  BY <1>2, <2>1, KeyAtRest, Numbers DEF Arrived, Arriving
  <1>4. d # c /\ At(d, "sweep") => client'[d] = client[d]  BY <1>1 DEF At
  <1> QED  BY <1>1, <1>2, <1>3, <1>4 DEF At

\* Who searches is not who sweeps.
LEMMA SweeperStays ==
    ASSUME Safe, NEW c \in Clients, ~At(c, "sweep"),
           \A d \in Clients : d # c => client'[d] = client[d]
    PROVE  Sweeping => Sweeping'
  BY DEF Sweeping, At

\* A step of a search, which leaves the index alone and keeps no new answer.
LEMMA SearchKeepsCache ==
    ASSUME Safe, CacheSafe, NEW c \in Clients, NEW q, client' = [client EXCEPT ![c] = q],
           client[c].at # "sweep", q.key <= documents, Stays, cache' \subseteq cache, Counts
    PROVE  CacheSafe'
  <1>1. /\ \A d \in Clients : client'[d].key <= documents
        /\ \A d \in Clients : d # c => client'[d] = client[d]
    BY KeyOfUpdate, Updated
  <1>2. Sweeping => Sweeping'  BY <1>1, SweeperStays DEF At
  <1>3. troubles' \in Nat /\ troubles' >= troubles  BY Numbers, Kinds DEF Counts, Safe, Shared
  <1> QED  BY <1>1, <1>2, <1>3, CacheStays DEF Stays

LEMMA RestKeepsCache ==
    ASSUME Safe, CacheSafe, NEW c \in Clients, client' = [client EXCEPT ![c] = Rest],
           client[c].at # "sweep", Stays, cache' \subseteq cache, Counts
    PROVE  CacheSafe'
  <1>1. Rest.key <= documents  BY KeyAtRest, Numbers
  <1> QED  BY <1>1, SearchKeepsCache

\* A thread that goes on and leaves the index alone.
LEMMA GoKeepsCache ==
    ASSUME Safe, CacheSafe, NEW c \in Clients, NEW p \in Steps, Go(c, p), ~At(c, "sweep"),
           documents' = documents, knowledge' = knowledge, cache' = cache,
           manifest'.of = manifest.of \/ broken' \/ p = "sweep",
           broken => broken' \/ p = "sweep",
           troubles' \in Nat, troubles' >= troubles
    PROVE  CacheSafe'
  <1>1. /\ \A d \in Clients : client'[d].key <= documents
        /\ client'[c].at = p /\ \A d \in Clients : d # c => client'[d] = client[d]
    BY KeyOfGo
  <1>2. Sweeping => Sweeping'  BY <1>1, SweeperStays
  <1>3. p = "sweep" => Sweeping'  BY <1>1 DEF Sweeping, At
  <1> QED  BY <1>1, <1>2, <1>3, CacheStays

\* An answer is kept of the index the search found, unless an edit overtook it.
LEMMA RememberKeepsCache ==
    ASSUME Safe, CacheSafe, NEW c \in Clients, Remember(c)
    PROVE  CacheSafe'
  <1> DEFINE new == [key |-> client[c].key, seen |-> client[c].seen, late |-> client[c].moved]
  <1>1. /\ client[c].at = "remember" /\ client' = [client EXCEPT ![c] = Rest]
        /\ documents' = documents /\ knowledge' = knowledge /\ manifest' = manifest
        /\ broken' = broken /\ troubles' = troubles
        /\ cache' \subseteq cache \cup {new}
    BY DEF Remember, At, corpus
  <1>2. new.key = client[c].key /\ new.seen = client[c].seen /\ new.late = client[c].moved
    OBVIOUS
  <1> HIDE DEF new
  <1>3. Rest.key <= documents  BY KeyAtRest, Numbers
  <1>4. /\ \A d \in Clients : client'[d].key <= documents
        /\ \A d \in Clients : d # c => client'[d] = client[d]
    BY <1>1, <1>3, KeyOfUpdate, Updated
  <1>5. Sweeping => Sweeping'  BY <1>1, <1>4, SweeperStays DEF At
  <1>6. Kept(new)
    <2>1. Knows(c)  BY Given
    <2> QED  BY <1>1, <1>2, <2>1 DEF Knows, Kept, At
  <1>7. new.key <= documents  BY <1>2 DEF CacheSafe, KeysBounded
  <1>8. KeysBounded'  BY <1>1, <1>4, <1>7 DEF CacheSafe, KeysBounded
  <1>9. ASSUME NEW e \in cache' PROVE Kept(e)'
    <2>1. Kept(e)  BY <1>1, <1>6, <1>9 DEF CacheSafe
    <2> QED  BY <1>1, <1>5, <2>1 DEF Kept
  <1> QED  BY <1>8, <1>9 DEF CacheSafe

LEMMA SearchesKeepCache ==
    ASSUME Safe, CacheSafe, NEW c \in Clients,
           \/ Search(c) \/ Key(c) \/ Query(c) \/ SearchRaises(c)
           \/ \E state : StateRead(state) /\ (Compare(c, state) \/ Snapshot(c, state))
    PROVE  CacheSafe'
  <1>0. /\ client[c] \in ClientSet /\ client[c].key <= documents
        /\ documents \in Nat /\ knowledge <= documents /\ 0 <= documents
    BY Given, Numbers DEF CacheSafe, KeysBounded
  <1>1. CASE Search(c)
    <2> DEFINE q == IF family = "static" THEN [client[c] EXCEPT !.at = "compare", !.key = documents]
                    ELSE [client[c] EXCEPT !.at = "embed"]
    <2>1. q.key <= documents  BY <1>0 DEF ClientSet
    <2>2. client' = [client EXCEPT ![c] = q]  BY <1>1 DEF Search
    <2>3. Stays /\ cache' \subseteq cache /\ Counts /\ client[c].at # "sweep"
      BY <1>1, NoError DEF Search, Stays, index, corpus, At
    <2> HIDE DEF q
    <2> QED  BY <2>1, <2>2, <2>3, SearchKeepsCache
  <1>2. CASE Key(c)
    <2>1. Stays /\ cache' \subseteq cache /\ Counts /\ client[c].at # "sweep"
      BY <1>2, NoError DEF Key, Stays, corpus, At
    <2>2. CASE client' = [client EXCEPT ![c] = Rest]
      BY <2>1, <2>2, RestKeepsCache
    <2>3. CASE client' = [client EXCEPT ![c].at = "embed", ![c].key = knowledge]
      <3> DEFINE q == [client[c] EXCEPT !.at = "embed", !.key = knowledge]
      <3>1. q.key <= documents  BY <1>0 DEF ClientSet
      <3>2. client' = [client EXCEPT ![c] = q]  BY <2>3
      <3> HIDE DEF q
      <3> QED  BY <2>1, <3>1, <3>2, SearchKeepsCache
    <2> QED  BY <1>2, <2>2, <2>3 DEF Key
  <1>3. CASE Query(c)
    <2>1. Stays /\ cache' \subseteq cache /\ Counts /\ client[c].at # "sweep"
      BY <1>3, NoError DEF Query, Stays, index, corpus, At
    <2> DEFINE seen == IF client[c].held = NoBuild THEN 0 ELSE store[client[c].held]
               q == Having(client[c], seen)
    <2>2. CASE client' = [client EXCEPT ![c] = Rest]
      BY <2>1, <2>2, RestKeepsCache
    <2>3. CASE client' = [client EXCEPT ![c] = q]
      <3>1. q.key <= documents  BY <1>0 DEF ClientSet, Having
      <3> HIDE DEF q
      <3> QED  BY <2>1, <2>3, <3>1, SearchKeepsCache
    <2> QED  BY <1>3, <2>2, <2>3 DEF Query, Having
  <1>4. CASE SearchRaises(c)
    <2>1. Stays /\ cache' \subseteq cache /\ Counts /\ client[c].at # "sweep"
      BY <1>4, OneError DEF SearchRaises, Stays, index, corpus, At
    <2> QED  BY <1>4, <2>1, RestKeepsCache DEF SearchRaises
  <1>5. ASSUME NEW state, StateRead(state), Compare(c, state)
        PROVE  CacheSafe'
    <2> DEFINE q == IF Current(state, client[c].key) THEN Keyed(client[c], "key", 0)
                    ELSE Entering(client[c])
    <2>1. q.key <= documents  BY <1>0 DEF ClientSet, Keyed, Entering
    <2>2. client' = [client EXCEPT ![c] = q]  BY <1>5 DEF Compare, Keyed, Entering
    <2>3. Stays /\ cache' \subseteq cache /\ Counts /\ client[c].at # "sweep"
      BY <1>5, StateIs DEF Compare, Stays, index, corpus, At
    <2> HIDE DEF q
    <2> QED  BY <2>1, <2>2, <2>3, SearchKeepsCache
  <1>6. ASSUME NEW state, StateRead(state), Snapshot(c, state)
        PROVE  CacheSafe'
    <2> DEFINE q == Holding(client[c], state.build)
    <2>1. q.key <= documents  BY <1>0 DEF ClientSet, Holding
    <2>2. client' = [client EXCEPT ![c] = q]  BY <1>6 DEF Snapshot, Holding
    <2>3. Stays /\ cache' \subseteq cache /\ Counts /\ client[c].at # "sweep"
      BY <1>6, StateIs DEF Snapshot, Stays, index, corpus, At
    <2> HIDE DEF q
    <2> QED  BY <2>1, <2>2, <2>3, SearchKeepsCache
  <1> QED  BY <1>1, <1>2, <1>3, <1>4, <1>5, <1>6

LEMMA BuildsKeepCache ==
    ASSUME Safe, CacheSafe, NEW c \in Clients,
           \/ Rebuild(c) \/ Load(c) \/ LoadRaises(c) \/ Verify(c) \/ PublishRaises(c)
           \/ Invalidate(c)
           \/ \E state : StateRead(state) /\ Publish(c, state)
    PROVE  CacheSafe'
  <1>0. troubles \in Nat /\ MaxTroubles \in Nat  BY Numbers, Kinds DEF Safe, Shared
  <1>1. CASE Rebuild(c) \/ Load(c) \/ Verify(c) \/ Invalidate(c)
    <2>1. PICK p \in {"enter", "verify", "publish", "unstage", "drain"} : Go(c, p)
      BY <1>1 DEF Rebuild, Load, Verify, Invalidate
    <2>2. p \in Steps  BY DEF Steps
    <2>3. /\ documents' = documents /\ knowledge' = knowledge /\ cache' = cache
          /\ manifest' = manifest /\ broken' = broken /\ troubles' = troubles
          /\ ~At(c, "sweep")
      BY <1>1 DEF Rebuild, Load, Verify, Invalidate, corpus, index, At
    <2> QED  BY <1>0, <2>1, <2>2, <2>3, GoKeepsCache
  <1>2. CASE LoadRaises(c) \/ PublishRaises(c)
    <2>1. "unstage" \in Steps /\ Go(c, "unstage")
      BY <1>2 DEF LoadRaises, PublishRaises, Steps
    <2>2. /\ documents' = documents /\ knowledge' = knowledge /\ cache' = cache
          /\ (manifest' = manifest /\ broken' = broken) \/ broken' = TRUE
          /\ ~At(c, "sweep") /\ Trouble
      BY <1>2 DEF LoadRaises, PublishRaises, corpus, At
    <2>3. troubles' \in Nat /\ troubles' >= troubles  BY <1>0, <2>2 DEF Trouble
    <2> QED  BY <2>1, <2>2, <2>3, GoKeepsCache
  <1>3. ASSUME NEW state, StateRead(state), Publish(c, state)
        PROVE  CacheSafe'
    <2>1. "sweep" \in Steps /\ Go(c, "sweep")
      BY <1>3 DEF Publish, Steps
    <2>2. /\ documents' = documents /\ knowledge' = knowledge /\ cache' = cache
          /\ ~At(c, "sweep")
      BY <1>3 DEF Publish, corpus, At
    <2>3. troubles' \in Nat /\ troubles' >= troubles  BY <1>0, <1>3, StateIs DEF Counts
    <2> QED  BY <2>1, <2>2, <2>3, GoKeepsCache
  <1> QED  BY <1>1, <1>2, <1>3

LEMMA EnterKeepsCache ==
    ASSUME Safe, CacheSafe, NEW c \in Clients, Enter(c)
    PROVE  CacheSafe'
  <1>1. /\ documents' = documents /\ knowledge' = knowledge /\ cache' = cache
        /\ manifest' = manifest /\ broken' = broken /\ troubles' = troubles
        /\ ~At(c, "sweep") /\ troubles \in Nat
    BY Numbers DEF Enter, corpus, At
  <1>2. CASE Go(c, "load")
    <2>1. "load" \in Steps  BY DEF Steps
    <2> QED  BY <1>1, <1>2, <2>1, GoKeepsCache
  <1>3. CASE client' = [client EXCEPT ![c].at = "follow", ![c].moved = @ \/ building.of # documents]
    <2> DEFINE m == client[c].moved \/ building.of # documents
               q == Following(client[c], m)
    <2>1. client' = [client EXCEPT ![c] = q]  BY <1>3 DEF Following
    <2>2. q.key <= documents
      <3>1. client[c] \in ClientSet /\ client[c].key <= documents
        BY Given DEF CacheSafe, KeysBounded
      <3> QED  BY <3>1 DEF Following, ClientSet
    <2> HIDE DEF q
    <2>3. /\ \A d \in Clients : client'[d].key <= documents
          /\ \A d \in Clients : d # c => client'[d] = client[d]
      BY <2>1, <2>2, KeyOfUpdate, Updated
    <2>4. Sweeping => Sweeping'  BY <1>1, <2>3, SweeperStays
    <2> QED  BY <1>1, <2>3, <2>4, CacheStays
  <1> QED  BY <1>2, <1>3 DEF Enter

\* The clearing, after which nothing is kept.
LEMMA SweepKeepsCache ==
    ASSUME Safe, CacheSafe, NEW c \in Clients, NEW state, StateRead(state), Sweep(c, state)
    PROVE  CacheSafe'
  <1>1. /\ documents' = documents /\ knowledge' = knowledge /\ cache' = {}
        /\ Go(c, "delete") /\ "delete" \in Steps
    BY DEF Sweep, corpus, Steps
  <1>2. \A d \in Clients : client'[d].key <= documents  BY <1>1, KeyOfGo
  <1>3. troubles' \in Nat /\ troubles' >= troubles
    BY Numbers, Kinds, StateIs DEF Counts, Safe, Shared
  <1> QED  BY <1>1, <1>2, <1>3, CacheStays

LEMMA EndingsKeepCache ==
    ASSUME Safe, CacheSafe, NEW c \in Clients, Delete(c) \/ DeleteUnlisted(c) \/ Unstage(c)
    PROVE  CacheSafe'
  <1>1. PICK ok \in BOOLEAN : Finish(c, ok)
    BY DEF Delete, DeleteUnlisted, Unstage
  <1>2. /\ documents' = documents /\ knowledge' = knowledge /\ cache' = cache
        /\ broken' = broken /\ ~At(c, "sweep")
        /\ Trouble \/ troubles' = troubles
    BY DEF Delete, DeleteUnlisted, Unstage, corpus, At
  <1>3. manifest'.of = manifest.of
    <2>1. manifest \in ManifestSet  BY Kinds DEF Safe, Shared
    <2>2. CASE Delete(c)
      <3>1. \E S : manifest' = [manifest EXCEPT !.obsolete = S]  BY <2>2 DEF Delete
      <3> QED  BY <2>1, <3>1 DEF ManifestSet
    <2>3. CASE DeleteUnlisted(c) \/ Unstage(c)
      BY <2>3 DEF DeleteUnlisted, Unstage
    <2> QED  BY <2>2, <2>3
  <1>4. troubles' \in Nat /\ troubles' >= troubles
    BY <1>2, Numbers DEF Trouble
  <1>5. Sweeping => Sweeping'  BY <1>1, <1>2, KeyOfFinish DEF Sweeping
  <1>6. \A d \in Clients : client'[d].key <= documents  BY <1>1, KeyOfFinish
  <1> QED  BY <1>2, <1>3, <1>4, <1>5, <1>6, CacheStays

LEMMA InvalidationsKeepCache ==
    ASSUME Safe, CacheSafe, NEW c \in Clients, Drain(c) \/ PurgeAll(c)
    PROVE  CacheSafe'
  <1>1. /\ documents' = documents /\ knowledge' = knowledge
        /\ \/ cache' = {}
           \/ cache' = cache /\ manifest' = manifest /\ (broken => broken')
        /\ ~At(c, "sweep")
        /\ Trouble \/ troubles' = troubles
    <2>1. CASE Drain(c)  BY <2>1 DEF Drain, corpus, At
    <2>2. CASE PurgeAll(c)
      <3>1. \/ cache' = {} /\ troubles' = troubles
            \/ cache' = cache /\ manifest' = manifest /\ (broken => broken') /\ Trouble
        BY <2>2, ZenonT(60) DEF PurgeAll
      <3> QED  BY <2>2, <3>1 DEF PurgeAll, corpus, At
    <2> QED  BY <2>1, <2>2
  <1>2. troubles' \in Nat /\ troubles' >= troubles
    BY <1>1, Numbers DEF Trouble
  <1>3. CASE Go(c, "purge")
    <2>1. "purge" \in Steps  BY DEF Steps
    <2>2. /\ \A d \in Clients : client'[d].key <= documents
          /\ \A d \in Clients : d # c => client'[d] = client[d]
      BY <1>3, <2>1, KeyOfGo
    <2>3. Sweeping => Sweeping'  BY <1>1, <2>2, SweeperStays
    <2> QED  BY <1>1, <1>2, <2>2, <2>3, CacheStays
  <1>4. CASE InvalidationEnds(c)
    <2>1. client' = [client EXCEPT ![c] = Rest] /\ Rest.key <= documents
      BY <1>4, KeyAtRest, Numbers DEF InvalidationEnds
    <2>2. /\ \A d \in Clients : client'[d].key <= documents
          /\ \A d \in Clients : d # c => client'[d] = client[d]
      BY <2>1, KeyOfUpdate, Updated
    <2>3. Sweeping => Sweeping'  BY <1>1, <2>2, SweeperStays
    <2> QED  BY <1>1, <1>2, <2>2, <2>3, CacheStays
  <1> QED  BY <1>3, <1>4 DEF Drain, PurgeAll

\* A knowledge file that is edited takes a key no answer has.
LEMMA EditKeepsCache ==
    ASSUME Safe, CacheSafe, Edit
    PROVE  CacheSafe'
  <1>1. /\ documents' = documents + 1 /\ knowledge' \in {knowledge, documents + 1}
        /\ cache' = cache /\ manifest' = manifest /\ broken' = broken /\ troubles' = troubles
    BY DEF Edit, index
  <1>2. \A d \in Clients : client'[d].key = client[d].key /\ client'[d].at = client[d].at
    <2> SUFFICES ASSUME NEW d \in Clients
                 PROVE  client'[d].key = client[d].key /\ client'[d].at = client[d].at
      OBVIOUS
    <2>1. client[d] \in ClientSet  BY Given
    <2>2. client'[d] = [client[d] EXCEPT !.moved = family = "static" /\ ~At(d, "idle")]
      BY DEF Edit
    <2> QED  BY <2>1, <2>2 DEF ClientSet
  <1>3. Sweeping' <=> Sweeping  BY <1>2 DEF Sweeping, At
  <1>4. KeysBounded'  BY <1>1, <1>2, Numbers DEF CacheSafe, KeysBounded
  <1>5. ASSUME NEW e \in cache' PROVE Kept(e)'
    <2>1. Kept(e) /\ e.key <= documents /\ e.key \in Nat
      BY <1>1, <1>5, Numbers DEF CacheSafe, KeysBounded
    <2>2. e.key # documents + 1  BY <2>1, Numbers
    <2> QED  BY <1>1, <1>3, <2>1, <2>2 DEF Kept
  <1> QED  BY <1>4, <1>5 DEF CacheSafe

LEMMA CacheAtFirst ==
    ASSUME Init
    PROVE  CacheSafe
  <1>1. /\ documents = 1 /\ knowledge = 1 /\ cache = {}
        /\ \A d \in Clients : client[d].key = 0
    BY KeyAtRest DEF Init
  <1> QED  BY <1>1 DEF CacheSafe, KeysBounded

LEMMA CacheIsKept ==
    ASSUME Safe, CacheSafe, [Next]_vars
    PROVE  CacheSafe'
  <1>1. CASE Edit  BY <1>1, EditKeepsCache
  <1>2. CASE Die
    <2>1. /\ documents' = documents /\ knowledge' = knowledge /\ cache' = {}
          /\ client' = [d \in Clients |-> Rest] /\ Trouble
      BY <1>2 DEF Die, corpus
    <2>2. troubles' \in Nat /\ troubles' >= troubles  BY <2>1, Numbers DEF Trouble
    <2>3. \A d \in Clients : client'[d].key <= documents  BY <2>1, KeyAtRest, Numbers
    <2> QED  BY <2>1, <2>2, <2>3, CacheStays
  <1>3. ASSUME NEW c \in Clients, NEW state, StateRead(state), WithState(c, state)
        PROVE  CacheSafe'
    BY <1>3, SearchesKeepCache, BuildsKeepCache, SweepKeepsCache DEF WithState
  <1>4. ASSUME NEW c \in Clients,
               Search(c) \/ Rebuild(c) \/ Invalidate(c) \/ SearchRaises(c) \/ LoadRaises(c)
               \/ PublishRaises(c) \/ DeleteUnlisted(c)
        PROVE  CacheSafe'
    BY <1>4, SearchesKeepCache, BuildsKeepCache, EndingsKeepCache
  <1>5. ASSUME NEW c \in Clients, Step(c) \/ Unreadable(c)
        PROVE  CacheSafe'
    <2>1. CASE Key(c) \/ Query(c) \/ Remember(c)
      BY <2>1, SearchesKeepCache, RememberKeepsCache
    <2>2. CASE Enter(c) \/ Load(c) \/ Verify(c)
      BY <2>2, EnterKeepsCache, BuildsKeepCache
    <2>3. CASE Delete(c) \/ Unstage(c) \/ Drain(c) \/ PurgeAll(c)
      BY <2>3, EndingsKeepCache, InvalidationsKeepCache
    <2>4. CASE WithState(c, manifest) /\ UNCHANGED troubles
      BY <1>3, <2>4 DEF StateRead
    <2>5. CASE Unreadable(c)
      BY <1>3, <2>5 DEF Unreadable, StateRead
    <2> QED  BY <1>5, <2>1, <2>2, <2>3, <2>4, <2>5 DEF Step
  <1>6. CASE UNCHANGED vars
    <2>1. /\ documents' = documents /\ knowledge' = knowledge /\ cache' = cache
          /\ client' = client /\ manifest' = manifest /\ broken' = broken /\ troubles' = troubles
      BY <1>6 DEF vars
    <2> QED  BY <2>1 DEF CacheSafe, KeysBounded, Kept, Sweeping, At
  <1> QED  BY <1>1, <1>2, <1>4, <1>5, <1>6 DEF Next

LEMMA SafeImplies ==
    ASSUME Safe, CacheSafe
    PROVE  IndexSafe
  <1>1. TypeOK /\ NothingForgotten /\ Holds  BY DEF Safe, Shared
  <1>2. ManifestComplete  BY <1>1 DEF Holds, ManifestComplete
  <1>3. HitsAreCurrent
    <2> SUFFICES ASSUME NEW c \in Clients, At(c, "key"), ~client[c].moved, NEW e \in Hits
                 PROVE  \/ e.seen = documents
                        \/ e.late
                        \/ broken \/ \E d \in Clients : At(d, "sweep")
                        \/ e.seen = 0 /\ troubles > 0
      BY DEF HitsAreCurrent
    <2>1. manifest.of = documents  BY Given DEF Knows, At
    <2>2. e.key = knowledge /\ Kept(e)  BY DEF Hits, CacheSafe
    <2> QED  BY <2>1, <2>2 DEF Kept, Sweeping
  <1> QED  BY <1>1, <1>2, <1>3 DEF IndexSafe

(* Whatever threads search, rebuild and invalidate, whatever raises and    *)
(* whenever the process dies: a collection that exists is named by the     *)
(* manifest, listed to be deleted, being built, or left behind by an error *)
(* or a death; the manifest names collections that hold what it says; and  *)
(* a search no edit overtakes finds in the cache answers of the documents  *)
(* as they are, but for those an overtaken search kept after the cache was *)
(* cleared (_reindex_once, RagService.search).                             *)
THEOREM IndexStaysSafe == Spec => []IndexSafe
  <1>1. Init => Safe /\ CacheSafe  BY SafeAtFirst, CacheAtFirst
  <1>2. Safe /\ CacheSafe /\ [Next]_vars => (Safe /\ CacheSafe)'  BY SafeIsKept, CacheIsKept
  <1>3. Safe /\ CacheSafe => IndexSafe  BY SafeImplies
  <1> QED  BY <1>1, <1>2, <1>3, PTL DEF Spec

-----------------------------------------------------------------------------
(* What a search reads stays.                                              *)

\* One step, for one reader.
ReaderKeeps(c) ==
    (At(c, "read") /\ At(c, "read")' /\ client[c].held \in Existing)
        => client[c].held \in Existing' \/ \E d \in Clients : At(d, "unstage")

LEMMA StoreStays ==
    ASSUME store' = store, NEW c
    PROVE  ReaderKeeps(c)
  BY DEF ReaderKeeps, Existing

\* What is added takes nothing away.
LEMMA LoadKeeps ==
    ASSUME Safe, NEW d \in Clients, Load(d) \/ LoadRaises(d), NEW c \in Clients
    PROVE  ReaderKeeps(c)
  <1>1. Unused # {} /\ \E v : store' = [store EXCEPT ![Fresh] = v]
    BY DEF Load, LoadRaises, corpus
  <1>2. \A b \in Builds : b # Fresh => store'[b] = store[b]
    BY <1>1, Given, Kinds
  <1>3. \A b \in Existing : b # Fresh
    BY <1>1, FreshIsUnused DEF Existing
  <1> QED  BY <1>2, <1>3 DEF ReaderKeeps, Existing

\* What a leader deletes is not what a reader holds.
LEMMA DeleteKeeps ==
    ASSUME Safe, NEW d \in Clients, Delete(d) \/ DeleteUnlisted(d), NEW c \in Clients
    PROVE  ReaderKeeps(c)
  <1>1. PICK gone \in SUBSET building.safe : store' = Without(gone)
    BY DEF Delete, DeleteUnlisted, corpus
  <1>2. At(c, "read") => client[c].held \notin gone  BY <1>1, Given DEF Reads
  <1> QED  BY <1>1, <1>2 DEF ReaderKeeps, Existing, Without

LEMMA PurgeKeeps ==
    ASSUME Safe, NEW d \in Clients, PurgeAll(d), NEW c \in Clients
    PROVE  ReaderKeeps(c)
  <1>1. \A b \in Existing : ~Read(b)  BY Given DEF PurgeAll, Works, At, corpus
  <1> QED  BY <1>1 DEF ReaderKeeps, Read

LEMMA ReadersKeep ==
    ASSUME Safe, [Next]_vars, NEW c \in Clients
    PROVE  ReaderKeeps(c)
  <1>1. CASE UNCHANGED vars \/ Edit \/ Die
    <2>1. store' = store  BY <1>1 DEF vars, Edit, Die, index, corpus
    <2> QED  BY <2>1, StoreStays
  <1>2. ASSUME NEW d \in Clients,
               Search(d) \/ Rebuild(d) \/ Invalidate(d) \/ SearchRaises(d) \/ PublishRaises(d)
        PROVE  ReaderKeeps(c)
    <2>1. store' = store
      BY <1>2 DEF Search, Rebuild, Invalidate, SearchRaises, PublishRaises, index, corpus
    <2> QED  BY <2>1, StoreStays
  <1>3. ASSUME NEW d \in Clients,
               Key(d) \/ Query(d) \/ Remember(d) \/ Enter(d) \/ Verify(d) \/ Drain(d)
               \/ \E state : WithState(d, state)
        PROVE  ReaderKeeps(c)
    <2>1. store' = store
      BY <1>3 DEF Compare, Key, Snapshot, Query, Remember, Enter, Verify, Publish, Sweep, Drain,
                  WithState, index, corpus
    <2> QED  BY <2>1, StoreStays
  <1>4. ASSUME NEW d \in Clients,
               Load(d) \/ LoadRaises(d) \/ Delete(d) \/ DeleteUnlisted(d) \/ PurgeAll(d)
        PROVE  ReaderKeeps(c)
    BY <1>4, LoadKeeps, DeleteKeeps, PurgeKeeps
  <1>5. ASSUME NEW d \in Clients, Unstage(d)
        PROVE  ReaderKeeps(c)
    BY <1>5 DEF ReaderKeeps, Unstage, corpus
  <1> QED  BY <1>1, <1>2, <1>3, <1>4, <1>5 DEF Next, Step, Unreadable

(* A collection stays while a search reads it: the clean-up after a        *)
(* rebuild looks at the readers before it deletes, an invalidation waits   *)
(* for them, and only a publication that is taken back does neither.       *)
(* (_delete_collections, invalidate_runtime_memory.)                       *)
THEOREM ReadersAreLeftAlone == Spec => ReadersKeepTheirIndex
  <1>1. Init => Safe  BY SafeAtFirst
  <1>2. Safe /\ [Next]_vars => Safe'  BY SafeIsKept
  <1>3. Safe /\ [Next]_vars
            => [\A c \in Clients :
                    LET held == client[c].held
                    IN  (At(c, "read") /\ At(c, "read")' /\ held \in Existing)
                            => held \in Existing' \/ \E d \in Clients : At(d, "unstage")]_vars
    BY ReadersKeep DEF ReaderKeeps
  <1> QED  BY <1>1, <1>2, <1>3, PTL DEF Spec, ReadersKeepTheirIndex
=============================================================================
