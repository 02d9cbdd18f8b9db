----------------------------- MODULE Workspace -----------------------------
(***************************************************************************)
(* WorkspaceStore and the handlers of main.py that tie conversations to    *)
(* designs and document packs: creation_lock serialises what changes a     *)
(* link, and PackStore is the other side of a link to a pack.              *)
(***************************************************************************)
EXTENDS PackStore

CONSTANTS
    Chats,      \* conversations of one project
    Designs,    \* designs that can be accepted, numbered from 1
    Requests    \* bound: requests served

ASSUME WorkspaceAssumption ==
    /\ 0 \notin Chats /\ Designs \subseteq Nat \ {0} /\ Requests \in Nat

VARIABLES
    chat,       \* studio_chats: whether the row exists, its design and its pack
    pending,    \* studio_pending_pack_links
    designs,    \* designs in the register
    accepted,   \* designs ever accepted
    owner,      \* the thread that holds creation_lock
    served,     \* requests begun
    raced,      \* history: chats linked to a pack deleted after it was checked
    loose,      \* history: designs whose chat went, or that could not be linked
    leaked      \* history: chats whose reservation could not be cancelled

links   == <<chat, pending, designs, accepted>>
history == <<raced, loose, leaked>>
vars == <<store, locks, flow, troubles, links, owner, served, history>>

Absent == [live |-> FALSE, design |-> None, pack |-> None]
Free   == owner = None

TypeOK ==
    /\ dirs \subseteq Packs /\ buried \subseteq Packs /\ named \subseteq Packs
    /\ file \in [Packs -> [Files -> Revision]] /\ tomb \in [Packs -> [Files -> Revision]]
    /\ memory \in [Packs -> Revision] /\ torn \subseteq Packs /\ lost \subseteq Packs
    /\ table \in [Packs -> Keys \cup {None}] /\ users \in [Packs -> 0 .. Cardinality(Threads)]
    /\ key \in [Threads -> Keys \cup {None}] /\ owner \in Threads \cup {None}
    /\ chat \in [Chats -> [live : BOOLEAN, design : Designs \cup {None},
                           pack : Packs \cup {None}]]
    /\ pending \subseteq Chats /\ designs \subseteq accepted /\ accepted \subseteq Designs
    /\ served \in 0 .. Requests /\ troubles \in 0 .. MaxTroubles
    /\ raced \subseteq Chats /\ loose \subseteq Designs /\ leaked \subseteq Chats

\* The process starts on what earlier ones left: packs, some of them linked.
Init ==
    /\ named \in SUBSET Packs /\ dirs = named
    /\ file = [p \in Packs |-> [f \in Files |-> IF p \in named THEN 1 ELSE 0]]
    /\ memory = [p \in Packs |-> IF p \in named THEN 1 ELSE 0]
    /\ buried = {} /\ tomb = [p \in Packs |-> Nothing] /\ torn = {} /\ lost = {}
    /\ table = [p \in Packs |-> None] /\ users = [p \in Packs |-> 0]
    /\ pc = [t \in Threads |-> "idle"] /\ job = [t \in Threads |-> NoJob]
    /\ key = [t \in Threads |-> None]
    /\ chat \in [Chats -> [live : {TRUE}, design : {None}, pack : named \cup {None}]]
    /\ pending = {} /\ designs = {} /\ accepted = {} /\ owner = None
    /\ served = 0 /\ troubles = 0 /\ raced = {} /\ loose = {} /\ leaked = {}

-----------------------------------------------------------------------------
(* Requests served in one step under creation_lock.                        *)

At(t, s) == pc[t] = s
Served == served < Requests /\ served' = served + 1

OneStep == Free /\ Served /\ UNCHANGED <<store, locks, flow, troubles, owner>>

\* DELETE /designs/{id} refuses a design that is linked.
DeleteDesign(w) ==
    /\ OneStep /\ w \in designs
    /\ \A c \in Chats : chat[c].design # w
    /\ designs' = designs \ {w}
    /\ UNCHANGED <<chat, pending, accepted, history>>

\* Rows that go take their links with them; a reservation keeps its row (ON DELETE RESTRICT).
DeleteChats(cs) ==
    /\ OneStep
    /\ cs # {} /\ cs \cap pending = {} /\ \A c \in cs : chat[c].live
    /\ chat' = [c \in Chats |-> IF c \in cs THEN Absent ELSE chat[c]]
    /\ loose' = loose \cup ({chat[c].design : c \in cs} \ {None})
    /\ raced' = raced \ cs
    /\ UNCHANGED <<pending, designs, accepted, leaked>>

\* One chat, or the project with all of its chats.
DeleteChat(c)  == DeleteChats({c})
DeleteProject  == DeleteChats({c \in Chats : chat[c].live})

\* A new conversation may bring a design that no other one has.
CreateChat(c) ==
    /\ OneStep /\ ~chat[c].live
    /\ \E w \in designs \cup {None} :
          /\ w # None => \A d \in Chats : chat[d].design # w
          /\ chat' = [chat EXCEPT ![c] = [live |-> TRUE, design |-> w, pack |-> None]]
          /\ loose' = loose \ {w}
    /\ UNCHANGED <<pending, designs, accepted, raced, leaked>>

\* update_chat: the pack is looked up under creation_lock, which its deletion needs too.
PatchPack(c, p) ==
    /\ OneStep /\ chat[c].live
    /\ p = None \/ (Known(p) /\ \A t \in Threads : Holds(t) => job[t].pack # p)
    /\ chat' = [chat EXCEPT ![c].pack = p] /\ raced' = raced \ {c}
    /\ UNCHANGED <<pending, designs, accepted, loose, leaked>>

-----------------------------------------------------------------------------
(* Requests served in several steps.                                       *)

Begin(t, kind, c, p, first, then) ==
    /\ At(t, "idle") /\ Served
    /\ job' = [job EXCEPT ![t] = [NoJob EXCEPT !.kind = kind, !.chat = c, !.pack = p,
                                              !.then = then]]
    /\ pc' = [pc EXCEPT ![t] = first] /\ UNCHANGED key
    /\ UNCHANGED <<store, locks, troubles, links, owner, history>>

\* A client names packs it was told of, by an import or by GET /document-packs.
Listed(p) == p \in dirs /\ file[p]["summary"] # 0

Upload(t, c) == Begin(t, "upload", c, None, IF c = None THEN "make" ELSE "reserve", "look")
Read(t, p)    == Listed(p) /\ Begin(t, "read", None, p, "enter", "look")
Correct(t, p) == Listed(p) /\ Begin(t, "correct", None, p, "enter", "note")
Delete(t, p, c) == Listed(p) /\ Begin(t, "delete", c, p, "detach", "bury")
\* _validate_chat_document_pack_binding: the chat and the request name the same pack.
Create(t, c) == chat[c].live /\ Begin(t, "create", c, chat[c].pack, "claim", "look")

Keep == UNCHANGED <<store, locks, troubles, served>>

\* begin_document_pack_ingest.
Reserve(t) ==
    /\ At(t, "reserve") /\ Free
    /\ LET c == job[t].chat
       IN  IF chat[c].live /\ chat[c].pack = None /\ c \notin pending
           THEN pending' = pending \cup {c} /\ Goto(t, "make")
           ELSE UNCHANGED pending /\ Goto(t, "done")
    /\ Keep /\ UNCHANGED <<chat, designs, accepted, owner, history>>

\* complete_document_pack_ingest looks the pack up before it takes the lock.
Made(t) ==
    /\ At(t, "made")
    /\ Goto(t, IF job[t].chat = None THEN "done" ELSE "enter")
    /\ Keep /\ UNCHANGED <<links, owner, history>>

Link(t) ==
    /\ At(t, "seen") /\ job[t].kind = "upload" /\ Free
    /\ LET c == job[t].chat
       IN  /\ chat' = [chat EXCEPT ![c].pack = job[t].pack]
           /\ pending' = pending \ {c}
           /\ raced' = IF Known(job[t].pack) THEN raced \ {c} ELSE raced \cup {c}
    /\ Goto(t, "done")
    /\ Keep /\ UNCHANGED <<designs, accepted, owner, loose, leaked>>

\* The finally of create_document_pack.
Cancel(t) ==
    /\ At(t, "unmade") \/ (At(t, "unseen") /\ job[t].kind = "upload")
    /\ Free \/ job[t].chat = None
    /\ \/ pending' = pending \ {job[t].chat} /\ UNCHANGED <<leaked, troubles>>
       \/ /\ job[t].chat # None /\ Trouble
          /\ leaked' = leaked \cup {job[t].chat} /\ UNCHANGED pending
    /\ Goto(t, "done")
    /\ UNCHANGED <<store, locks, served, chat, designs, accepted, owner, raced, loose>>

\* delete_document_pack keeps creation_lock to the end.
Detach(t) ==
    /\ At(t, "detach") /\ Free
    /\ LET c == job[t].chat
           p == job[t].pack
           linked == {d \in Chats : chat[d].pack = p}
       IN  IF linked = IF c = None THEN {} ELSE {c}
           THEN /\ chat' = [d \in Chats |-> IF d = c THEN [chat[d] EXCEPT !.pack = None]
                                            ELSE chat[d]]
                /\ raced' = raced \ {c}
                /\ owner' = t /\ Goto(t, "enter")
           ELSE UNCHANGED <<chat, owner, raced>> /\ Goto(t, "done")
    /\ Keep /\ UNCHANGED <<pending, designs, accepted, loose, leaked>>

\* After a failed deletion the link is restored when the pack can still be read.
Relink(t) ==
    /\ job[t].kind = "delete"
    /\ \/ /\ At(t, "failed")
          /\ pc' = [pc EXCEPT ![t] = "enter"] /\ job' = [job EXCEPT ![t].then = "look"]
          /\ UNCHANGED <<key, chat>>
       \/ /\ At(t, "seen") /\ Goto(t, "done")
          /\ chat' = [c \in Chats |-> IF c = job[t].chat
                                      THEN [chat[c] EXCEPT !.pack = job[t].pack] ELSE chat[c]]
       \/ pc[t] \in {"unseen", "gone", "deleted"} /\ Goto(t, "done") /\ UNCHANGED chat
    /\ Keep /\ UNCHANGED <<pending, designs, accepted, owner, history>>

\* Mutant: create_for_chat trusts the check made before it had the lock.
ClaimAnyway(t) ==
    /\ At(t, "claim") /\ Free
    /\ owner' = t /\ Goto(t, IF job[t].pack = None THEN "accept" ELSE "enter")
    /\ Keep /\ UNCHANGED <<links, history>>

\* create_for_chat refuses a chat that has a design, or went.
Claim(t) ==
    /\ At(t, "claim") /\ Free
    /\ IF chat[job[t].chat].live /\ chat[job[t].chat].design = None
       THEN owner' = t /\ Goto(t, IF job[t].pack = None THEN "accept" ELSE "enter")
       ELSE UNCHANGED owner /\ Goto(t, "done")
    /\ Keep /\ UNCHANGED <<links, history>>

\* The design is accepted, or refused: no place, no disk, no brief, facts that changed.
Accept(t) ==
    /\ At(t, "accept") \/ (At(t, "seen") /\ job[t].kind = "create")
    /\ \/ \E w \in Designs \ accepted :
            /\ \A v \in Designs \ accepted : w <= v
            /\ accepted' = accepted \cup {w} /\ designs' = designs \cup {w}
            /\ job' = [job EXCEPT ![t].revision = w] /\ pc' = [pc EXCEPT ![t] = "bind"]
            /\ UNCHANGED key
       \/ Goto(t, "done") /\ UNCHANGED <<designs, accepted>>
    /\ Keep /\ UNCHANGED <<chat, pending, owner, history>>

\* update_chat: a chat never trades its design; the pack of the request is linked again.
Bind(t) ==
    /\ At(t, "bind")
    /\ LET c == job[t].chat
           w == job[t].revision
           p == job[t].pack
       IN  \/ /\ IF chat[c].live /\ chat[c].design \in {None, w}
                 THEN chat' = [chat EXCEPT ![c].design = w,
                                           ![c].pack = IF p = None THEN @ ELSE p]
                 ELSE UNCHANGED chat
              /\ raced' = IF p = None THEN raced ELSE raced \ {c}
              /\ UNCHANGED <<loose, troubles>>
           \/ Trouble /\ loose' = loose \cup {w} /\ UNCHANGED <<chat, raced>>
    /\ Goto(t, "done")
    /\ UNCHANGED <<store, locks, served, pending, designs, accepted, owner, leaked>>

\* The answer, and the release of creation_lock where the request holds it.
Answer(t) ==
    /\ At(t, "done") \/ (pc[t] \in {"seen", "unseen"} /\ job[t].kind = "read")
       \/ (At(t, "unseen") /\ job[t].kind = "create")
    /\ pc' = [pc EXCEPT ![t] = "idle"] /\ job' = [job EXCEPT ![t] = NoJob] /\ UNCHANGED key
    /\ owner' = IF owner = t THEN None ELSE owner
    /\ Keep /\ UNCHANGED <<links, history>>

\* The process dies and starts again: what it held is gone, reservations are deleted.
Die ==
    /\ Trouble
    /\ pc' = [t \in Threads |-> "idle"] /\ job' = [t \in Threads |-> NoJob]
    /\ key' = [t \in Threads |-> None] /\ owner' = None
    /\ table' = [p \in Packs |-> None] /\ users' = [p \in Packs |-> 0]
    /\ pending' = {} /\ leaked' = {}
    /\ torn' = torn \cup {p \in dirs : ~Agree(file[p])}
    /\ lost' = lost \cup buried
    /\ loose' = loose \cup {job[t].revision : t \in {u \in Threads : At(u, "bind")}}
    /\ UNCHANGED <<dirs, file, buried, tomb, memory, named, chat, designs, accepted, served,
                   raced>>

\* All is answered. Anything else that stops is a deadlock: the lock of a pack is taken
\* with creation_lock held, never the other way round.
Rest ==
    /\ served = Requests /\ \A t \in Threads : At(t, "idle")
    /\ UNCHANGED vars

Step(t) ==
    \/ PackStep(t) /\ UNCHANGED <<links, owner, served, history>>
    \/ Reserve(t) \/ Made(t) \/ Link(t) \/ Cancel(t) \/ Detach(t) \/ Relink(t)
    \/ Claim(t) \/ Accept(t) \/ Bind(t) \/ Answer(t)

Ask(t) ==
    \/ \E c \in Chats \cup {None} : Upload(t, c)
    \/ \E p \in Packs : Read(t, p) \/ Correct(t, p) \/ \E c \in Chats \cup {None} : Delete(t, p, c)
    \/ \E c \in Chats : Create(t, c)

Next ==
    \/ \E t \in Threads : Step(t) \/ Ask(t)
    \/ \E w \in Designs : DeleteDesign(w)
    \/ \E c \in Chats : DeleteChat(c) \/ CreateChat(c)
                        \/ \E p \in Packs \cup {None} : PatchPack(c, p)
    \/ DeleteProject
    \/ Die
    \/ Rest

Spec == Init /\ [][Next]_vars

-----------------------------------------------------------------------------

(* A conversation keeps no link to a deleted pack, except where the end of *)
(* an import links a pack that was deleted after it had been looked up, or    *)
(* an import fails that was listed and linked before its end               *)
(* (complete_document_pack_ingest, delete_document_pack, ingest_zip).      *)
LinkedPacksExist ==
    \A c \in Chats :
        chat[c].pack # None => Known(chat[c].pack) \/ c \in raced \/ chat[c].pack \in lost

(* A design of a conversation exists and belongs to no other; and every    *)
(* design accepted for a conversation is linked to it, unless the link     *)
(* failed or the conversation went: none is ever accepted for a            *)
(* conversation that has one already (create_for_chat).                    *)
DesignsBelongToChats ==
    /\ \A c \in Chats : chat[c].design # None =>
          /\ chat[c].design \in designs
          /\ \A d \in Chats \ {c} : chat[d].design # chat[c].design
    /\ \A w \in designs \ loose :
          \/ \E c \in Chats : chat[c].design = w
          \/ \E t \in Threads : At(t, "bind") /\ job[t].revision = w

(* A reservation belongs to an existing conversation and to an import      *)
(* under way, unless it could not be cancelled                             *)
(* (begin_document_pack_ingest).                                           *)
ReservationsHaveImports ==
    \A c \in pending :
        /\ chat[c].live
        /\ c \in leaked \/ \E t \in Threads : job[t].kind = "upload" /\ job[t].chat = c

\* Imports, corrections and deletions exclude each other, and after a failure or a death the
\* files and the memory of a pack agree on what it is (DocumentPackService).
PacksConsistent == TypeOK /\ OneOperationPerPack /\ RevisionsAgree /\ MemoryFollowsPack

\* Chats, packs, designs and reservations point at each other and at nothing that is gone
\* (WorkspaceStore, main.py).
LinksHold == LinkedPacksExist /\ DesignsBelongToChats /\ ReservationsHaveImports
=============================================================================
