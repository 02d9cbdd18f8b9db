---------------------------- MODULE EventJournal ----------------------------
(***************************************************************************)
(* workflow_events.jsonl of one workflow, as EventLogService writes and    *)
(* reads it.  A line is a record that parses or does not; the file may end *)
(* in a line without its newline after a write that failed or a death in   *)
(* the middle of one, and the next record is then written on that line.    *)
(* The per-path lock makes an append and a read one step each.  Records    *)
(* without a sequence, written by older releases, are left out.            *)
(***************************************************************************)
EXTENDS Naturals, Sequences, FiniteSets, SequencesExt

CONSTANTS
    MaxEvents,    \* bound on appends in a behaviour
    MaxFaults,    \* bound on torn lines, failing fsyncs and process deaths together
    Unknown       \* no entry for the path in _EVENT_LOG_SEQUENCES

ASSUME JournalAssumption ==
    /\ {MaxEvents, MaxFaults} \subseteq Nat
    /\ Unknown \notin Nat

VARIABLES
    lines,     \* the file
    open,      \* its last line has no newline yet
    cache,     \* _EVENT_LOG_SEQUENCES for this path
    emitted,   \* appends tried: events are numbered in file order, 1..emitted
    told,      \* history: events whose append returned
    tears, unsynced, deaths

journal == <<lines, open, cache, emitted, told, tears, unsynced, deaths>>

Tags == [terminal : BOOLEAN, active : BOOLEAN]

Line == [event : 1..MaxEvents, seq : 1..MaxEvents, parses : BOOLEAN, tag : Tags]

JournalTypeOK ==
    /\ lines \in Seq(Line) /\ Len(lines) <= MaxEvents
    /\ open \in BOOLEAN /\ (open => lines # <<>>)
    /\ cache \in {Unknown} \cup 0..MaxEvents
    /\ emitted \in 0..MaxEvents
    /\ told \subseteq 1..emitted
    /\ tears \in 0..MaxFaults
    /\ unsynced \in 0..MaxFaults
    /\ deaths \in 0..MaxFaults

JournalInit ==
    /\ lines = <<>> /\ open = FALSE /\ cache = Unknown
    /\ emitted = 0 /\ told = {}
    /\ tears = 0 /\ unsynced = 0 /\ deaths = 0

\* Lines that do not parse are skipped: by read_events, ...
Parsed == {i \in DOMAIN lines : lines[i].parses}
Readable == SelectSeq(lines, LAMBDA l : l.parses)

EventsOf(s) == {s[i].event : i \in DOMAIN s}

Greatest(s) ==
    IF s = <<>> THEN 0 ELSE Max({s[i].seq : i \in DOMAIN s})

\* ... and by _last_persisted_sequence, after a restart.
LastPersisted == Max({0} \cup {lines[i].seq : i \in Parsed})
LastSequence == IF cache = Unknown THEN LastPersisted ELSE cache

\* Mutant: the record is written without its newline.
Unterminated(ends) == TRUE
LeftOpen(ends)     == ~ends

\* The text of one record reaches the file: on a line of its own, or at the end
\* of a line left without newline, which then parses no more.
Write(tag, parses, ends) ==
    /\ lines' = IF open
                THEN [lines EXCEPT ![Len(lines)].parses = FALSE]
                ELSE Append(lines, [event  |-> emitted + 1,
                                    seq    |-> LastSequence + 1,
                                    parses |-> parses,
                                    tag    |-> tag])
    /\ open' = LeftOpen(ends)
    /\ emitted' = emitted + 1

CachedSequence == LastSequence + 1

\* append returns: the sequence cache moves with the file.
AppendEvent(tag) ==
    /\ emitted < MaxEvents
    /\ Write(tag, TRUE, TRUE)
    /\ cache' = CachedSequence
    /\ told' = told \cup {emitted + 1}
    /\ UNCHANGED <<tears, unsynced, deaths>>

FaultsLeft == tears + unsynced + deaths < MaxFaults

\* The write raises when part of the record, or all of it but the newline, is
\* in the file; the cache is not reached.
TearLine(tag) ==
    /\ emitted < MaxEvents /\ FaultsLeft
    /\ \E parses \in BOOLEAN : Write(tag, parses, FALSE)
    /\ tears' = tears + 1

AppendTorn(tag) == TearLine(tag) /\ UNCHANGED <<cache, told, unsynced, deaths>>

\* The write succeeds and os.fsync raises.
AppendUnsynced(tag) ==
    /\ emitted < MaxEvents /\ FaultsLeft
    /\ Write(tag, TRUE, TRUE)
    /\ unsynced' = unsynced + 1
    /\ UNCHANGED <<cache, told, tears, deaths>>

\* The process dies: between two appends, in the middle of one, or after the
\* write of one and before its answer.  The caches go with it.
ProcessDies(tag) ==
    /\ FaultsLeft
    /\ deaths' = deaths + 1
    /\ cache' = Unknown
    /\ \/ UNCHANGED <<lines, open, emitted, tears>>
       \/ TearLine(tag)
       \/ emitted < MaxEvents /\ Write(tag, TRUE, TRUE) /\ UNCHANGED tears
    /\ UNCHANGED <<told, unsynced>>

-----------------------------------------------------------------------------
(* Properties.                                                             *)

\* Sequence numbers follow the file order, and no two readable records share
\* one unless an fsync failed after its write: a restart, which derives the
\* last number from the file, and torn lines do not disturb them.
SequencesOrdered ==
    \A i, j \in Parsed : i < j =>
        \/ lines[i].seq < lines[j].seq
        \/ unsynced > 0 /\ lines[i].seq = lines[j].seq

\* A torn line costs at most the one acknowledged event written on it.
LossBounded == Cardinality(told \ {lines[i].event : i \in Parsed}) <= tears

\* The journal's records are numbered in order, and an acknowledged event is lost only to a
\* line that was already torn (EventLogService.append, emit).
JournalSound == JournalTypeOK /\ SequencesOrdered /\ LossBounded
=============================================================================
