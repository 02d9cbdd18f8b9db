---------------------------- MODULE EventStream ----------------------------
(***************************************************************************)
(* GET /designs/{id}/events/stream: how a browser follows a workflow live. *)
(*                                                                         *)
(* Threads that emit append to the journal first and then put the event    *)
(* into the bounded queue of the subscriber they saw, dropping the oldest  *)
(* one when it is full.  stream_events registers its queue, replays the    *)
(* journal after the browser's cursor, then takes from the queue, reading  *)
(* the journal again over a gap in the sequence and once more when nothing *)
(* came for a while and the workflow is no longer active.  The browser     *)
(* reconnects with the last event it received.                             *)
(***************************************************************************)
EXTENDS EventJournal

CONSTANTS
    Emitters,        \* threads that emit events of the workflow
    QueueSize,       \* _SUBSCRIBER_QUEUE_MAX_SIZE
    MaxConnections,  \* bound on connections in a behaviour
    MaxOperations    \* bound on activations of the workflow

ASSUME StreamAssumption ==
    /\ QueueSize \in Nat \ {0}
    /\ {MaxConnections, MaxOperations} \subseteq Nat

VARIABLES
    active,       \* _is_workflow_active
    operations,   \* activations so far
    epc,          \* the step of _emit_workflow_event each thread is at
    carried,      \* the event it carries, and to which subscriber
    connection,   \* number of the current connection; its queue is the subscriber
    spc,          \* the step of stream_events; "off" when there is none
    queue,        \* its subscriber queue
    seen,         \* seen_event_ids
    lastSequence, \* last_sequence
    held,         \* the event taken from the queue
    sent,         \* events yielded on this connection
    got,          \* events the browser received on earlier connections
    finished      \* history: the last stream ended because nothing was active

emission == <<epc, carried>>
stream   == <<spc, seen, lastSequence, held, sent>>
streamVars == <<journal, active, operations, emission, connection, stream, queue,
                got, finished>>

-----------------------------------------------------------------------------

NoLine == [event |-> 0, seq |-> 0, terminal |-> FALSE]

\* What the queue holds of a record: the identity, the sequence, the kind.
Shown(l) == [event |-> l.event, seq |-> l.seq, terminal |-> l.tag.terminal]

ShownLines == [i \in DOMAIN Readable |-> Shown(Readable[i])]

Items == [event : 0..MaxEvents, seq : 0..MaxEvents, terminal : BOOLEAN]

StreamTypeOK ==
    /\ JournalTypeOK
    /\ active \in BOOLEAN /\ operations \in 0..MaxOperations
    /\ epc \in [Emitters -> {"idle", "snapshot", "put", "evict", "put_again"}]
    /\ carried \in [Emitters -> [item : Items, to : 0..MaxConnections]]
    /\ connection \in 0..MaxConnections
    /\ spc \in {"off", "registered", "wait", "gap", "quiet", "last"}
    /\ queue \in Seq(Items) /\ Len(queue) <= QueueSize
    /\ seen \subseteq 1..MaxEvents
    /\ lastSequence \in 0..MaxEvents
    /\ held \in Items
    /\ sent \in Seq(Items)
    /\ got \in Seq(Items)
    /\ finished \in BOOLEAN

Nothing == [item |-> NoLine, to |-> 0]

StreamInit ==
    /\ JournalInit
    /\ active = FALSE /\ operations = 0
    /\ epc = [t \in Emitters |-> "idle"]
    /\ carried = [t \in Emitters |-> Nothing]
    /\ connection = 0 /\ spc = "off" /\ queue = <<>>
    /\ seen = {} /\ lastSequence = 0 /\ held = NoLine
    /\ sent = <<>> /\ got = <<>> /\ finished = FALSE

-----------------------------------------------------------------------------
(* Operations and the events they emit.                                    *)

Activate ==
    /\ ~active /\ operations < MaxOperations
    /\ active' = TRUE /\ operations' = operations + 1
    /\ finished' = FALSE
    /\ UNCHANGED <<journal, emission, connection, stream, queue, got>>

\* An operation is marked inactive after its last event was pushed.
Deactivate ==
    /\ active /\ \A t \in Emitters : epc[t] = "idle"
    /\ active' = FALSE
    /\ UNCHANGED <<journal, operations, emission, connection, stream, queue,
                   got, finished>>

Tag(terminal) == [terminal |-> terminal, active |-> active]

\* A rollback emits without an active count.
Emit(t, terminal) ==
    /\ epc[t] = "idle"
    /\ AppendEvent(Tag(terminal))
    /\ epc' = [epc EXCEPT ![t] = "snapshot"]
    /\ carried' = [carried EXCEPT ![t] =
                     [item |-> [event |-> emitted + 1, seq |-> LastSequence + 1,
                                terminal |-> terminal],
                      to |-> 0]]
    /\ UNCHANGED <<active, operations, connection, stream, queue, got, finished>>

\* append raises: nothing is pushed.
EmitFails(t, terminal) ==
    /\ epc[t] = "idle"
    /\ AppendTorn(Tag(terminal)) \/ AppendUnsynced(Tag(terminal))
    /\ UNCHANGED <<active, operations, emission, connection, stream, queue, got,
                   finished>>

EmissionOver(t) ==
    /\ epc' = [epc EXCEPT ![t] = "idle"]
    /\ carried' = [carried EXCEPT ![t] = Nothing]

\* The subscribers, under _lock.
Snapshot(t) ==
    /\ epc[t] = "snapshot"
    /\ IF spc = "off"
       THEN EmissionOver(t)
       ELSE /\ epc' = [epc EXCEPT ![t] = "put"]
            /\ carried' = [carried EXCEPT ![t].to = connection]
    /\ UNCHANGED <<journal, active, operations, connection, stream, queue, got,
                   finished>>

\* A queue whose stream is over is still there for the threads that saw it.
ToOldQueue(t) == spc = "off" \/ carried[t].to # connection

Full      == Len(queue) >= QueueSize

\* put_nowait, get_nowait on a full queue, put_nowait again; a queue another
\* thread filled in between keeps that thread's event.
Put(t) ==
    /\ epc[t] \in {"put", "put_again"}
    /\ \/ /\ ~ToOldQueue(t) /\ ~Full
          /\ queue' = Append(queue, carried[t].item)
          /\ EmissionOver(t)
       \/ /\ ~ToOldQueue(t) /\ Full /\ epc[t] = "put"
          /\ epc' = [epc EXCEPT ![t] = "evict"]
          /\ UNCHANGED <<carried, queue>>
       \/ /\ ToOldQueue(t) \/ (Full /\ epc[t] = "put_again")
          /\ EmissionOver(t)
          /\ UNCHANGED queue
    /\ UNCHANGED <<journal, active, operations, connection, stream, got, finished>>

Evict(t) ==
    /\ epc[t] = "evict"
    /\ queue' = IF ToOldQueue(t) \/ queue = <<>> THEN queue ELSE Tail(queue)
    /\ epc' = [epc EXCEPT ![t] = "put_again"]
    /\ UNCHANGED <<journal, active, operations, carried, connection, stream, got,
                   finished>>

-----------------------------------------------------------------------------
(* stream_events.  Between two of its steps other threads run; what it      *)
(* yields in one step depends on its locals alone.                          *)

\* The browser asks for what follows the last event it received.
Cursor == IF got = <<>> THEN 0 ELSE got[Len(got)].event

Connect ==
    /\ spc = "off" /\ connection < MaxConnections
    /\ connection' = connection + 1
    /\ spc' = "registered"
    /\ queue' = <<>> /\ seen' = {} /\ lastSequence' = 0
    /\ held' = NoLine /\ sent' = <<>> /\ finished' = FALSE
    /\ UNCHANGED <<journal, active, operations, emission, got>>

\* The generator ends: the browser has received all it yielded.
End ==
    /\ spc' = "off" /\ queue' = <<>> /\ held' = NoLine
    /\ got' = got \o sent'

\* Mutant: the queue is trusted, a gap is not read back.
NeverGap(item) == FALSE
Gap(item)      == item.seq > lastSequence + 1

\* Yields the items of s, all unseen, and continues at next, or ends after s.
Yield(s, over, next) ==
    /\ sent' = sent \o s
    /\ seen' = seen \cup EventsOf(s)
    /\ lastSequence' = Max({lastSequence, Greatest(s)})
    /\ IF over THEN End ELSE spc' = next /\ held' = NoLine /\ UNCHANGED <<queue, got>>

EndsTerminal(s) == s # <<>> /\ s[Len(s)].terminal

\* events_after: what follows the cursor; an unknown cursor replays all.
AfterCursor ==
    IF Cursor \in EventsOf(Readable)
    THEN SelectSeq(ShownLines, LAMBDA l : l.event > Cursor)
    ELSE ShownLines

\* What precedes the cursor counts as seen.
Replay ==
    /\ spc = "registered"
    /\ sent' = AfterCursor
    /\ seen' = EventsOf(Readable)
    /\ lastSequence' = Greatest(Readable)
    /\ IF EndsTerminal(AfterCursor)
       THEN End
       ELSE spc' = "wait" /\ UNCHANGED <<held, queue, got>>
    /\ UNCHANGED <<journal, active, operations, emission, connection, finished>>

Unseen(l) == l.event \notin seen

\* The next item of the queue: read the journal first over a gap, skip what was
\* yielded already, or yield it.
Receive ==
    /\ spc = "wait" /\ queue # <<>>
    /\ LET item == Head(queue) IN
          \/ /\ Gap(item)
             /\ held' = item /\ spc' = "gap" /\ queue' = Tail(queue)
             /\ UNCHANGED <<seen, lastSequence, sent, got>>
          \/ /\ ~Gap(item) /\ ~Unseen(item)
             /\ queue' = Tail(queue)
             /\ UNCHANGED <<spc, seen, lastSequence, held, sent, got>>
          \/ /\ ~Gap(item) /\ Unseen(item)
             /\ sent' = Append(sent, item)
             /\ seen' = seen \cup {item.event}
             /\ lastSequence' = Max({lastSequence, item.seq})
             /\ IF item.terminal
                THEN End
                ELSE queue' = Tail(queue) /\ UNCHANGED <<spc, held, got>>
    /\ UNCHANGED <<journal, active, operations, emission, connection, finished>>

\* What fills the gap: the unseen records, up to the first one past the event
\* held or to a terminal one, which ends the stream.
StopsBefore(l, m) ==
    Unseen(m) /\ (\/ m.event <= l.event /\ m.seq > held.seq
                  \/ m.event < l.event /\ m.terminal)

Missing ==
    SelectSeq(ShownLines,
              LAMBDA l : Unseen(l) /\ ~\E m \in ToSet(ShownLines) : StopsBefore(l, m))

Caught ==
    IF EndsTerminal(Missing) \/ held.event \in EventsOf(Missing) \cup seen
    THEN Missing
    ELSE Append(Missing, held)

FillGap ==
    /\ spc = "gap"
    /\ Yield(Caught, EndsTerminal(Caught), "wait")
    /\ UNCHANGED <<journal, active, operations, emission, connection, finished>>

\* queue.Empty after half a second.
TimeOut ==
    /\ spc = "wait" /\ queue = <<>>
    /\ spc' = "quiet"
    /\ UNCHANGED <<journal, active, operations, emission, connection, queue, seen,
                   lastSequence, held, sent, got, finished>>

CheckActive ==
    /\ spc = "quiet"
    /\ spc' = IF active THEN "wait" ELSE "last"
    /\ UNCHANGED <<journal, active, operations, emission, connection, queue, seen,
                   lastSequence, held, sent, got, finished>>

\* Mutant: what is left in the journal is not read before the end.
NothingLeft == <<>>
LastCatchUp == SelectSeq(ShownLines, Unseen)

CatchUp ==
    /\ spc = "last"
    /\ Yield(LastCatchUp, TRUE, "off")
    /\ finished' = ~active
    /\ UNCHANGED <<journal, active, operations, emission, connection>>

\* The browser goes away; the last events yielded may not have reached it.
Disconnect ==
    /\ spc # "off"
    /\ \E n \in 0..Len(sent) : got' = got \o SubSeq(sent, 1, n)
    /\ spc' = "off" /\ queue' = <<>> /\ held' = NoLine
    /\ UNCHANGED <<journal, active, operations, emission, connection, seen,
                   lastSequence, sent, finished>>

\* The server dies and is restarted: threads, queues and streams are gone.
Crash ==
    /\ \E terminal \in BOOLEAN : ProcessDies(Tag(terminal))
    /\ active' = FALSE
    /\ epc' = [t \in Emitters |-> "idle"]
    /\ carried' = [t \in Emitters |-> Nothing]
    /\ IF spc = "off"
       THEN UNCHANGED got
       ELSE \E n \in 0..Len(sent) : got' = got \o SubSeq(sent, 1, n)
    /\ spc' = "off" /\ queue' = <<>> /\ held' = NoLine
    /\ UNCHANGED <<operations, connection, seen, lastSequence, sent, finished>>

StreamStep ==
    Replay \/ Receive \/ FillGap \/ TimeOut \/ CheckActive \/ CatchUp

EmitterStep(t) == Snapshot(t) \/ Put(t) \/ Evict(t)

\* What the server's threads do, and what a streaming browser has done.
Server ==
    \/ Activate \/ Deactivate \/ Crash
    \/ \E t \in Emitters :
          \/ EmitterStep(t)
          \/ \E terminal \in BOOLEAN : Emit(t, terminal) \/ EmitFails(t, terminal)
Browser == Connect \/ StreamStep \/ Disconnect

\* Threads run; operations end, since every external call of theirs has a
\* timeout.  Nobody has to emit, to connect or to disconnect.
Progress ==
    /\ WF_streamVars(StreamStep) /\ WF_streamVars(Deactivate)
    /\ \A t \in Emitters : WF_streamVars(EmitterStep(t))

-----------------------------------------------------------------------------
(* Properties.                                                             *)

Journaled(s) == SelectSeq(s, LAMBDA l : l.event \in EventsOf(Readable))

\* What a connection delivers of the journal is, in order and without a hole,
\* the run of records that follows the cursor: full queues, threads that push
\* out of order, torn lines and restarts included.
DeliversInOrder ==
    unsynced = 0 =>
        LET skipped == seen \ EventsOf(sent)
        IN  IsPrefix(Journaled(sent),
                     SelectSeq(ShownLines, LAMBDA l : l.event \notin skipped))

\* As long as no line was torn, a browser that reconnects receives every event
\* once over all its connections, in the order of the journal.
DeliversOnce ==
    tears = 0 /\ unsynced = 0 =>
        IsPrefix(got \o (IF spc = "off" THEN <<>> ELSE sent), ShownLines)

\* A stream that ended because nothing was active delivered every readable
\* event of the operations before it.
FinishedMeansComplete ==
    finished /\ spc = "off" =>
        \A i \in DOMAIN Readable : Readable[i].tag.active => Readable[i].event \in seen

Followed(e) == spc \notin {"off", "registered"} /\ e \in EventsOf(Readable)

\* A stream delivers each event of the journal, even one whose place in the
\* queue was lost, unless a terminal event, the browser or a death ends it.
StreamCatchesUp ==
    \A e \in 1..MaxEvents :
        Followed(e) ~> \/ e \in seen
                       \/ e \notin EventsOf(Readable)
                       \/ spc = "off" /\ ~finished
=============================================================================
