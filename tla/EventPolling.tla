---------------------------- MODULE EventPolling ----------------------------
(***************************************************************************)
(* The other way to follow a workflow: a browser that polls                *)
(* GET /designs/{id}/events?after_sequence=N.                              *)
(*                                                                         *)
(* The browser keeps the greatest sequence it received and asks for what   *)
(* follows; get_events uses that number as an offset into the readable     *)
(* records and answers with at most one page.  A behaviour has a browser   *)
(* that streams or one that polls, and the same threads that emit.         *)
(***************************************************************************)
EXTENDS EventStream

CONSTANTS
    PageSize,    \* limit of list_events_page
    MaxStreamed  \* bound: events in the behaviours of a browser that streams

ASSUME PollingAssumption ==
    PageSize \in Nat \ {0} /\ MaxStreamed \in 0..MaxEvents

VARIABLES
    polls,   \* the browser polls
    polled,  \* events it received, in order
    cursor   \* eventSequenceCursorRef, 0 before the first event

polling == <<polls, polled, cursor>>

PollTypeOK ==
    /\ polls \in BOOLEAN
    /\ polled \in Seq(1..MaxEvents)
    /\ cursor \in 0..MaxEvents
    /\ polls => connection = 0

FollowInit == StreamInit /\ polls \in BOOLEAN /\ polled = <<>> /\ cursor = 0

\* read_events(offset, limit): offset and limit count readable records.
Page(n) == SubSeq(Readable, n + 1, Min({Len(Readable), n + PageSize}))

\* The first request carries no cursor and is answered with every event.
Answer == IF cursor = 0 THEN Readable ELSE Page(cursor)

\* appendUniqueEvents: an event already received is not added again.
New(s) == SelectSeq(s, LAMBDA l : l.event \notin ToSet(polled))

Poll ==
    /\ polls
    /\ polled' = polled \o [i \in DOMAIN New(Answer) |-> New(Answer)[i].event]
    /\ cursor' = Max({cursor, Greatest(Answer)})
    /\ UNCHANGED <<streamVars, polls>>

FollowNext ==
    \/ polls /\ Server /\ UNCHANGED polling
    \/ /\ ~polls /\ (Server \/ Browser) /\ emitted' <= MaxStreamed
       /\ UNCHANGED polling
    \/ Poll

FollowSpec == FollowInit /\ [][FollowNext]_<<streamVars, polling>> /\ Progress

-----------------------------------------------------------------------------
(* Properties.                                                             *)

\* As long as no append failed, polling delivers the journal: every event, in
\* order, once, restarts included.
PollingDelivers ==
    tears = 0 /\ unsynced = 0 =>
        IsPrefix(polled, [i \in DOMAIN Readable |-> Readable[i].event])

\* By stream or by polls, over dropped queues, gaps, late events and reconnections, the
\* browser has the journal in order, once, and all of it when it is told the end
\* (workflow_events.py, event_log.py, sse.ts, useDesignWorkflow.ts).
BrowserIsTold ==
    /\ StreamTypeOK /\ PollTypeOK
    /\ DeliversInOrder /\ DeliversOnce /\ FinishedMeansComplete /\ PollingDelivers
=============================================================================
