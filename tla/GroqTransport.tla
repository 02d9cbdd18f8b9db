--------------------------- MODULE GroqTransport ---------------------------
(***************************************************************************)
(* The transport the capability clients share: a pool of API credentials,  *)
(* one circuit per capability, and the retry loop of                       *)
(* request_chat_completion.                                                *)
(*                                                                         *)
(* Every action is what one caller does under one acquisition of the pool  *)
(* lock, or what the provider answers; other callers run in between.       *)
(* Instants the code compares with its clock are kept as the time that is  *)
(* left, so that Tick is the only action that knows of time.               *)
(***************************************************************************)
EXTENDS Integers, FiniteSets

CONSTANTS
    Callers,            \* threads inside a capability client
    Capabilities,
    Setups,             \* how the transport may be constructed: number of
                        \* credentials, max_in_flight_per_credential,
                        \* max_transient_retries, circuit_failure_threshold;
                        \* and the requests a client may make for one answer
    ResetTime,          \* circuit_reset_s
    RetryAfter,         \* delays a 429 may ask for
    AcquireTimeout,     \* pool_acquire_timeout_s
    Nobody              \* no credential

ASSUME TransportAssumption ==
    /\ Setups \subseteq [count : 1 .. 8, inFlight : 1 .. 16, retries : 0 .. 5,
                   threshold : 1 .. 20, rounds : 1 .. 2]
    /\ Setups # {}
    /\ ResetTime \in Nat \ {0}
    /\ RetryAfter \subseteq Nat
    /\ \E most \in RetryAfter : \A d \in RetryAfter : d <= most  \* max_retry_after_s
    /\ AcquireTimeout \in Nat \ {0}
    /\ Nobody \notin 0 .. 7
    /\ IsFiniteSet(Callers) /\ Capabilities # {}

VARIABLES
    setup,    \* the constructor's arguments
    pool,     \* per credential: inFlight, cooling (time left), disabled, forbidden
    cursor,   \* _selection_cursor
    circuit,  \* per capability: failures, open, left
    closed,   \* _closed
    call,     \* per caller: the request it makes and the step it is at
    limits,   \* history: time left of the last 429 of each credential, and
              \* whether another request on it was answered since
    tally     \* history: retryable failures of a capability since its last
              \* success or reset

vars == <<setup, pool, cursor, circuit, closed, call, limits, tally>>

Count       == setup.count
Credentials == 0 .. Count - 1
MaxInFlight == setup.inFlight
MaxRetries  == setup.retries
Threshold   == setup.threshold

-----------------------------------------------------------------------------

Pcs == {"idle", "gate", "acquire", "exhausted", "again", "cooling", "wait",
        "post", "decide", "backoff", "release", "failed", "validate"}

\* _classify_error and the errors of the loop itself, by what is made of them:
\* may the request be sent again, may the client ask for another answer?
Errors == {"none", "fatal", "rejected", "retryable"}

NoCall == [pc |-> "idle", cap |-> CHOOSE c \in Capabilities : TRUE, round |-> 0,
           attempt |-> 0, transient |-> 0, tried |-> {}, cred |-> Nobody,
           err |-> "none", next |-> "idle", wait |-> 0, refusedBy |-> {}]

Least(a, b)   == IF a < b THEN a ELSE b
AttemptLimit  == IF MaxRetries + 1 > Count THEN MaxRetries + 1 ELSE Count
Sooner(n)     == IF n = 0 THEN 0 ELSE n - 1
MaxDelay      == CHOOSE d \in RetryAfter : \A e \in RetryAfter : e <= d
Holding       == {"post", "decide", "backoff", "release"}
Holders(c)    == {t \in Callers : call[t].pc \in Holding /\ call[t].cred = c}

TypeOK ==
    /\ setup \in Setups
    /\ pool \in [Credentials -> [inFlight : 0 .. MaxInFlight, cooling : 0 .. MaxDelay,
                                 disabled : BOOLEAN, forbidden : SUBSET Capabilities]]
    /\ cursor \in Credentials
    /\ circuit \in [Capabilities -> [failures : 0 .. Threshold, open : BOOLEAN,
                                     left : 0 .. ResetTime]]
    /\ closed \in BOOLEAN
    /\ call \in [Callers -> [pc : Pcs, cap : Capabilities, round : 0 .. 2,
                             attempt : 0 .. AttemptLimit, transient : 0 .. AttemptLimit,
                             tried : SUBSET Credentials, cred : Credentials \cup {Nobody},
                             err : Errors, next : Pcs,
                             wait : 0 .. AcquireTimeout, refusedBy : SUBSET Credentials]]
    /\ limits \in [Credentials -> [left : 0 .. MaxDelay, answered : BOOLEAN]]
    /\ tally \in [Capabilities -> 0 .. Threshold]

Init ==
    /\ setup \in Setups
    /\ pool = [c \in Credentials |-> [inFlight |-> 0, cooling |-> 0,
                                      disabled |-> FALSE, forbidden |-> {}]]
    /\ cursor = 0
    /\ circuit = [k \in Capabilities |-> [failures |-> 0, open |-> FALSE, left |-> 0]]
    /\ closed = FALSE
    /\ call = [t \in Callers |-> NoCall]
    /\ limits = [c \in Credentials |-> [left |-> 0, answered |-> FALSE]]
    /\ tally = [k \in Capabilities |-> 0]

-----------------------------------------------------------------------------
(* The pool.                                                               *)

Disabled(c, k) == pool[c].disabled \/ k \in pool[c].forbidden

Ready(c, k) ==
    /\ ~Disabled(c, k)
    /\ pool[c].cooling = 0
    /\ pool[c].inFlight < MaxInFlight

Eligible(t) == {c \in Credentials \ call[t].tried : Ready(c, call[t].cap)}

\* The least loaded credential, the first of them from the cursor on.
Selected(S) ==
    LET idle == {c \in S : \A d \in S : pool[c].inFlight <= pool[d].inFlight}
    IN  CHOOSE c \in idle : \A d \in idle : (c - cursor) % Count <= (d - cursor) % Count

Take(t, c) ==
    /\ pool' = [pool EXCEPT ![c].inFlight = @ + 1]
    /\ cursor' = (c + 1) % Count
    /\ call' = [call EXCEPT ![t].pc = "post", ![t].cred = c, ![t].attempt = @ + 1]

At(t, step) == call[t].pc = step
GoTo(t, step) ==
    /\ call' = [call EXCEPT ![t].pc = step]
    /\ UNCHANGED <<setup, pool, cursor, circuit, closed, limits, tally>>

Fail(t, err) ==
    /\ call' = [call EXCEPT ![t] = [NoCall EXCEPT !.pc = "failed", !.err = err,
                                     !.cap = call[t].cap, !.round = call[t].round]]
    /\ UNCHANGED <<setup, pool, cursor, circuit, closed, limits, tally>>

-----------------------------------------------------------------------------
(* One call of request_chat_completion, from the capability client on.     *)

Request(t, k) ==
    /\ At(t, "idle")
    /\ ~closed
    /\ call' = [call EXCEPT ![t] = [NoCall EXCEPT !.pc = "gate", !.cap = k, !.round = 1]]
    /\ UNCHANGED <<setup, pool, cursor, circuit, closed, limits, tally>>

\* A circuit whose delay is over is reset for everybody by whoever comes first.
ResetCircuit(k) == [circuit EXCEPT ![k] = [failures |-> 0, open |-> FALSE, left |-> 0]]

\* _reject_if_circuit_open.
Gate(t) ==
    /\ At(t, "gate")
    /\ LET k == call[t].cap IN
       \/ /\ circuit[k].open /\ circuit[k].left > 0
          /\ call' = [call EXCEPT ![t] = NoCall]
          /\ UNCHANGED <<circuit, tally>>
       \/ /\ circuit[k].open /\ circuit[k].left = 0
          /\ circuit' = ResetCircuit(k)
          /\ tally' = [tally EXCEPT ![k] = 0]
          /\ call' = [call EXCEPT ![t].pc = "acquire"]
       \/ /\ ~circuit[k].open
          /\ call' = [call EXCEPT ![t].pc = "acquire"]
          /\ UNCHANGED <<circuit, tally>>
    /\ UNCHANGED <<setup, pool, cursor, closed, limits>>

\* The first try leaves out the credentials this call already used; the second
\* leaves out none.
Acquire(t) ==
    /\ call[t].pc \in {"acquire", "again"}
    /\ \/ /\ Eligible(t) # {}
          /\ Take(t, Selected(Eligible(t)))
          /\ UNCHANGED <<setup, circuit, closed, limits, tally>>
       \/ /\ Eligible(t) = {}
          /\ GoTo(t, IF At(t, "acquire") THEN "exhausted" ELSE "cooling")

Exhausted(t) ==
    /\ At(t, "exhausted")
    /\ \/ /\ \A c \in Credentials : Disabled(c, call[t].cap)
          /\ Fail(t, IF call[t].err = "none" THEN "fatal" ELSE call[t].err)
       \/ /\ \E c \in Credentials : ~Disabled(c, call[t].cap)
          /\ call' = [call EXCEPT ![t].pc = "again", ![t].tried = {}]
          /\ UNCHANGED <<setup, pool, cursor, circuit, closed, limits, tally>>

\* No wait while some account cools down: the caller is told instead.
Cooling(t) ==
    /\ At(t, "cooling")
    /\ \/ /\ \E c \in Credentials : ~pool[c].disabled /\ pool[c].cooling > 0
          /\ Fail(t, "retryable")
       \/ /\ \A c \in Credentials : pool[c].disabled \/ pool[c].cooling = 0
          /\ call' = [call EXCEPT ![t].pc = "wait", ![t].wait = AcquireTimeout]
          /\ UNCHANGED <<setup, pool, cursor, circuit, closed, limits, tally>>

\* _wait_for_credential_slot. A free slot is not reserved: the loop starts again.
WaitForSlot(t) ==
    /\ At(t, "wait")
    /\ \/ /\ ~closed
          /\ \E c \in Credentials : Ready(c, call[t].cap)
          /\ GoTo(t, "acquire")
       \/ /\ closed \/ /\ call[t].wait = 0
                       /\ \A c \in Credentials : ~Ready(c, call[t].cap)
          /\ Fail(t, "fatal")

-----------------------------------------------------------------------------
(* The answer, and what the loop makes of it.                              *)

\* _mark_credential_success: also a cooldown somebody else's 429 has just set.
Cleared(c) == [pool EXCEPT ![c].cooling = 0]

\* The loop is left with the credential still to be released.
Ending(t, next, err) ==
    [NoCall EXCEPT !.pc = "release", !.next = next, !.err = err, !.cap = call[t].cap,
                   !.round = call[t].round, !.cred = call[t].cred]

Answered(t) ==
    /\ At(t, "post")
    /\ pool' = Cleared(call[t].cred)
    /\ limits' = [limits EXCEPT ![call[t].cred].answered = limits[call[t].cred].left > 0]
    /\ call' = [call EXCEPT ![t] = Ending(t, "validate", "none")]
    /\ UNCHANGED <<setup, cursor, circuit, closed, tally>>

\* Mutant: a 403 is not remembered for the capability.
Forgiven(c, k, global) == IF global THEN [pool EXCEPT ![c].disabled = TRUE] ELSE pool

\* _disable_credential: for good after a 401, for the capability after a 403.
DisabledBy(c, k, global) ==
    IF global THEN [pool EXCEPT ![c].disabled = TRUE, ![c].cooling = 0]
              ELSE [pool EXCEPT ![c].forbidden = @ \cup {k}]

Refused(t, global) ==
    /\ At(t, "post")
    /\ LET c == call[t].cred IN
       /\ pool' = DisabledBy(c, call[t].cap, global)
       /\ call' = [call EXCEPT ![t].pc = "decide", ![t].err = "fatal",
                               ![t].tried = @ \cup {c}, ![t].refusedBy = @ \cup {c}]
    /\ UNCHANGED <<setup, cursor, circuit, closed, limits, tally>>

\* Mutant: a credential others still use is not cooled down.
NotWhileUsed(c, d) == IF pool[c].inFlight > 1 THEN pool ELSE [pool EXCEPT ![c].cooling = d]

\* _cooldown_credential: the last 429 decides, and a disabled credential cools too.
CooledDown(c, d) == [pool EXCEPT ![c].cooling = d]

Limited(t, d) ==
    /\ At(t, "post")
    /\ LET c == call[t].cred IN
       /\ pool' = CooledDown(c, d)
       /\ limits' = [limits EXCEPT ![c] = [left |-> d, answered |-> FALSE]]
       /\ call' = [call EXCEPT ![t].pc = "decide", ![t].err = "retryable",
                               ![t].tried = @ \cup {c}]
    /\ UNCHANGED <<setup, cursor, circuit, closed, tally>>

\* _has_ready_credential, then continue or break.
Decide(t) ==
    /\ At(t, "decide")
    /\ call' = IF call[t].attempt < AttemptLimit /\ Eligible(t) # {}
               THEN [call EXCEPT ![t].pc = "release", ![t].next = "acquire"]
               ELSE [call EXCEPT ![t] = Ending(t, "failed", call[t].err)]
    /\ UNCHANGED <<setup, pool, cursor, circuit, closed, limits, tally>>

MayRetry(t) ==
    /\ call[t].transient + 1 < MaxRetries + 1
    /\ call[t].attempt < AttemptLimit

\* A connection error or a 5xx: the caller sleeps with its credential in hand.
Transient(t) ==
    /\ At(t, "post")
    /\ call' = IF MayRetry(t)
               THEN [call EXCEPT ![t].pc = "backoff", ![t].next = "acquire",
                                 ![t].err = "retryable", ![t].transient = @ + 1]
               ELSE [call EXCEPT ![t] = Ending(t, "failed", "retryable")]
    /\ UNCHANGED <<setup, pool, cursor, circuit, closed, limits, tally>>

Wake(t) ==
    /\ At(t, "backoff")
    /\ LET tried == call[t].tried \cup {call[t].cred} IN
       call' = [call EXCEPT ![t].pc = "release",
                            ![t].tried = IF Cardinality(tried) >= Count THEN {} ELSE tried]
    /\ UNCHANGED <<setup, pool, cursor, circuit, closed, limits, tally>>

\* An ambiguous timeout, or a request the provider rejects.
Rejected(t, err) ==
    /\ At(t, "post")
    /\ err \in {"fatal", "rejected"}
    /\ call' = [call EXCEPT ![t] = Ending(t, "failed", err)]
    /\ UNCHANGED <<setup, pool, cursor, circuit, closed, limits, tally>>

\* Mutant: the slot of a call that goes on is kept.
KeepSlot(t) ==
    [pool EXCEPT ![call[t].cred].inFlight = IF call[t].next = "acquire" THEN @ ELSE @ - 1]

\* _release_credential, in the finally of every attempt.
Freed(t) == [pool EXCEPT ![call[t].cred].inFlight = IF @ > 0 THEN @ - 1 ELSE 0]

Release(t) ==
    /\ At(t, "release")
    /\ pool' = Freed(t)
    /\ call' = [call EXCEPT ![t].pc = call[t].next, ![t].next = "idle", ![t].cred = Nobody]
    /\ UNCHANGED <<setup, cursor, circuit, closed, limits, tally>>

-----------------------------------------------------------------------------
(* The end of a call, and the client's second request.                     *)

\* mark_failed. A failure that does not count still leaves one in the count.
Failure(k, retryable) ==
    LET n == IF retryable THEN Least(circuit[k].failures + 1, Threshold)
             ELSE IF circuit[k].failures = 0 THEN 1 ELSE circuit[k].failures
    IN  IF retryable /\ n >= Threshold
        THEN [circuit EXCEPT ![k] = [failures |-> n, open |-> TRUE, left |-> ResetTime]]
        ELSE [circuit EXCEPT ![k].failures = n]

\* Mutant: a request whose answer was rejected is always made again.
AlwaysAgain(t) == [NoCall EXCEPT !.pc = "gate", !.cap = call[t].cap]

\* The client's loop: a rejected answer is asked for once more where the
\* capability allows it, unless the transport has been closed.
AskAgain(t) ==
    IF call[t].round < setup.rounds /\ ~closed
    THEN [NoCall EXCEPT !.pc = "gate", !.cap = call[t].cap, !.round = call[t].round + 1]
    ELSE NoCall

Failed(t) ==
    /\ At(t, "failed")
    /\ LET k == call[t].cap
           counts == call[t].err = "retryable"
       IN  /\ circuit' = Failure(k, counts)
           /\ tally' = IF counts THEN [tally EXCEPT ![k] = Least(@ + 1, Threshold)] ELSE tally
           /\ call' = [call EXCEPT ![t] = IF call[t].err = "rejected" THEN AskAgain(t)
                                      ELSE NoCall]
    /\ UNCHANGED <<setup, pool, cursor, closed, limits>>

\* The client accepts the answer: mark_operational.
Accept(t) ==
    /\ At(t, "validate")
    /\ circuit' = [circuit EXCEPT ![call[t].cap] = [failures |-> 0, open |-> FALSE, left |-> 0]]
    /\ tally' = [tally EXCEPT ![call[t].cap] = 0]
    /\ call' = [call EXCEPT ![t] = NoCall]
    /\ UNCHANGED <<setup, pool, cursor, closed, limits>>

\* The client rejects it: once more where its capability allows, else mark_failed.
RejectAnswer(t) ==
    /\ At(t, "validate")
    /\ call' = [call EXCEPT ![t] = AskAgain(t)]
    /\ circuit' = IF AskAgain(t) = NoCall THEN Failure(call[t].cap, FALSE) ELSE circuit
    /\ UNCHANGED <<setup, pool, cursor, closed, limits, tally>>

-----------------------------------------------------------------------------

\* health(): a reader of the status clears a circuit whose delay is over, and
\* leaves its failures.
ReadHealth(k) ==
    /\ circuit[k].open /\ circuit[k].left = 0
    /\ circuit' = [circuit EXCEPT ![k].open = FALSE]
    /\ UNCHANGED <<setup, pool, cursor, closed, call, limits, tally>>

Close ==
    /\ ~closed
    /\ closed' = TRUE
    /\ UNCHANGED <<setup, pool, cursor, circuit, call, limits, tally>>

Tick ==
    /\ pool' = [c \in Credentials |-> [pool[c] EXCEPT !.cooling = Sooner(@)]]
    /\ circuit' = [k \in Capabilities |-> [circuit[k] EXCEPT !.left = Sooner(@)]]
    /\ call' = [t \in Callers |-> [call[t] EXCEPT !.wait = Sooner(@)]]
    /\ limits' = [c \in Credentials |-> [left |-> Sooner(limits[c].left),
                                        answered |-> limits[c].answered /\ limits[c].left > 1]]
    /\ UNCHANGED <<setup, cursor, closed, tally>>

\* What a caller does once it has made its request.
Step(t) ==
    \/ Gate(t) \/ Acquire(t) \/ Exhausted(t) \/ Cooling(t) \/ WaitForSlot(t)
    \/ Answered(t) \/ Transient(t)
    \/ \E global \in BOOLEAN : Refused(t, global)
    \/ \E d \in RetryAfter : Limited(t, d)
    \/ \E err \in {"fatal", "rejected"} : Rejected(t, err)
    \/ Decide(t) \/ Wake(t) \/ Release(t) \/ Failed(t) \/ Accept(t) \/ RejectAnswer(t)

Next ==
    \/ \E t \in Callers, k \in Capabilities : Request(t, k)
    \/ \E t \in Callers : Step(t)
    \/ \E k \in Capabilities : ReadHealth(k)
    \/ Close
    \/ Tick

Spec == Init /\ [][Next]_vars

\* Threads are scheduled, requests have a timeout, and time passes.
Fairness == WF_vars(Tick) /\ \A t \in Callers : WF_vars(Step(t))

FairSpec == Spec /\ Fairness

-----------------------------------------------------------------------------

(* The count the pool keeps of the requests on a credential is the number  *)
(* of callers that hold it, whatever way their attempts ended, and never   *)
(* passes max_in_flight_per_credential (_acquire_credential against the    *)
(* release in the finally, and the sleep before another attempt).          *)
SlotsAccounted ==
    \A c \in Credentials : /\ pool[c].inFlight = Cardinality(Holders(c))
                            /\ pool[c].inFlight <= MaxInFlight

(* A call does not send its request again on a credential that refused it  *)
(* with 401 or 403, although the set of credentials it already tried is    *)
(* emptied when all have been (attempted_credentials.clear()).             *)
RefusalsStand ==
    \A t \in Callers : At(t, "post") => call[t].cred \notin call[t].refusedBy

(* A credential is taken before the delay of its last 429 is over only if  *)
(* some request on it was answered after that 429: no other path of the    *)
(* concurrent callers clears or shortens the cooldown.                     *)
LimitsHonoured ==
    [][\A t \in Callers :
           (~At(t, "post") /\ At(t, "post")')
               => LET c == call'[t].cred IN limits[c].left = 0 \/ limits[c].answered]_vars

(* However failovers and retries mix, a call that sends its request again  *)
(* had at most max_transient_retries transient failures before, and no     *)
(* more requests than the attempt limit.                                   *)
OneBudget ==
    \A t \in Callers : At(t, "post") => /\ call[t].transient <= MaxRetries
                                       /\ call[t].attempt <= AttemptLimit

(* A circuit is open only after Threshold - 1 failures of its capability   *)
(* that may be retried, counted since its last success or reset by a       *)
(* request; a failure that may not stands for one of them, and a reader of *)
(* the health gives none of them back.                                     *)
CircuitEarned ==
    \A k \in Capabilities : circuit[k].open => tally[k] >= Threshold - 1

(* Once the transport is closed every call ends: no caller stays in the    *)
(* wait for a slot, in a retry or in the client's second request.          *)
ShutdownDrains == closed ~> \A t \in Callers : At(t, "idle")

\* However callers interleave, slots are counted, a refusal stands, a request keeps to one
\* budget of attempts and a circuit opens for failures that count (GroqTransport).
PoolSafe == TypeOK /\ SlotsAccounted /\ RefusalsStand /\ OneBudget /\ CircuitEarned
=============================================================================
