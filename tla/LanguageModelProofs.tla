-------------------------- MODULE LanguageModelProofs --------------------------
(***************************************************************************)
(* Theorems of what the language models are asked and of what they answer: *)
(* of GroqTransport, that carries every question, for any number of        *)
(* callers and capabilities and for every way the transport may be         *)
(* constructed; and of CognitiveDesign, the designs that are planned and   *)
(* drafted from the answers, for any plans and replies a schema admits.    *)
(*                                                                         *)
(* GroqTransport.  What a call has used of its budget depends on its step  *)
(* (Budget); what a credential refused stays disabled for the capability   *)
(* (Refusals); an answered request is the only one that takes a cooldown   *)
(* away early (Cooldowns); and the failures a circuit counts are at most   *)
(* one more than those that may be retried (Failures).                     *)
(*                                                                         *)
(* CognitiveDesign.  Every accepted program is one the contract admits, it *)
(* is pinned to its component and stands on the ground (DraftingOK); every *)
(* placement is where its relation puts it (Standings); what the worker    *)
(* has made of a node is what the contract measured (ObjectOK); and what   *)
(* was certified compiles again until the catalogue changes (Current).     *)
(***************************************************************************)
EXTENDS GroqTransport, CognitiveDesign, FiniteSetTheorems, SequenceTheorems,
        WellFoundedInduction, TLAPS

\* The steps from which a call takes a credential, with none in hand.
Seeking == {"acquire", "exhausted", "again", "cooling", "wait"}

Affords(r) == r.attempt < AttemptLimit /\ r.transient <= MaxRetries

\* What a call has left, and what it holds, at each of its steps.
BudgetOf(r) ==
    /\ r.pc = "gate" => r.attempt = 0 /\ r.transient = 0
    /\ r.pc \in Seeking \cup {"backoff"} => Affords(r)
    /\ r.pc = "release" => /\ r.next \in {"acquire", "failed", "validate"}
                           /\ r.next = "acquire" => Affords(r)
    /\ r.pc \in {"post", "decide"} => r.attempt <= AttemptLimit /\ r.transient <= MaxRetries
    /\ r.pc \in Holding => r.cred \in Credentials
    /\ r.pc = "backoff" => r.next = "acquire"

Budget == \A t \in Callers : BudgetOf(call[t])

\* A refusal is remembered by the pool for as long as the call that met it runs.
Refusals == \A t \in Callers : \A c \in call[t].refusedBy : Disabled(c, call[t].cap)

\* Until it is over, the delay of the last 429 is the cooldown of the pool.
Cooldowns == \A c \in Credentials :
    \/ limits[c].left = 0 \/ limits[c].answered
    \/ pool[c].disabled \/ pool[c].cooling = limits[c].left

\* The failures of a circuit are those that count, and one.
Failures == \A k \in Capabilities :
    /\ circuit[k].failures <= tally[k] + 1
    /\ circuit[k].open => tally[k] >= Threshold - 1

Safe == TypeOK /\ SlotsAccounted /\ RefusalsStand /\ Budget /\ Refusals /\ Cooldowns /\ Failures

-----------------------------------------------------------------------------
(* Types.                                                                  *)

PoolSet == [inFlight : 0 .. MaxInFlight, cooling : 0 .. MaxDelay, disabled : BOOLEAN,
            forbidden : SUBSET Capabilities]
CircuitSet == [failures : 0 .. Threshold, open : BOOLEAN, left : 0 .. ResetTime]
LimitSet == [left : 0 .. MaxDelay, answered : BOOLEAN]
CallSet == [pc : Pcs, cap : Capabilities, round : 0 .. 2, attempt : 0 .. AttemptLimit,
            transient : 0 .. AttemptLimit, tried : SUBSET Credentials,
            cred : Credentials \cup {Nobody}, err : Errors, next : Pcs,
            wait : 0 .. AcquireTimeout, refusedBy : SUBSET Credentials]

Types ==
    /\ pool \in [Credentials -> PoolSet] /\ cursor \in Credentials
    /\ circuit \in [Capabilities -> CircuitSet] /\ closed \in BOOLEAN
    /\ call \in [Callers -> CallSet] /\ limits \in [Credentials -> LimitSet]
    /\ tally \in [Capabilities -> 0 .. Threshold]

LEMMA TypesSplit == TypeOK <=> setup \in Setups /\ Types
  BY DEF TypeOK, Types, PoolSet, CircuitSet, LimitSet, CallSet

LEMMA MaxDelayType == MaxDelay \in Nat /\ \A d \in RetryAfter : d \in 0 .. MaxDelay
  <1>1. MaxDelay \in RetryAfter /\ \A d \in RetryAfter : d <= MaxDelay
    BY TransportAssumption DEF MaxDelay
  <1> QED  BY <1>1, TransportAssumption

LEMMA SetupTypes ==
    ASSUME setup \in Setups
    PROVE  /\ Count \in 1 .. 8 /\ MaxInFlight \in 1 .. 16 /\ MaxRetries \in 0 .. 5
           /\ Threshold \in 1 .. 20 /\ setup.rounds \in 1 .. 2
           /\ AttemptLimit \in Nat /\ AttemptLimit >= MaxRetries + 1
           /\ Credentials \subseteq 0 .. 7 /\ Nobody \notin Credentials /\ 0 \in Credentials
  <1>1. /\ setup.count \in 1 .. 8 /\ setup.inFlight \in 1 .. 16 /\ setup.retries \in 0 .. 5
        /\ setup.threshold \in 1 .. 20 /\ setup.rounds \in 1 .. 2
    BY TransportAssumption
  <1> QED
    BY <1>1, TransportAssumption
    DEF Count, MaxInFlight, MaxRetries, Threshold, AttemptLimit, Credentials

LEMMA SetupStep ==
    ASSUME [Next]_vars
    PROVE  setup' = setup
  <1>1. ASSUME NEW t \in Callers, Step(t)
        PROVE  setup' = setup
    <2>1. CASE Gate(t) \/ Acquire(t) \/ Exhausted(t) \/ Cooling(t) \/ WaitForSlot(t)
      BY <2>1 DEF Gate, Acquire, Take, Exhausted, Cooling, WaitForSlot, GoTo, Fail
    <2>2. CASE \/ Answered(t) \/ Transient(t) \/ (\E g \in BOOLEAN : Refused(t, g))
               \/ (\E d \in RetryAfter : Limited(t, d))
               \/ (\E e \in {"fatal", "rejected"} : Rejected(t, e))
      BY <2>2 DEF Answered, Transient, Refused, Limited, Rejected
    <2>3. CASE \/ Decide(t) \/ Wake(t) \/ Release(t) \/ Failed(t) \/ Accept(t)
               \/ RejectAnswer(t)
      BY <2>3 DEF Decide, Wake, Release, Failed, Accept, RejectAnswer
    <2> QED  BY <1>1, <2>1, <2>2, <2>3 DEF Step
  <1> QED  BY <1>1 DEF Next, vars, Request, ReadHealth, Close, Tick

\* Nothing that depends on the constructor's arguments changes.
LEMMA SetupKept ==
    ASSUME setup' = setup
    PROVE  /\ Count' = Count /\ Credentials' = Credentials /\ MaxInFlight' = MaxInFlight
           /\ MaxRetries' = MaxRetries /\ Threshold' = Threshold /\ AttemptLimit' = AttemptLimit
           /\ PoolSet' = PoolSet /\ CircuitSet' = CircuitSet /\ CallSet' = CallSet
  <1>1. /\ Count' = Count /\ MaxInFlight' = MaxInFlight /\ MaxRetries' = MaxRetries
        /\ Threshold' = Threshold
    BY DEF Count, MaxInFlight, MaxRetries, Threshold
  <1>2. Credentials' = Credentials /\ AttemptLimit' = AttemptLimit
    BY <1>1 DEF Credentials, AttemptLimit
  <1> QED  BY <1>1, <1>2 DEF PoolSet, CircuitSet, CallSet

LEMMA NoCallType ==
    ASSUME setup \in Setups
    PROVE  NoCall \in CallSet
  <1>1. (CHOOSE c \in Capabilities : TRUE) \in Capabilities  BY TransportAssumption
  <1> QED
    BY <1>1, SetupTypes, TransportAssumption DEF NoCall, CallSet, Pcs, Errors

-----------------------------------------------------------------------------
(* The choice of a credential.                                             *)

\* Small sets of numbers have a least element.
LEMMA Smallest ==
    ASSUME NEW T, T \subseteq 0 .. 16, NEW e \in T
    PROVE  \E m \in T : \A n \in T : m <= n
  BY SMTT(30)

LEMMA PoolFields ==
    ASSUME Types, NEW c \in Credentials
    PROVE  /\ pool[c].inFlight \in 0 .. MaxInFlight /\ pool[c].cooling \in 0 .. MaxDelay
           /\ pool[c].disabled \in BOOLEAN /\ pool[c].forbidden \subseteq Capabilities
           /\ pool[c] \in PoolSet
  <1>1. pool[c] \in PoolSet  BY DEF Types
  <1> QED  BY <1>1 DEF PoolSet

LEMMA SelectedIsOne ==
    ASSUME setup \in Setups, Types, NEW S, S \subseteq Credentials, S # {}
    PROVE  Selected(S) \in S
  <1> DEFINE idle == {c \in S : \A d \in S : pool[c].inFlight <= pool[d].inFlight}
             dist(c) == (c - cursor) % Count
  <1>1. \A c \in S : pool[c].inFlight \in 0 .. 16
    <2> SUFFICES ASSUME NEW c \in S PROVE pool[c].inFlight \in 0 .. 16  OBVIOUS
    <2>1. pool[c].inFlight \in 0 .. MaxInFlight /\ MaxInFlight \in 1 .. 16
      BY PoolFields, SetupTypes
    <2> QED  BY <2>1
  <1>2. PICK m \in {pool[c].inFlight : c \in S} : \A n \in {pool[c].inFlight : c \in S} : m <= n
    <2>1. {pool[c].inFlight : c \in S} \subseteq 0 .. 16 /\ {pool[c].inFlight : c \in S} # {}
      BY <1>1
    <2> QED  BY <2>1, Smallest
  <1>3. idle # {} /\ idle \subseteq S
    BY <1>2
  <1>4. \A c \in S : dist(c) \in 0 .. 16
    <2> SUFFICES ASSUME NEW c \in S PROVE dist(c) \in 0 .. 16  OBVIOUS
    <2>1. c \in Int /\ cursor \in Int /\ Count \in 1 .. 8
      BY SetupTypes DEF Types, Credentials
    <2> QED  BY <2>1
  <1> HIDE DEF idle, dist
  <1>5. \E c \in idle : \A d \in idle : dist(c) <= dist(d)
    <2>1. {dist(c) : c \in idle} \subseteq 0 .. 16 /\ {dist(c) : c \in idle} # {}
      BY <1>3, <1>4
    <2>2. PICK n \in {dist(c) : c \in idle} : \A k \in {dist(c) : c \in idle} : n <= k
      BY <2>1, Smallest
    <2> QED  BY <2>2
  <1>6. Selected(S) \in idle
    BY <1>5 DEF Selected, idle, dist
  <1> QED  BY <1>3, <1>6

-----------------------------------------------------------------------------
(* One call.                                                               *)

LEMMA CallFields ==
    ASSUME Types, NEW t \in Callers
    PROVE  /\ call[t].pc \in Pcs /\ call[t].cap \in Capabilities /\ call[t].round \in 0 .. 2
           /\ call[t].attempt \in 0 .. AttemptLimit /\ call[t].transient \in 0 .. AttemptLimit
           /\ call[t].tried \subseteq Credentials /\ call[t].cred \in Credentials \cup {Nobody}
           /\ call[t].err \in Errors /\ call[t].next \in Pcs
           /\ call[t].wait \in 0 .. AcquireTimeout /\ call[t].refusedBy \subseteq Credentials
           /\ call[t] \in CallSet
  <1>1. call[t] \in CallSet  BY DEF Types
  <1> QED  BY <1>1 DEF CallSet

\* A call that has ended, or starts again.
Blank(r) == /\ r \in CallSet /\ r.attempt = 0 /\ r.transient = 0 /\ r.refusedBy = {}
            /\ r.pc \in {"idle", "gate", "failed"}

LEMMA BlankBudget ==
    ASSUME NEW r, Blank(r)
    PROVE  BudgetOf(r)
  BY DEF Blank, BudgetOf, Seeking, Holding

LEMMA BlankNoCall ==
    ASSUME setup \in Setups
    PROVE  Blank(NoCall)
  BY NoCallType DEF Blank, NoCall

LEMMA BlankMade ==
    ASSUME NEW r, Blank(r), NEW k \in Capabilities, NEW n \in 0 .. 2,
           NEW p \in {"gate", "failed"}, NEW e \in Errors
    PROVE  /\ Blank([r EXCEPT !.pc = p, !.cap = k, !.round = n])
           /\ Blank([r EXCEPT !.pc = p, !.err = e, !.cap = k, !.round = n])
  BY DEF Blank, CallSet, Pcs

LEMMA AskAgainBlank ==
    ASSUME setup \in Setups, Types, NEW t \in Callers
    PROVE  Blank(AskAgain(t))
  <1>1. /\ call[t].cap \in Capabilities /\ call[t].round \in 0 .. 2
        /\ setup.rounds \in 1 .. 2 /\ Blank(NoCall)
    BY CallFields, SetupTypes, BlankNoCall
  <1>2. CASE call[t].round < setup.rounds /\ ~closed
    <2>1. call[t].round + 1 \in 0 .. 2 /\ "none" \in Errors  BY <1>1, <1>2, SMTT(30) DEF Errors
    <2>2. Blank([NoCall EXCEPT !.pc = "gate", !.cap = call[t].cap, !.round = call[t].round + 1])
      BY <1>1, <2>1, BlankMade
    <2> QED  BY <1>2, <2>2 DEF AskAgain
  <1> QED  BY <1>1, <1>2 DEF AskAgain

LEMMA EndingIs ==
    ASSUME setup \in Setups, Types, NEW t \in Callers, NEW next \in {"failed", "validate"},
           NEW e \in Errors
    PROVE  /\ Ending(t, next, e) \in CallSet /\ Ending(t, next, e).refusedBy = {}
           /\ Ending(t, next, e).pc = "release" /\ Ending(t, next, e).next = next
           /\ Ending(t, next, e).cred = call[t].cred
  <1>1. /\ call[t].cap \in Capabilities /\ call[t].round \in 0 .. 2
        /\ call[t].cred \in Credentials \cup {Nobody}
        /\ NoCall \in CallSet /\ NoCall.refusedBy = {}
    BY CallFields, BlankNoCall DEF Blank
  <1> DEFINE E(r, k, n, c) == [r EXCEPT !.pc = "release", !.next = next, !.err = e, !.cap = k,
                                        !.round = n, !.cred = c]
  <1>2. ASSUME NEW r \in CallSet, r.refusedBy = {}, NEW k \in Capabilities, NEW n \in 0 .. 2,
               NEW c \in Credentials \cup {Nobody}
        PROVE  /\ E(r, k, n, c) \in CallSet /\ E(r, k, n, c).refusedBy = {}
               /\ E(r, k, n, c).pc = "release" /\ E(r, k, n, c).next = next
               /\ E(r, k, n, c).cred = c
    BY <1>2 DEF CallSet, Pcs
  <1>3. Ending(t, next, e) = E(NoCall, call[t].cap, call[t].round, call[t].cred)
    BY DEF Ending
  <1> HIDE DEF E
  <1> QED  BY <1>1, <1>2, <1>3

-----------------------------------------------------------------------------
(* What a step of a call does to it, to its slot and to its refusals.      *)

\* Its own call alone, within its budget.
Moves(t) == call' = [call EXCEPT ![t] = call'[t]] /\ call'[t] \in CallSet /\ BudgetOf(call'[t])

Takes(t) == /\ call[t].pc \notin Holding /\ call'[t].pc = "post"
            /\ \E c \in Eligible(t) : /\ call'[t].cred = c
                                      /\ pool' = [pool EXCEPT ![c].inFlight = @ + 1]
FreesIt(t) == /\ call[t].pc \in Holding /\ call[t].cred \in Credentials
              /\ call'[t].pc \notin Holding /\ pool' = Freed(t)
KeepsIt(t) == /\ call'[t].pc \in Holding <=> call[t].pc \in Holding
              /\ call'[t].pc \in Holding => call'[t].cred = call[t].cred
              /\ call'[t].pc # "post"
              /\ \A c \in Credentials : pool'[c].inFlight = pool[c].inFlight
SlotMoves(t) == Takes(t) \/ FreesIt(t) \/ KeepsIt(t)

RefusalMoves(t) ==
    \/ call'[t].refusedBy = {}
    \/ call'[t].refusedBy = call[t].refusedBy /\ call'[t].cap = call[t].cap
    \/ \E g \in BOOLEAN : /\ Refused(t, g) /\ call'[t].cap = call[t].cap
                          /\ call'[t].refusedBy = call[t].refusedBy \cup {call[t].cred}

CallOK(t) == Moves(t) /\ SlotMoves(t) /\ RefusalMoves(t)

-----------------------------------------------------------------------------
(* The records the steps make of a call.                                   *)

\* What a step that only moves a call leaves in its record.
Alike(q, r) == /\ q \in CallSet /\ q.attempt = r.attempt /\ q.transient = r.transient
               /\ q.refusedBy = r.refusedBy /\ q.cap = r.cap

Moved(r, p)      == [r EXCEPT !.pc = p]
TriedOf(r, p, T) == [r EXCEPT !.pc = p, !.tried = T]
Waiting(r, w)    == [r EXCEPT !.pc = "wait", !.wait = w]
GoingOn(r, p, n) == [r EXCEPT !.pc = p, !.next = n]
Unheld(r, p)     == [r EXCEPT !.pc = p, !.next = "idle", !.cred = Nobody]
LimitedOf(r, T)  == [r EXCEPT !.pc = "decide", !.err = "retryable", !.tried = T]
Taken(r, c, a)   == [r EXCEPT !.pc = "post", !.cred = c, !.attempt = a]
Retried(r, n)    == [r EXCEPT !.pc = "backoff", !.next = "acquire", !.err = "retryable",
                              !.transient = n]
RefusedOf(r, T, R) ==
    [r EXCEPT !.pc = "decide", !.err = "fatal", !.tried = T, !.refusedBy = R]

LEMMA MovedRecord ==
    ASSUME NEW r \in CallSet, NEW p \in Pcs
    PROVE  Alike(Moved(r, p), r) /\ Moved(r, p).pc = p
  BY DEF Alike, CallSet, Moved

LEMMA TriedRecord ==
    ASSUME NEW r \in CallSet, NEW p \in Pcs, NEW T \in SUBSET Credentials
    PROVE  LET q == TriedOf(r, p, T)
           IN  Alike(q, r) /\ q.pc = p /\ q.cred = r.cred /\ q.next = r.next
  BY DEF Alike, CallSet, TriedOf

LEMMA WaitingRecord ==
    ASSUME NEW r \in CallSet, NEW w \in 0 .. AcquireTimeout
    PROVE  Alike(Waiting(r, w), r) /\ Waiting(r, w).pc = "wait"
  BY DEF Alike, CallSet, Pcs, Waiting

LEMMA GoingOnRecord ==
    ASSUME NEW r \in CallSet, NEW p \in Pcs, NEW n \in Pcs
    PROVE  LET q == GoingOn(r, p, n)
           IN  Alike(q, r) /\ q.pc = p /\ q.next = n /\ q.cred = r.cred
  BY DEF Alike, CallSet, GoingOn

LEMMA UnheldRecord ==
    ASSUME NEW r \in CallSet, NEW p \in Pcs
    PROVE  Alike(Unheld(r, p), r) /\ Unheld(r, p).pc = p
  BY DEF Alike, CallSet, Pcs, Unheld

LEMMA LimitedRecord ==
    ASSUME NEW r \in CallSet, NEW T \in SUBSET Credentials
    PROVE  LET q == LimitedOf(r, T) IN Alike(q, r) /\ q.pc = "decide" /\ q.cred = r.cred
  BY DEF Alike, CallSet, Pcs, Errors, LimitedOf

LEMMA TakenRecord ==
    ASSUME NEW r \in CallSet, NEW c \in Credentials, NEW a \in 0 .. AttemptLimit
    PROVE  LET q == Taken(r, c, a)
           IN  /\ q \in CallSet /\ q.pc = "post" /\ q.cred = c /\ q.attempt = a
               /\ q.transient = r.transient /\ q.refusedBy = r.refusedBy /\ q.cap = r.cap
  BY DEF CallSet, Pcs, Taken

LEMMA RetriedRecord ==
    ASSUME NEW r \in CallSet, NEW n \in 0 .. AttemptLimit
    PROVE  LET q == Retried(r, n)
           IN  /\ q \in CallSet /\ q.pc = "backoff" /\ q.next = "acquire" /\ q.transient = n
               /\ q.cred = r.cred /\ q.attempt = r.attempt /\ q.refusedBy = r.refusedBy
               /\ q.cap = r.cap
  BY DEF CallSet, Pcs, Errors, Retried

LEMMA RefusedRecord ==
    ASSUME NEW r \in CallSet, NEW T \in SUBSET Credentials, NEW R \in SUBSET Credentials
    PROVE  LET q == RefusedOf(r, T, R)
           IN  /\ q \in CallSet /\ q.pc = "decide" /\ q.cred = r.cred /\ q.attempt = r.attempt
               /\ q.transient = r.transient /\ q.refusedBy = R /\ q.cap = r.cap
  BY DEF CallSet, Pcs, Errors, RefusedOf

-----------------------------------------------------------------------------

\* The facts about a call the cases share.
LEMMA CallFacts ==
    ASSUME setup \in Setups, Types, Budget, NEW t \in Callers
    PROVE  /\ call[t] \in CallSet /\ BudgetOf(call[t])
           /\ \A q : [call EXCEPT ![t] = q][t] = q
           /\ AttemptLimit \in Nat /\ AttemptLimit >= MaxRetries + 1 /\ MaxRetries \in Nat
           /\ call[t].attempt \in Nat /\ call[t].transient \in Nat
           /\ call[t].cred \in Credentials \cup {Nobody}
           /\ call[t].cap \in Capabilities /\ call[t].round \in 0 .. 2 /\ call[t].err \in Errors
  <1>1. AttemptLimit \in Nat /\ AttemptLimit >= MaxRetries + 1 /\ MaxRetries \in Nat
    BY SetupTypes
  <1>2. DOMAIN call = Callers  BY DEF Types
  <1>3. \A q : [call EXCEPT ![t] = q][t] = q  BY <1>2
  <1>4. call[t].attempt \in Nat /\ call[t].transient \in Nat
    BY <1>1, CallFields
  <1>5. BudgetOf(call[t])  BY DEF Budget
  <1> QED  BY <1>1, <1>3, <1>4, <1>5, CallFields

LEMMA InFlightKept ==
    ASSUME Types, pool' = pool
    PROVE  \A c \in Credentials : pool'[c].inFlight = pool[c].inFlight
  OBVIOUS

\* A call that ends or starts again holds nothing before and after.
LEMMA BlankStep ==
    ASSUME setup \in Setups, Types, Budget, NEW t \in Callers, NEW q, Blank(q),
           call[t].pc \notin Holding, call' = [call EXCEPT ![t] = q], pool' = pool
    PROVE  CallOK(t)
  <1>1. call'[t] = q  BY CallFacts
  <1> QED
    BY <1>1, BlankBudget, InFlightKept DEF CallOK, Moves, SlotMoves, KeepsIt, RefusalMoves, Blank,
       Holding

\* The loop is left, with the credential in hand.
LEMMA EndingStep ==
    ASSUME setup \in Setups, Types, Budget, NEW t \in Callers, NEW next \in {"failed", "validate"},
           NEW e \in Errors, call[t].pc \in {"post", "decide"},
           call' = [call EXCEPT ![t] = Ending(t, next, e)],
           \A c \in Credentials : pool'[c].inFlight = pool[c].inFlight
    PROVE  CallOK(t)
  <1>1. call'[t] = Ending(t, next, e)  BY CallFacts
  <1>2. call[t].cred \in Credentials /\ call[t].pc \in Holding
    BY CallFacts DEF BudgetOf, Holding
  <1>3. /\ call'[t] \in CallSet /\ call'[t].refusedBy = {} /\ call'[t].pc = "release"
        /\ call'[t].next = next /\ call'[t].cred = call[t].cred
    BY <1>1, EndingIs
  <1>4. BudgetOf(call'[t])
    BY <1>2, <1>3 DEF BudgetOf, Seeking, Holding
  <1>5. Moves(t)  BY <1>1, <1>3, <1>4 DEF Moves
  <1>6. KeepsIt(t)  BY <1>2, <1>3 DEF KeepsIt, Holding
  <1> QED  BY <1>3, <1>5, <1>6 DEF CallOK, SlotMoves, RefusalMoves

\* A step from one place to another before a credential is taken.
LEMMA SeekingStep ==
    ASSUME setup \in Setups, Types, Budget, NEW t \in Callers, NEW q,
           call[t].pc \in Seeking \cup {"gate"}, q.pc \in Seeking, Alike(q, call[t]),
           call' = [call EXCEPT ![t] = q], pool' = pool
    PROVE  CallOK(t)
  <1>1. call'[t] = q  BY CallFacts
  <1>2. BudgetOf(q)
    BY CallFacts DEF BudgetOf, Affords, Seeking, Holding, Alike
  <1> QED
    BY <1>1, <1>2, InFlightKept DEF Alike, CallOK, Moves, SlotMoves, KeepsIt, RefusalMoves, Seeking,
       Holding

LEMMA RequestStep ==
    ASSUME setup \in Setups, Types, Budget, NEW t \in Callers, NEW k \in Capabilities,
           Request(t, k)
    PROVE  CallOK(t)
  <1>1. "none" \in Errors /\ 1 \in 0 .. 2  BY DEF Errors
  <1>2. Blank([NoCall EXCEPT !.pc = "gate", !.cap = k, !.round = 1])
    BY <1>1, BlankNoCall, BlankMade
  <1>3. /\ call[t].pc = "idle" /\ pool' = pool
        /\ call' = [call EXCEPT ![t] = [NoCall EXCEPT !.pc = "gate", !.cap = k, !.round = 1]]
    BY DEF Request, At
  <1>4. call[t].pc \notin Holding  BY <1>3 DEF Holding
  <1> QED  BY <1>2, <1>3, <1>4, BlankStep

LEMMA FailStep ==
    ASSUME setup \in Setups, Types, Budget, NEW t \in Callers, NEW e \in Errors,
           call[t].pc \in Seeking, Fail(t, e)
    PROVE  CallOK(t)
  <1>1. Blank([NoCall EXCEPT !.pc = "failed", !.err = e, !.cap = call[t].cap,
                             !.round = call[t].round])
    BY BlankNoCall, BlankMade, CallFacts
  <1>2. call[t].pc \notin Holding  BY DEF Seeking, Holding
  <1> QED  BY <1>1, <1>2, BlankStep DEF Fail

LEMMA GateStep ==
    ASSUME setup \in Setups, Types, Budget, NEW t \in Callers, Gate(t)
    PROVE  CallOK(t)
  <1>1. call[t].pc = "gate" /\ pool' = pool /\ call[t].pc \notin Holding
    BY DEF Gate, At, Holding
  <1>2. CASE call' = [call EXCEPT ![t] = NoCall]
    BY <1>1, <1>2, BlankNoCall, BlankStep
  <1>3. CASE call' = [call EXCEPT ![t].pc = "acquire"]
    <2> DEFINE q == Moved(call[t], "acquire")
    <2>1. Alike(q, call[t]) /\ q.pc = "acquire"
      BY CallFacts, MovedRecord DEF Pcs
    <2>2. call' = [call EXCEPT ![t] = q]  BY <1>3 DEF Moved
    <2> HIDE DEF q
    <2> QED  BY <1>1, <2>1, <2>2, SeekingStep DEF Seeking
  <1> QED  BY <1>2, <1>3 DEF Gate

LEMMA AcquireStep ==
    ASSUME setup \in Setups, Types, Budget, NEW t \in Callers, Acquire(t)
    PROVE  CallOK(t)
  <1> DEFINE r == call[t]
  <1>1. r.pc \in {"acquire", "again"} /\ r.pc \in Seeking
    BY DEF Acquire, Seeking
  <1>2. CASE Eligible(t) # {} /\ Take(t, Selected(Eligible(t)))
    <2>1. PICK c : c = Selected(Eligible(t))  OBVIOUS
    <2>2. c \in Eligible(t) /\ c \in Credentials
      <3>1. Eligible(t) \subseteq Credentials  BY DEF Eligible
      <3> QED  BY <1>2, <2>1, <3>1, SelectedIsOne
    <2> DEFINE q == Taken(r, c, r.attempt + 1)
    <2>3. /\ r.attempt + 1 \in 0 .. AttemptLimit
          /\ r.attempt < AttemptLimit /\ r.transient <= MaxRetries
      BY <1>1, CallFacts DEF BudgetOf, Affords
    <2>4. /\ q \in CallSet /\ q.pc = "post" /\ q.cred = c /\ q.attempt = r.attempt + 1
          /\ q.transient = r.transient /\ q.refusedBy = r.refusedBy /\ q.cap = r.cap
      BY <2>2, <2>3, CallFacts, TakenRecord
    <2>5. /\ call' = [call EXCEPT ![t] = q]
          /\ pool' = [pool EXCEPT ![c].inFlight = @ + 1]
      BY <1>2, <2>1 DEF Take, Taken
    <2> HIDE DEF q
    <2>6. call'[t] = q  BY <2>5, CallFacts
    <2>7. BudgetOf(q)
      BY <2>2, <2>3, <2>4, CallFacts DEF BudgetOf, Affords, Seeking, Holding
    <2>8. Moves(t)  BY <2>4, <2>5, <2>6, <2>7 DEF Moves
    <2>9. r.pc \notin Holding  BY <1>1 DEF Holding
    <2>10. Takes(t)  BY <2>2, <2>4, <2>5, <2>6, <2>9 DEF Takes
    <2> QED  BY <2>4, <2>6, <2>8, <2>10 DEF CallOK, SlotMoves, RefusalMoves
  <1>3. ASSUME NEW p \in {"exhausted", "cooling"}, GoTo(t, p)
        PROVE  CallOK(t)
    <2> DEFINE q == Moved(r, p)
    <2>1. Alike(q, r) /\ q.pc = p
      BY CallFacts, MovedRecord DEF Pcs
    <2>2. call' = [call EXCEPT ![t] = q] /\ pool' = pool  BY <1>3 DEF GoTo, Moved
    <2>3. q.pc \in Seeking  BY <2>1 DEF Seeking
    <2> HIDE DEF q
    <2> QED  BY <1>1, <2>1, <2>2, <2>3, SeekingStep
  <1> QED  BY <1>2, <1>3 DEF Acquire

LEMMA WaitingSteps ==
    ASSUME setup \in Setups, Types, Budget, NEW t \in Callers,
           Exhausted(t) \/ Cooling(t) \/ WaitForSlot(t)
    PROVE  CallOK(t)
  <1> DEFINE r == call[t]
  <1>1. r.pc \in Seeking
    BY DEF Exhausted, Cooling, WaitForSlot, At, Seeking
  <1>2. ASSUME NEW q, q.pc \in Seeking, Alike(q, r),
               call' = [call EXCEPT ![t] = q], pool' = pool
        PROVE  CallOK(t)
    BY <1>1, <1>2, SeekingStep
  <1>3. CASE Exhausted(t)
    <2>1. CASE Fail(t, IF r.err = "none" THEN "fatal" ELSE r.err)
      <3>1. (IF r.err = "none" THEN "fatal" ELSE r.err) \in Errors
        BY CallFacts DEF Errors
      <3> QED  BY <1>1, <2>1, <3>1, FailStep
    <2>2. CASE /\ call' = [call EXCEPT ![t].pc = "again", ![t].tried = {}] /\ pool' = pool
      <3> DEFINE q == TriedOf(r, "again", {})
      <3>1. Alike(q, r) /\ q.pc = "again"
        BY CallFacts, TriedRecord DEF Pcs
      <3>2. call' = [call EXCEPT ![t] = q]  BY <2>2 DEF TriedOf
      <3>3. q.pc \in Seeking  BY <3>1 DEF Seeking
      <3> HIDE DEF q
      <3> QED  BY <1>2, <2>2, <3>1, <3>2, <3>3
    <2> QED  BY <1>3, <2>1, <2>2 DEF Exhausted
  <1>4. CASE Cooling(t)
    <2>1. CASE Fail(t, "retryable")
      BY <1>1, <2>1, FailStep DEF Errors
    <2>2. CASE call' = [call EXCEPT ![t].pc = "wait", ![t].wait = AcquireTimeout] /\ pool' = pool
      <3> DEFINE q == Waiting(r, AcquireTimeout)
      <3>0. AcquireTimeout \in 0 .. AcquireTimeout  BY TransportAssumption
      <3>1. Alike(q, r) /\ q.pc = "wait"
        BY <3>0, CallFacts, WaitingRecord
      <3>2. call' = [call EXCEPT ![t] = q]  BY <2>2 DEF Waiting
      <3>3. q.pc \in Seeking  BY <3>1 DEF Seeking
      <3> HIDE DEF q
      <3> QED  BY <1>2, <2>2, <3>1, <3>2, <3>3
    <2> QED  BY <1>4, <2>1, <2>2 DEF Cooling
  <1>5. CASE WaitForSlot(t)
    <2>1. CASE Fail(t, "fatal")
      BY <1>1, <2>1, FailStep DEF Errors
    <2>2. CASE GoTo(t, "acquire")
      <3> DEFINE q == Moved(r, "acquire")
      <3>1. Alike(q, r) /\ q.pc = "acquire"
        BY CallFacts, MovedRecord DEF Pcs
      <3>2. call' = [call EXCEPT ![t] = q] /\ pool' = pool  BY <2>2 DEF GoTo, Moved
      <3>3. q.pc \in Seeking  BY <3>1 DEF Seeking
      <3> HIDE DEF q
      <3> QED  BY <1>2, <3>1, <3>2, <3>3
    <2> QED  BY <1>5, <2>1, <2>2 DEF WaitForSlot
  <1> QED  BY <1>3, <1>4, <1>5

\* A step with a credential in hand that keeps it.
LEMMA HoldingStep ==
    ASSUME setup \in Setups, Types, Budget, NEW t \in Callers, NEW q \in CallSet, BudgetOf(q),
           call[t].pc \in Holding, q.pc \in Holding \ {"post"}, q.cred = call[t].cred,
           q.refusedBy = call[t].refusedBy, q.cap = call[t].cap,
           call' = [call EXCEPT ![t] = q],
           \A c \in Credentials : pool'[c].inFlight = pool[c].inFlight
    PROVE  CallOK(t)
  <1>1. call'[t] = q  BY CallFacts
  <1>2. Moves(t)  BY <1>1 DEF Moves
  <1>3. KeepsIt(t)  BY <1>1 DEF KeepsIt
  <1> QED  BY <1>1, <1>2, <1>3 DEF CallOK, SlotMoves, RefusalMoves

\* What the provider's answer makes of the pool leaves its counts alone.
LEMMA MarksKeepCounts ==
    ASSUME Types, NEW c \in Credentials, NEW k, NEW g \in BOOLEAN, NEW d,
           pool' = Cleared(c) \/ pool' = DisabledBy(c, k, g) \/ pool' = CooledDown(c, d)
    PROVE  \A e \in Credentials : pool'[e].inFlight = pool[e].inFlight
  <1> SUFFICES ASSUME NEW e \in Credentials PROVE pool'[e].inFlight = pool[e].inFlight
    OBVIOUS
  <1>1. pool \in [Credentials -> PoolSet]  BY DEF Types
  <1>2. CASE pool' = Cleared(c)  BY <1>1, <1>2 DEF Cleared, PoolSet
  <1>3. CASE pool' = DisabledBy(c, k, g)  BY <1>1, <1>3 DEF DisabledBy, PoolSet
  <1>4. CASE pool' = CooledDown(c, d)  BY <1>1, <1>4 DEF CooledDown, PoolSet
  <1> QED  BY <1>2, <1>3, <1>4

LEMMA AnswerSteps ==
    ASSUME setup \in Setups, Types, Budget, NEW t \in Callers,
           \/ Answered(t) \/ \E g \in BOOLEAN : Refused(t, g)
           \/ \E d \in RetryAfter : Limited(t, d)
           \/ \E e \in {"fatal", "rejected"} : Rejected(t, e)
    PROVE  CallOK(t)
  <1> DEFINE r == call[t]
  <1>0. /\ r.pc = "post" /\ r.pc \in Holding /\ r.cred \in Credentials
        /\ r.attempt <= AttemptLimit /\ r.transient <= MaxRetries
    <2>1. r.pc = "post"  BY DEF Answered, Refused, Limited, Rejected, At
    <2> QED  BY <2>1, CallFacts DEF BudgetOf, Holding
  <1>1. CASE Answered(t)
    <2>1. \A c \in Credentials : pool'[c].inFlight = pool[c].inFlight
      BY <1>0, <1>1, MarksKeepCounts DEF Answered
    <2>2. call' = [call EXCEPT ![t] = Ending(t, "validate", "none")] /\ "none" \in Errors
      BY <1>1 DEF Answered, Errors
    <2> QED  BY <1>0, <2>1, <2>2, EndingStep
  <1>2. ASSUME NEW g \in BOOLEAN, Refused(t, g)
        PROVE  CallOK(t)
    <2> DEFINE q == RefusedOf(r, r.tried \cup {r.cred}, r.refusedBy \cup {r.cred})
    <2>1. /\ r.tried \cup {r.cred} \in SUBSET Credentials
          /\ r.refusedBy \cup {r.cred} \in SUBSET Credentials
      BY <1>0, CallFields
    <2>2. /\ q \in CallSet /\ q.pc = "decide" /\ q.cred = r.cred /\ q.attempt = r.attempt
          /\ q.transient = r.transient /\ q.refusedBy = r.refusedBy \cup {r.cred} /\ q.cap = r.cap
      BY <2>1, CallFacts, RefusedRecord
    <2>3. call' = [call EXCEPT ![t] = q]  BY <1>2 DEF Refused, RefusedOf
    <2>4. \A c \in Credentials : pool'[c].inFlight = pool[c].inFlight
      BY <1>0, <1>2, MarksKeepCounts DEF Refused
    <2> HIDE DEF q
    <2>5. call'[t] = q  BY <2>3, CallFacts
    <2>6. BudgetOf(q)  BY <1>0, <2>2 DEF BudgetOf, Seeking, Holding
    <2>7. Moves(t)  BY <2>2, <2>3, <2>5, <2>6 DEF Moves
    <2>8. KeepsIt(t)  BY <1>0, <2>2, <2>4, <2>5 DEF KeepsIt, Holding
    <2>9. RefusalMoves(t)  BY <1>2, <2>2, <2>5 DEF RefusalMoves
    <2> QED  BY <2>7, <2>8, <2>9 DEF CallOK, SlotMoves
  <1>3. ASSUME NEW d \in RetryAfter, Limited(t, d)
        PROVE  CallOK(t)
    <2> DEFINE q == LimitedOf(r, r.tried \cup {r.cred})
    <2>1. r.tried \cup {r.cred} \in SUBSET Credentials  BY <1>0, CallFields
    <2>2. Alike(q, r) /\ q.pc = "decide" /\ q.cred = r.cred
      BY <2>1, CallFacts, LimitedRecord
    <2>3. call' = [call EXCEPT ![t] = q]  BY <1>3 DEF Limited, LimitedOf
    <2>4. \A c \in Credentials : pool'[c].inFlight = pool[c].inFlight
      BY <1>0, <1>3, MarksKeepCounts DEF Limited
    <2> HIDE DEF q
    <2>5. BudgetOf(q)  BY <1>0, <2>2 DEF BudgetOf, Seeking, Holding, Alike
    <2>6. q \in CallSet /\ q.refusedBy = r.refusedBy /\ q.cap = r.cap
      BY <2>2 DEF Alike
    <2>7. q.pc \in Holding \ {"post"}  BY <2>2 DEF Holding
    <2> QED  BY <1>0, <2>2, <2>3, <2>4, <2>5, <2>6, <2>7, HoldingStep
  <1>4. ASSUME NEW e \in {"fatal", "rejected"}, Rejected(t, e)
        PROVE  CallOK(t)
    <2>1. call' = [call EXCEPT ![t] = Ending(t, "failed", e)] /\ pool' = pool
      BY <1>4 DEF Rejected
    <2>2. e \in Errors  BY DEF Errors
    <2> QED  BY <1>0, <2>1, <2>2, EndingStep, InFlightKept
  <1> QED  BY <1>1, <1>2, <1>3, <1>4

LEMMA TransientStep ==
    ASSUME setup \in Setups, Types, Budget, NEW t \in Callers, Transient(t)
    PROVE  CallOK(t)
  <1> DEFINE r == call[t]
  <1>0. /\ r.pc = "post" /\ r.pc \in Holding /\ r.cred \in Credentials /\ pool' = pool
    <2>1. r.pc = "post" /\ pool' = pool  BY DEF Transient, At
    <2> QED  BY <2>1, CallFacts DEF BudgetOf, Holding
  <1>1. CASE MayRetry(t)
    <2> DEFINE q == Retried(r, r.transient + 1)
    <2>1. /\ r.transient + 1 \in 0 .. AttemptLimit /\ r.transient + 1 <= MaxRetries
          /\ r.attempt < AttemptLimit
      BY <1>1, CallFacts DEF MayRetry
    <2>2. /\ q \in CallSet /\ q.pc = "backoff" /\ q.next = "acquire"
          /\ q.transient = r.transient + 1 /\ q.cred = r.cred /\ q.attempt = r.attempt
          /\ q.refusedBy = r.refusedBy /\ q.cap = r.cap
      <3>1. r \in CallSet  BY CallFacts
      <3> QED  BY <2>1, <3>1, RetriedRecord
    <2>3. call' = [call EXCEPT ![t] = q]  BY <1>1 DEF Transient, Retried
    <2> HIDE DEF q
    <2>4. BudgetOf(q)  BY <1>0, <2>1, <2>2 DEF BudgetOf, Affords, Seeking, Holding
    <2>5. q.pc \in Holding \ {"post"}  BY <2>2 DEF Holding
    <2> QED  BY <1>0, <2>2, <2>3, <2>4, <2>5, HoldingStep, InFlightKept
  <1>2. CASE ~MayRetry(t)
    <2>1. call' = [call EXCEPT ![t] = Ending(t, "failed", "retryable")]
      BY <1>2 DEF Transient
    <2>2. "retryable" \in Errors  BY DEF Errors
    <2> QED  BY <1>0, <2>1, <2>2, EndingStep, InFlightKept
  <1> QED  BY <1>1, <1>2

LEMMA DecideStep ==
    ASSUME setup \in Setups, Types, Budget, NEW t \in Callers, Decide(t)
    PROVE  CallOK(t)
  <1> DEFINE r == call[t]
  <1>0. /\ r.pc = "decide" /\ r.pc \in Holding /\ r.cred \in Credentials /\ pool' = pool
        /\ r.transient <= MaxRetries
    <2>1. r.pc = "decide" /\ pool' = pool  BY DEF Decide, At
    <2> QED  BY <2>1, CallFacts DEF BudgetOf, Holding
  <1>1. CASE r.attempt < AttemptLimit /\ Eligible(t) # {}
    <2> DEFINE q == GoingOn(r, "release", "acquire")
    <2>1. Alike(q, r) /\ q.pc = "release" /\ q.next = "acquire" /\ q.cred = r.cred
      BY CallFacts, GoingOnRecord DEF Pcs
    <2>2. call' = [call EXCEPT ![t] = q]  BY <1>1 DEF Decide, GoingOn
    <2> HIDE DEF q
    <2>3. BudgetOf(q)  BY <1>0, <1>1, <2>1 DEF BudgetOf, Affords, Seeking, Holding, Alike
    <2>4. q.pc \in Holding \ {"post"}  BY <2>1 DEF Holding
    <2>5. q \in CallSet /\ q.refusedBy = r.refusedBy /\ q.cap = r.cap  BY <2>1 DEF Alike
    <2> QED  BY <1>0, <2>1, <2>2, <2>3, <2>4, <2>5, HoldingStep, InFlightKept
  <1>2. CASE ~(r.attempt < AttemptLimit /\ Eligible(t) # {})
    <2>1. call' = [call EXCEPT ![t] = Ending(t, "failed", r.err)]
      BY <1>2 DEF Decide
    <2> QED  BY <1>0, <2>1, CallFacts, EndingStep, InFlightKept
  <1> QED  BY <1>1, <1>2

LEMMA WakeStep ==
    ASSUME setup \in Setups, Types, Budget, NEW t \in Callers, Wake(t)
    PROVE  CallOK(t)
  <1> DEFINE r == call[t]
             now == IF Cardinality(r.tried \cup {r.cred}) >= Count THEN {}
                    ELSE r.tried \cup {r.cred}
             q == TriedOf(r, "release", now)
  <1>0. /\ r.pc = "backoff" /\ r.pc \in Holding /\ r.cred \in Credentials /\ pool' = pool
        /\ Affords(r) /\ r.next = "acquire"
    <2>1. r.pc = "backoff" /\ pool' = pool  BY DEF Wake, At
    <2> QED  BY <2>1, CallFacts DEF BudgetOf, Holding
  <1>1. now \in SUBSET Credentials  BY <1>0, CallFields
  <1>2. call' = [call EXCEPT ![t] = q]  BY DEF Wake, TriedOf
  <1> HIDE DEF now
  <1>3. Alike(q, r) /\ q.pc = "release" /\ q.cred = r.cred /\ q.next = r.next
    BY <1>1, CallFacts, TriedRecord DEF Pcs
  <1> HIDE DEF q
  <1>4. BudgetOf(q)  BY <1>0, <1>3 DEF BudgetOf, Affords, Seeking, Holding, Alike
  <1>5. q.pc \in Holding \ {"post"}  BY <1>3 DEF Holding
  <1>6. q \in CallSet /\ q.refusedBy = r.refusedBy /\ q.cap = r.cap  BY <1>3 DEF Alike
  <1> QED  BY <1>0, <1>2, <1>3, <1>4, <1>5, <1>6, HoldingStep, InFlightKept

LEMMA ReleaseStep ==
    ASSUME setup \in Setups, Types, Budget, NEW t \in Callers, Release(t)
    PROVE  CallOK(t)
  <1> DEFINE r == call[t]
             q == Unheld(r, r.next)
  <1>0. /\ r.pc = "release" /\ r.pc \in Holding /\ r.cred \in Credentials /\ pool' = Freed(t)
        /\ r.next \in {"acquire", "failed", "validate"}
        /\ r.next = "acquire" => Affords(r)
    <2>1. r.pc = "release" /\ pool' = Freed(t)  BY DEF Release, At
    <2> QED  BY <2>1, CallFacts DEF BudgetOf, Holding
  <1>1. call' = [call EXCEPT ![t] = q]  BY DEF Release, Unheld
  <1>2. Alike(q, r) /\ q.pc = r.next
    <2>1. r \in CallSet /\ r.next \in Pcs  BY CallFields
    <2> QED  BY <2>1, UnheldRecord
  <1> HIDE DEF q
  <1>3. call'[t] = q  BY <1>1, CallFacts
  <1>4. BudgetOf(q)  BY <1>0, <1>2 DEF BudgetOf, Affords, Seeking, Holding, Alike
  <1>5. Moves(t)  BY <1>1, <1>2, <1>3, <1>4 DEF Moves, Alike
  <1>6. q.pc \notin Holding  BY <1>0, <1>2 DEF Holding
  <1>7. FreesIt(t)  BY <1>0, <1>3, <1>6 DEF FreesIt
  <1> QED  BY <1>2, <1>3, <1>5, <1>7 DEF CallOK, SlotMoves, RefusalMoves, Alike

LEMMA EndSteps ==
    ASSUME setup \in Setups, Types, Budget, NEW t \in Callers,
           Failed(t) \/ Accept(t) \/ RejectAnswer(t)
    PROVE  CallOK(t)
  <1>1. call[t].pc \notin Holding /\ pool' = pool
    BY DEF Failed, Accept, RejectAnswer, At, Holding
  <1>2. \E q \in {NoCall, AskAgain(t)} : call' = [call EXCEPT ![t] = q]
    <2>1. CASE Failed(t)
      <3>1. call' = [call EXCEPT ![t] = IF call[t].err = "rejected" THEN AskAgain(t) ELSE NoCall]
        BY <2>1 DEF Failed
      <3> QED  BY <3>1
    <2>2. CASE Accept(t)  BY <2>2 DEF Accept
    <2>3. CASE RejectAnswer(t)  BY <2>3 DEF RejectAnswer
    <2> QED  BY <2>1, <2>2, <2>3
  <1> QED  BY <1>1, <1>2, BlankStep, BlankNoCall, AskAgainBlank

LEMMA CallStep ==
    ASSUME setup \in Setups, Types, Budget, NEW t \in Callers,
           Step(t) \/ \E k \in Capabilities : Request(t, k)
    PROVE  CallOK(t)
  <1>1. \/ \E k \in Capabilities : Request(t, k)
        \/ Gate(t) \/ Acquire(t) \/ Exhausted(t) \/ Cooling(t) \/ WaitForSlot(t)
        \/ Transient(t) \/ Decide(t) \/ Wake(t) \/ Release(t)
        \/ Failed(t) \/ Accept(t) \/ RejectAnswer(t)
        \/ Answered(t) \/ (\E g \in BOOLEAN : Refused(t, g))
        \/ (\E d \in RetryAfter : Limited(t, d))
        \/ (\E e \in {"fatal", "rejected"} : Rejected(t, e))
    BY DEF Step
  <1> QED
    BY <1>1, RequestStep, GateStep, AcquireStep, WaitingSteps, TransientStep, DecideStep, WakeStep,
       ReleaseStep, EndSteps, AnswerSteps

-----------------------------------------------------------------------------
(* What a step of a call does to the pool, the circuits and the histories. *)

\* The ways a caller changes the pool, with what each leaves in the histories.
PoolTaken(t) == /\ limits' = limits
                /\ \E c \in Eligible(t) : /\ pool' = [pool EXCEPT ![c].inFlight = @ + 1]
                                          /\ cursor' = (c + 1) % Count
PoolSame  == pool' = pool /\ cursor' = cursor /\ limits' = limits
PoolFreed(t) == pool' = Freed(t) /\ cursor' = cursor /\ limits' = limits
PoolCleared(t) ==
    /\ pool' = Cleared(call[t].cred) /\ cursor' = cursor
    /\ limits' = [limits EXCEPT ![call[t].cred].answered = limits[call[t].cred].left > 0]
PoolRefused(t) ==
    \E g \in BOOLEAN : /\ pool' = DisabledBy(call[t].cred, call[t].cap, g)
                       /\ cursor' = cursor /\ limits' = limits
PoolLimited(t) ==
    \E d \in RetryAfter : /\ pool' = CooledDown(call[t].cred, d) /\ cursor' = cursor
                          /\ limits' = [limits EXCEPT ![call[t].cred] =
                                            [left |-> d, answered |-> FALSE]]

\* The ways it changes the circuits, with the failures that count.
CircuitSame == circuit' = circuit /\ tally' = tally
CircuitReset(t) == /\ circuit' = ResetCircuit(call[t].cap)
                   /\ tally' = [tally EXCEPT ![call[t].cap] = 0]
CircuitFails(t, counts) ==
    /\ circuit' = Failure(call[t].cap, counts)
    /\ tally' = IF counts THEN [tally EXCEPT ![call[t].cap] = Least(@ + 1, Threshold)] ELSE tally

LEMMA PoolStep ==
    ASSUME setup \in Setups, Types, Budget, NEW t \in Callers,
           Step(t) \/ \E k \in Capabilities : Request(t, k)
    PROVE  /\ closed' = closed
           /\ \/ PoolSame \/ PoolTaken(t)
              \/ /\ call[t].cred \in Credentials
                 /\ PoolFreed(t) \/ PoolCleared(t) \/ PoolRefused(t) \/ PoolLimited(t)
  <1>0. ASSUME call[t].pc \in Holding PROVE call[t].cred \in Credentials
    BY <1>0, CallFacts, SMTT(30) DEF BudgetOf
  <1>1. CASE \/ Gate(t) \/ Exhausted(t) \/ Cooling(t) \/ WaitForSlot(t)
             \/ Transient(t) \/ Decide(t) \/ Wake(t)
             \/ Failed(t) \/ Accept(t) \/ RejectAnswer(t)
             \/ (\E e \in {"fatal", "rejected"} : Rejected(t, e))
             \/ (\E k \in Capabilities : Request(t, k))
    BY <1>1 DEF Gate, Exhausted, Cooling, WaitForSlot, Transient, Decide, Wake, Failed, Accept,
       RejectAnswer, Rejected, Request, Fail, GoTo, PoolSame
  <1>2. CASE Acquire(t)
    <2>1. CASE Eligible(t) # {} /\ Take(t, Selected(Eligible(t))) /\ closed' = closed
               /\ limits' = limits
      <3>1. Eligible(t) \subseteq Credentials  BY DEF Eligible
      <3>2. Selected(Eligible(t)) \in Eligible(t)  BY <2>1, <3>1, SelectedIsOne
      <3> QED  BY <2>1, <3>2 DEF Take, PoolTaken
    <2>2. CASE \E p : GoTo(t, p)  BY <2>2 DEF GoTo, PoolSame
    <2> QED  BY <1>2, <2>1, <2>2 DEF Acquire
  <1>3. CASE Answered(t)
    BY <1>0, <1>3 DEF Answered, At, Holding, PoolCleared
  <1>4. CASE \E g \in BOOLEAN : Refused(t, g)
    BY <1>0, <1>4 DEF Refused, At, Holding, PoolRefused
  <1>5. CASE \E d \in RetryAfter : Limited(t, d)
    BY <1>0, <1>5 DEF Limited, At, Holding, PoolLimited
  <1>6. CASE Release(t)
    BY <1>0, <1>6 DEF Release, At, Holding, PoolFreed
  <1> QED  BY <1>1, <1>2, <1>3, <1>4, <1>5, <1>6 DEF Step

LEMMA CircuitStep ==
    ASSUME NEW t \in Callers, Step(t) \/ \E k \in Capabilities : Request(t, k)
    PROVE  CircuitSame \/ CircuitReset(t) \/ \E counts \in BOOLEAN : CircuitFails(t, counts)
  <1>1. CASE Gate(t)  BY <1>1 DEF Gate, CircuitSame, CircuitReset
  <1>2. CASE Failed(t)  BY <1>2 DEF Failed, CircuitFails
  <1>3. CASE Accept(t)  BY <1>3 DEF Accept, CircuitReset, ResetCircuit
  <1>4. CASE RejectAnswer(t)  BY <1>4 DEF RejectAnswer, CircuitFails, CircuitSame
  <1>5. CASE \/ Exhausted(t) \/ Cooling(t) \/ WaitForSlot(t) \/ Acquire(t)
             \/ Transient(t) \/ Decide(t) \/ Wake(t) \/ Answered(t) \/ Release(t)
             \/ (\E e \in {"fatal", "rejected"} : Rejected(t, e))
             \/ (\E g \in BOOLEAN : Refused(t, g))
             \/ (\E d \in RetryAfter : Limited(t, d))
             \/ (\E k \in Capabilities : Request(t, k))
    BY <1>5 DEF Exhausted, Cooling, WaitForSlot, Acquire, Transient, Decide, Wake, Answered,
       Release, Rejected, Refused, Limited, Request, Fail, GoTo, CircuitSame
  <1> QED  BY <1>1, <1>2, <1>3, <1>4, <1>5 DEF Step

-----------------------------------------------------------------------------
(* Types after a step of a call.                                           *)

LEMMA LeastType ==
    ASSUME NEW a \in Nat, NEW b \in Nat
    PROVE  Least(a, b) \in 0 .. a /\ Least(a, b) \in 0 .. b
  BY DEF Least

LEMMA PoolKeepsTypes ==
    ASSUME setup \in Setups, Types, Budget, NEW t \in Callers,
           Step(t) \/ \E k \in Capabilities : Request(t, k)
    PROVE  /\ pool' \in [Credentials -> PoolSet] /\ cursor' \in Credentials
           /\ limits' \in [Credentials -> LimitSet]
  <1> DEFINE h == call[t].cred
  <1>0. /\ pool \in [Credentials -> PoolSet] /\ cursor \in Credentials
        /\ limits \in [Credentials -> LimitSet] /\ call[t].cap \in Capabilities
        /\ MaxInFlight \in 1 .. 16 /\ MaxDelay \in Nat
    BY CallFields, SetupTypes, MaxDelayType DEF Types
  <1>1. ASSUME NEW c \in Credentials, NEW v \in PoolSet, pool' = [pool EXCEPT ![c] = v]
        PROVE  pool' \in [Credentials -> PoolSet]
    BY <1>0, <1>1
  <1>2. CASE PoolSame  BY <1>0, <1>2 DEF PoolSame
  <1>3. CASE PoolTaken(t)
    <2>1. PICK c \in Eligible(t) : /\ pool' = [pool EXCEPT ![c].inFlight = @ + 1]
                                   /\ cursor' = (c + 1) % Count
      BY <1>3 DEF PoolTaken
    <2>2. c \in Credentials /\ pool[c].inFlight < MaxInFlight  BY DEF Eligible, Ready
    <2>3. pool[c] \in PoolSet /\ pool[c].inFlight + 1 \in 0 .. MaxInFlight
      BY <1>0, <2>2, PoolFields
    <2>4. [pool[c] EXCEPT !.inFlight = @ + 1] \in PoolSet  BY <2>3 DEF PoolSet
    <2>5. cursor' \in Credentials
      BY <2>1, <2>2, SetupTypes DEF Credentials
    <2> QED  BY <1>0, <1>1, <1>3, <2>1, <2>2, <2>4, <2>5 DEF PoolTaken
  <1>4. CASE PoolFreed(t) /\ h \in Credentials
    <2>1. /\ pool[h] \in PoolSet
          /\ (IF pool[h].inFlight > 0 THEN pool[h].inFlight - 1 ELSE 0) \in 0 .. MaxInFlight
      BY <1>0, <1>4, PoolFields
    <2>2. [pool[h] EXCEPT !.inFlight = IF @ > 0 THEN @ - 1 ELSE 0] \in PoolSet
      BY <2>1 DEF PoolSet
    <2>3. pool' = [pool EXCEPT ![h] = [pool[h] EXCEPT !.inFlight = IF @ > 0 THEN @ - 1 ELSE 0]]
      BY <1>4 DEF PoolFreed, Freed
    <2> QED  BY <1>0, <1>1, <1>4, <2>2, <2>3 DEF PoolFreed
  <1>5. CASE PoolCleared(t) /\ h \in Credentials
    <2>1. [pool[h] EXCEPT !.cooling = 0] \in PoolSet
      BY <1>0, <1>5 DEF PoolSet
    <2>2. [limits[h] EXCEPT !.answered = limits[h].left > 0] \in LimitSet
      <3>1. PICK l \in LimitSet : l = limits[h]  BY <1>0, <1>5
      <3>2. [l EXCEPT !.answered = TRUE] \in LimitSet /\ [l EXCEPT !.answered = FALSE] \in LimitSet
        BY DEF LimitSet
      <3>3. (l.left > 0) = TRUE \/ (l.left > 0) = FALSE  OBVIOUS
      <3> QED  BY <3>1, <3>2, <3>3
    <2>3. /\ pool' = [pool EXCEPT ![h] = [pool[h] EXCEPT !.cooling = 0]]
          /\ limits' = [limits EXCEPT ![h] = [limits[h] EXCEPT !.answered = limits[h].left > 0]]
      BY <1>5 DEF PoolCleared, Cleared
    <2> QED  BY <1>0, <1>1, <1>5, <2>1, <2>2, <2>3 DEF PoolCleared
  <1>6. CASE PoolRefused(t) /\ h \in Credentials
    <2>1. PICK g \in BOOLEAN : pool' = DisabledBy(h, call[t].cap, g)
      BY <1>6 DEF PoolRefused
    <2>2. /\ [pool[h] EXCEPT !.disabled = TRUE, !.cooling = 0] \in PoolSet
          /\ [pool[h] EXCEPT !.forbidden = @ \cup {call[t].cap}] \in PoolSet
      <3>1. PICK v \in PoolSet : v = pool[h]  BY <1>0, <1>6
      <3>2. [v EXCEPT !.disabled = TRUE, !.cooling = 0] \in PoolSet
        <4>1. \A w \in PoolSet : [w EXCEPT !.disabled = TRUE] \in PoolSet
          BY DEF PoolSet
        <4>2. 0 \in 0 .. MaxDelay  BY <1>0
        <4>3. \A w \in PoolSet : [w EXCEPT !.cooling = 0] \in PoolSet
          BY <4>2 DEF PoolSet
        <4> QED  BY <4>1, <4>3
      <3>3. v.forbidden \cup {call[t].cap} \in SUBSET Capabilities
        BY <1>0 DEF PoolSet
      <3>4. [v EXCEPT !.forbidden = @ \cup {call[t].cap}] \in PoolSet
        BY <3>3 DEF PoolSet
      <3> QED  BY <3>1, <3>2, <3>4
    <2>3. \/ pool' = [pool EXCEPT ![h] = [pool[h] EXCEPT !.disabled = TRUE, !.cooling = 0]]
          \/ pool' = [pool EXCEPT ![h] = [pool[h] EXCEPT !.forbidden = @ \cup {call[t].cap}]]
      <3>1. CASE g
        <4>1. pool' = [pool EXCEPT ![h].disabled = TRUE, ![h].cooling = 0]
          BY <2>1, <3>1 DEF DisabledBy
        <4> QED  BY <1>0, <1>6, <4>1
      <3>2. CASE ~g  BY <2>1, <3>2 DEF DisabledBy
      <3> QED  BY <3>1, <3>2
    <2> QED  BY <1>0, <1>1, <1>6, <2>2, <2>3 DEF PoolRefused
  <1>7. CASE PoolLimited(t) /\ h \in Credentials
    <2>1. PICK d \in RetryAfter : /\ pool' = CooledDown(h, d)
                                  /\ limits' = [limits EXCEPT ![h] =
                                                    [left |-> d, answered |-> FALSE]]
      BY <1>7 DEF PoolLimited
    <2>2. d \in 0 .. MaxDelay  BY MaxDelayType
    <2>3. /\ [pool[h] EXCEPT !.cooling = d] \in PoolSet
          /\ [left |-> d, answered |-> FALSE] \in LimitSet
      BY <1>0, <1>7, <2>2 DEF PoolSet, LimitSet
    <2>4. pool' = [pool EXCEPT ![h] = [pool[h] EXCEPT !.cooling = d]]
      BY <2>1 DEF CooledDown
    <2> QED  BY <1>0, <1>1, <1>7, <2>1, <2>3, <2>4 DEF PoolLimited
  <1> QED  BY <1>2, <1>3, <1>4, <1>5, <1>6, <1>7, PoolStep

\* A circuit counts its failures, and is open for those that count.
Counted(f, n) == /\ f.failures <= n + 1
                 /\ f.open => n >= Threshold - 1

LEMMA CircuitKeeps ==
    ASSUME setup \in Setups, Types, Failures, NEW t \in Callers,
           Step(t) \/ \E k \in Capabilities : Request(t, k)
    PROVE  /\ circuit' \in [Capabilities -> CircuitSet]
           /\ tally' \in [Capabilities -> 0 .. Threshold]
           /\ \A k \in Capabilities : Counted(circuit'[k], tally'[k])
  <1> DEFINE k == call[t].cap
             f == circuit[k].failures
  <1>0. /\ circuit \in [Capabilities -> CircuitSet] /\ tally \in [Capabilities -> 0 .. Threshold]
        /\ k \in Capabilities /\ Threshold \in 1 .. 20 /\ ResetTime \in Nat
        /\ f \in 0 .. Threshold /\ circuit[k].open \in BOOLEAN /\ circuit[k].left \in 0 .. ResetTime
        /\ tally[k] \in 0 .. Threshold /\ circuit[k] \in CircuitSet
    <2>1. /\ circuit \in [Capabilities -> CircuitSet] /\ tally \in [Capabilities -> 0 .. Threshold]
          /\ k \in Capabilities /\ Threshold \in 1 .. 20 /\ ResetTime \in Nat
      BY CallFields, SetupTypes, TransportAssumption DEF Types
    <2>2. circuit[k] \in CircuitSet  BY <2>1
    <2> QED  BY <2>1, <2>2 DEF CircuitSet
  <1>1. /\ \A j \in Capabilities : Counted(circuit[j], tally[j])
        /\ f <= tally[k] + 1
        /\ circuit[k].open => tally[k] >= Threshold - 1
    BY <1>0 DEF Failures, Counted
  <1>2. ASSUME NEW v \in CircuitSet, NEW n \in 0 .. Threshold, Counted(v, n),
               circuit' = [circuit EXCEPT ![k] = v], tally' = [tally EXCEPT ![k] = n]
        PROVE  /\ circuit' \in [Capabilities -> CircuitSet]
               /\ tally' \in [Capabilities -> 0 .. Threshold]
               /\ \A j \in Capabilities : Counted(circuit'[j], tally'[j])
    <2>1. circuit' \in [Capabilities -> CircuitSet] /\ tally' \in [Capabilities -> 0 .. Threshold]
      BY <1>0, <1>2
    <2>2. \A j \in Capabilities : Counted(circuit'[j], tally'[j])
      <3> SUFFICES ASSUME NEW j \in Capabilities PROVE Counted(circuit'[j], tally'[j])
        OBVIOUS
      <3>1. CASE j = k
        <4>1. circuit'[j] = v /\ tally'[j] = n  BY <1>0, <1>2, <3>1
        <4> QED  BY <1>2, <4>1
      <3>2. CASE j # k
        <4>1. circuit'[j] = circuit[j] /\ tally'[j] = tally[j]  BY <1>0, <1>2, <3>2
        <4> QED  BY <1>1, <4>1
      <3> QED  BY <3>1, <3>2
    <2> QED  BY <2>1, <2>2
  <1>3. CASE CircuitSame
    BY <1>0, <1>1, <1>3 DEF CircuitSame
  <1>4. CASE CircuitReset(t)
    <2>1. [failures |-> 0, open |-> FALSE, left |-> 0] \in CircuitSet /\ 0 \in 0 .. Threshold
      BY <1>0 DEF CircuitSet
    <2>2. Counted([failures |-> 0, open |-> FALSE, left |-> 0], 0)
      BY DEF Counted
    <2> QED  BY <1>2, <1>4, <2>1, <2>2 DEF CircuitReset, ResetCircuit
  <1>5. CASE CircuitFails(t, TRUE)
    <2> DEFINE n == Least(f + 1, Threshold)
               m == Least(tally[k] + 1, Threshold)
    <2>1. /\ n \in 0 .. Threshold /\ m \in 0 .. Threshold /\ n <= m + 1 /\ tally[k] <= m
          /\ n >= Threshold => m >= Threshold - 1
      BY <1>0, <1>1 DEF Least
    <2>2. tally' = [tally EXCEPT ![k] = m]  BY <1>5 DEF CircuitFails
    <2> HIDE DEF m
    <2>3. CASE n >= Threshold
      <3>1. circuit' = [circuit EXCEPT ![k] = [failures |-> n, open |-> TRUE, left |-> ResetTime]]
        BY <1>5, <2>3 DEF CircuitFails, Failure
      <3> HIDE DEF n
      <3>2. /\ [failures |-> n, open |-> TRUE, left |-> ResetTime] \in CircuitSet
            /\ Counted([failures |-> n, open |-> TRUE, left |-> ResetTime], m)
        BY <1>0, <2>1, <2>3 DEF CircuitSet, Counted
      <3> QED  BY <1>2, <2>1, <2>2, <3>1, <3>2
    <2>4. CASE ~(n >= Threshold)
      <3>1. circuit' = [circuit EXCEPT ![k] = [circuit[k] EXCEPT !.failures = n]]
        BY <1>5, <2>4 DEF CircuitFails, Failure
      <3> HIDE DEF n
      <3>2. /\ [circuit[k] EXCEPT !.failures = n] \in CircuitSet
            /\ [circuit[k] EXCEPT !.failures = n].failures = n
            /\ [circuit[k] EXCEPT !.failures = n].open = circuit[k].open
        BY <1>0, <2>1 DEF CircuitSet
      <3>3. Counted([circuit[k] EXCEPT !.failures = n], m)
        BY <1>0, <1>1, <2>1, <3>2 DEF Counted
      <3> QED  BY <1>2, <2>1, <2>2, <3>1, <3>2, <3>3
    <2> QED  BY <2>3, <2>4
  <1>6. CASE CircuitFails(t, FALSE)
    <2> DEFINE n == IF f = 0 THEN 1 ELSE f
    <2>1. /\ n \in 0 .. Threshold /\ n <= tally[k] + 1
      BY <1>0, <1>1
    <2>2. /\ tally' = [tally EXCEPT ![k] = tally[k]]
          /\ circuit' = [circuit EXCEPT ![k] = [circuit[k] EXCEPT !.failures = n]]
      BY <1>0, <1>6 DEF CircuitFails, Failure
    <2> HIDE DEF n
    <2>3. /\ [circuit[k] EXCEPT !.failures = n] \in CircuitSet
          /\ [circuit[k] EXCEPT !.failures = n].failures = n
          /\ [circuit[k] EXCEPT !.failures = n].open = circuit[k].open
      BY <1>0, <2>1 DEF CircuitSet
    <2>4. Counted([circuit[k] EXCEPT !.failures = n], tally[k])
      BY <1>0, <1>1, <2>1, <2>3 DEF Counted
    <2> QED  BY <1>0, <1>2, <2>1, <2>2, <2>3, <2>4
  <1> QED  BY <1>3, <1>4, <1>5, <1>6, CircuitStep

-----------------------------------------------------------------------------
(* The types, and the other parts of the invariant, after a step of a call *)

LEMMA CallsKeepTypes ==
    ASSUME setup \in Setups, Types, Budget, Failures, NEW t \in Callers,
           Step(t) \/ \E k \in Capabilities : Request(t, k), setup' = setup
    PROVE  TypeOK' /\ Budget' /\ Failures'
  <1>1. CallOK(t)  BY CallStep
  <1>2. call' \in [Callers -> CallSet]
    BY <1>1 DEF CallOK, Moves, Types
  <1>3. \A s \in Callers : BudgetOf(call'[s])
    <2> SUFFICES ASSUME NEW s \in Callers PROVE BudgetOf(call'[s])  OBVIOUS
    <2>1. CASE s = t  BY <1>1, <2>1 DEF CallOK, Moves
    <2>2. CASE s # t
      <3>1. call'[s] = call[s]  BY <1>1, <2>2 DEF CallOK, Moves, Types
      <3> QED  BY <3>1 DEF Budget
    <2> QED  BY <2>1, <2>2
  <1>4. Budget'
    BY <1>3, SetupKept DEF Budget, BudgetOf, Affords
  <1>5. Failures'
    BY CircuitKeeps, SetupKept DEF Failures, Counted
  <1>6. closed' \in BOOLEAN  BY PoolStep DEF Types
  <1>7. Types'
    BY <1>2, <1>6, PoolKeepsTypes, CircuitKeeps, SetupKept DEF Types, LimitSet
  <1>8. TypeOK'
    BY <1>7 DEF TypeOK, Types, PoolSet, CircuitSet, LimitSet, CallSet
  <1> QED  BY <1>4, <1>5, <1>8

\* A credential that is disabled stays so.
LEMMA DisabledStays ==
    ASSUME setup \in Setups, Types, Budget, NEW t \in Callers,
           Step(t) \/ \E k \in Capabilities : Request(t, k),
           NEW c \in Credentials, NEW k \in Capabilities, Disabled(c, k)
    PROVE  Disabled(c, k)'
  <1>0. pool \in [Credentials -> PoolSet]  BY DEF Types
  <1>1. pool[c].disabled => pool'[c].disabled
    <2>1. CASE PoolSame  BY <2>1 DEF PoolSame
    <2>2. CASE PoolTaken(t)  BY <1>0, <2>2 DEF PoolTaken, PoolSet
    <2>3. CASE PoolFreed(t)  BY <1>0, <2>3 DEF PoolFreed, Freed, PoolSet
    <2>4. CASE PoolCleared(t)  BY <1>0, <2>4 DEF PoolCleared, Cleared, PoolSet
    <2>5. CASE PoolRefused(t)  BY <1>0, <2>5 DEF PoolRefused, DisabledBy, PoolSet
    <2>6. CASE PoolLimited(t)  BY <1>0, <2>6 DEF PoolLimited, CooledDown, PoolSet
    <2> QED  BY <2>1, <2>2, <2>3, <2>4, <2>5, <2>6, PoolStep
  <1>2. k \in pool[c].forbidden => k \in pool'[c].forbidden
    <2>1. CASE PoolSame  BY <2>1 DEF PoolSame
    <2>2. CASE PoolTaken(t)  BY <1>0, <2>2 DEF PoolTaken, PoolSet
    <2>3. CASE PoolFreed(t)  BY <1>0, <2>3 DEF PoolFreed, Freed, PoolSet
    <2>4. CASE PoolCleared(t)  BY <1>0, <2>4 DEF PoolCleared, Cleared, PoolSet
    <2>5. CASE PoolRefused(t)  BY <1>0, <2>5 DEF PoolRefused, DisabledBy, PoolSet
    <2>6. CASE PoolLimited(t)  BY <1>0, <2>6 DEF PoolLimited, CooledDown, PoolSet
    <2> QED  BY <2>1, <2>2, <2>3, <2>4, <2>5, <2>6, PoolStep
  <1> QED  BY <1>1, <1>2 DEF Disabled

LEMMA RefusalsKept ==
    ASSUME setup \in Setups, Types, Budget, Refusals, NEW t \in Callers,
           Step(t) \/ \E k \in Capabilities : Request(t, k)
    PROVE  Refusals'
  <1>1. SUFFICES ASSUME NEW s \in Callers, NEW c \in call'[s].refusedBy
                 PROVE  pool'[c].disabled \/ call'[s].cap \in pool'[c].forbidden
    BY DEF Refusals, Disabled
  <1>2. CallOK(t)  BY CallStep
  <1>3. ASSUME c \in call[s].refusedBy, call'[s].cap = call[s].cap
        PROVE  pool'[c].disabled \/ call'[s].cap \in pool'[c].forbidden
    <2>1. c \in Credentials /\ call[s].cap \in Capabilities /\ Disabled(c, call[s].cap)
      BY <1>3, CallFields DEF Refusals
    <2>2. PICK k : k = call[s].cap  OBVIOUS
    <2>3. Disabled(c, k)'  BY <2>1, <2>2, DisabledStays
    <2>4. pool'[c].disabled \/ k \in pool'[c].forbidden  BY <2>3 DEF Disabled
    <2> QED  BY <1>3, <2>2, <2>4
  <1>4. CASE s # t
    <2>1. call'[s] = call[s]  BY <1>2, <1>4 DEF CallOK, Moves, Types
    <2> QED  BY <1>1, <1>3, <2>1
  <1>5. CASE s = t /\ \E g \in BOOLEAN : /\ Refused(t, g) /\ call'[t].cap = call[t].cap
                          /\ call'[t].refusedBy = call[t].refusedBy \cup {call[t].cred}
    <2>1. CASE c \in call[t].refusedBy  BY <1>3, <1>5, <2>1
    <2>2. CASE c = call[t].cred
      <3>1. PICK g \in BOOLEAN : pool' = DisabledBy(c, call[t].cap, g)
        BY <1>5, <2>2 DEF Refused
      <3>2. c \in Credentials
        BY <1>5, <2>2, CallFacts DEF Refused, At, BudgetOf, Holding
      <3>3. pool'[c].disabled \/ call[t].cap \in pool'[c].forbidden
        <4>1. pool \in [Credentials -> PoolSet]  BY DEF Types
        <4> QED  BY <3>1, <3>2, <4>1 DEF DisabledBy, PoolSet
      <3> QED  BY <1>5, <3>3
    <2> QED  BY <1>1, <1>5, <2>1, <2>2
  <1>6. CASE s = t /\ call'[t].refusedBy = call[t].refusedBy /\ call'[t].cap = call[t].cap
    BY <1>1, <1>3, <1>6
  <1>7. CASE s = t /\ call'[t].refusedBy = {}
    BY <1>1, <1>7
  <1> QED  BY <1>2, <1>4, <1>5, <1>6, <1>7 DEF CallOK, RefusalMoves

LEMMA CooldownsKept ==
    ASSUME setup \in Setups, Types, Budget, Cooldowns, NEW t \in Callers,
           Step(t) \/ \E k \in Capabilities : Request(t, k), setup' = setup
    PROVE  Cooldowns'
  <1>1. SUFFICES ASSUME NEW c \in Credentials
                 PROVE  \/ limits'[c].left = 0 \/ limits'[c].answered
                        \/ pool'[c].disabled \/ pool'[c].cooling = limits'[c].left
    BY SetupKept DEF Cooldowns
  <1>2. /\ pool \in [Credentials -> PoolSet] /\ limits \in [Credentials -> LimitSet]
        /\ \/ limits[c].left = 0 \/ limits[c].answered
           \/ pool[c].disabled \/ pool[c].cooling = limits[c].left
    BY DEF Types, Cooldowns
  <1>3. CASE limits' = limits /\ pool'[c].disabled = pool[c].disabled
             /\ pool'[c].cooling = pool[c].cooling
    BY <1>2, <1>3
  <1>4. CASE PoolSame  BY <1>3, <1>4 DEF PoolSame
  <1>5. CASE PoolTaken(t)
    BY <1>2, <1>3, <1>5 DEF PoolTaken, PoolSet
  <1>6. CASE PoolFreed(t)
    BY <1>2, <1>3, <1>6 DEF PoolFreed, Freed, PoolSet
  <1>7. CASE PoolCleared(t)
    <2>1. limits[c].left \in 0 .. MaxDelay  BY <1>2 DEF LimitSet
    <2>2. CASE c = call[t].cred
      <3>1. /\ limits'[c].left = limits[c].left
            /\ limits'[c].answered <=> limits[c].left > 0
        BY <1>2, <1>7, <2>2 DEF PoolCleared, LimitSet
      <3> QED  BY <2>1, <3>1, MaxDelayType
    <2>3. CASE c # call[t].cred
      <3>1. limits'[c] = limits[c] /\ pool'[c] = pool[c]
        BY <1>2, <1>7, <2>3 DEF PoolCleared, Cleared
      <3> QED  BY <1>2, <3>1
    <2> QED  BY <2>2, <2>3
  <1>8. CASE PoolRefused(t)
    <2>1. limits' = limits  BY <1>8 DEF PoolRefused
    <2>2. CASE pool'[c].disabled  BY <2>2
    <2>3. CASE ~pool'[c].disabled
      <3>1. ~pool[c].disabled /\ pool'[c].cooling = pool[c].cooling
        BY <1>2, <1>8, <2>3 DEF PoolRefused, DisabledBy, PoolSet
      <3> QED  BY <1>2, <2>1, <3>1
    <2> QED  BY <2>2, <2>3
  <1>9. CASE PoolLimited(t)
    <2>1. CASE c = call[t].cred
      BY <1>2, <1>9, <2>1 DEF PoolLimited, CooledDown, PoolSet
    <2>2. CASE c # call[t].cred
      <3>1. limits'[c] = limits[c] /\ pool'[c] = pool[c]
        BY <1>2, <1>9, <2>2 DEF PoolLimited, CooledDown
      <3> QED  BY <1>2, <3>1
    <2> QED  BY <2>1, <2>2
  <1> QED  BY <1>4, <1>5, <1>6, <1>7, <1>8, <1>9, PoolStep

-----------------------------------------------------------------------------
(* The slots.                                                              *)

LEMMA HoldersFinite ==
    ASSUME NEW c
    PROVE  IsFiniteSet(Holders(c)) /\ Cardinality(Holders(c)) \in Nat
  <1>1. Holders(c) \subseteq Callers  BY DEF Holders
  <1> QED  BY <1>1, TransportAssumption, FS_Subset, FS_CardinalityType

LEMMA SlotsKept ==
    ASSUME setup \in Setups, Types, Budget, SlotsAccounted, NEW t \in Callers,
           Step(t) \/ \E k \in Capabilities : Request(t, k), setup' = setup
    PROVE  SlotsAccounted'
  <1> DEFINE Onward(c) == {s \in Callers : call'[s].pc \in Holding /\ call'[s].cred = c}
  <1>2. SUFFICES ASSUME NEW c \in Credentials
                 PROVE  /\ pool'[c].inFlight = Cardinality(Onward(c))
                        /\ pool'[c].inFlight <= MaxInFlight
    BY SetupKept DEF SlotsAccounted, Holders
  <1>3. /\ CallOK(t) /\ \A s \in Callers : s # t => call'[s] = call[s]
    BY CallStep DEF CallOK, Moves, Types
  <1>4. /\ pool[c].inFlight = Cardinality(Holders(c)) /\ pool[c].inFlight <= MaxInFlight
        /\ pool[c].inFlight \in Nat /\ pool \in [Credentials -> PoolSet] /\ MaxInFlight \in Nat
        /\ IsFiniteSet(Holders(c))
    BY PoolFields, SetupTypes, HoldersFinite DEF SlotsAccounted, Types
  <1>5. CASE KeepsIt(t)
    <2>1. Onward(c) = Holders(c)  BY <1>3, <1>5 DEF KeepsIt, Holders
    <2> QED  BY <1>4, <1>5, <2>1 DEF KeepsIt
  <1>6. CASE Takes(t)
    <2>1. PICK e \in Eligible(t) : /\ call'[t].cred = e
                                   /\ pool' = [pool EXCEPT ![e].inFlight = @ + 1]
      BY <1>6 DEF Takes
    <2>2. /\ e \in Credentials /\ pool[e].inFlight < MaxInFlight
          /\ call[t].pc \notin Holding /\ call'[t].pc \in Holding
      BY <1>6 DEF Eligible, Ready, Takes, Holding
    <2>3. CASE e = c
      <3>1. Onward(c) = Holders(c) \cup {t} /\ t \notin Holders(c)
        BY <1>3, <2>1, <2>2, <2>3 DEF Holders
      <3>2. Cardinality(Onward(c)) = Cardinality(Holders(c)) + 1
        BY <1>4, <3>1, FS_AddElement
      <3>3. pool'[c].inFlight = pool[c].inFlight + 1
        BY <1>4, <2>1, <2>3 DEF PoolSet
      <3> QED  BY <1>4, <2>2, <2>3, <3>2, <3>3
    <2>4. CASE e # c
      <3>1. Onward(c) = Holders(c)  BY <1>3, <2>1, <2>2, <2>4 DEF Holders
      <3>2. pool'[c] = pool[c]  BY <1>4, <2>1, <2>4
      <3> QED  BY <1>4, <3>1, <3>2
    <2> QED  BY <2>3, <2>4
  <1>7. CASE FreesIt(t)
    <2> DEFINE e == call[t].cred
    <2>1. /\ e \in Credentials /\ call[t].pc \in Holding /\ call'[t].pc \notin Holding
          /\ pool' = [pool EXCEPT ![e].inFlight = IF @ > 0 THEN @ - 1 ELSE 0]
      BY <1>7 DEF FreesIt, Freed
    <2>2. CASE e = c
      <3>1. Onward(c) = Holders(c) \ {t} /\ t \in Holders(c)
        BY <1>3, <2>1, <2>2 DEF Holders
      <3>2. /\ Cardinality(Onward(c)) = Cardinality(Holders(c)) - 1
            /\ Cardinality(Onward(c)) \in Nat
        BY <1>4, <3>1, FS_RemoveElement, FS_CardinalityType
      <3>3. pool[c].inFlight > 0  BY <1>4, <3>2
      <3>4. pool'[c].inFlight = pool[c].inFlight - 1
        BY <1>4, <2>1, <2>2, <3>3 DEF PoolSet
      <3> QED  BY <1>4, <3>2, <3>4
    <2>3. CASE e # c
      <3>1. Onward(c) = Holders(c)  BY <1>3, <2>1, <2>3 DEF Holders
      <3>2. pool'[c] = pool[c]  BY <1>4, <2>1, <2>3
      <3> QED  BY <1>4, <3>1, <3>2
    <2> QED  BY <2>2, <2>3
  <1> QED  BY <1>3, <1>5, <1>6, <1>7 DEF CallOK, SlotMoves

\* Whoever comes to send a request has just taken a credential that was ready for it.
LEMMA SendersHaveTaken ==
    ASSUME setup \in Setups, Types, Budget, NEW t \in Callers,
           Step(t) \/ \E k \in Capabilities : Request(t, k),
           NEW s \in Callers, call'[s].pc = "post", call[s].pc # "post" \/ s = t
    PROVE  /\ s = t /\ call'[s].cred \in Credentials /\ Ready(call'[s].cred, call[s].cap)
           /\ ~(\E g \in BOOLEAN : Refused(t, g))
  <1>1. /\ CallOK(t) /\ \A u \in Callers : u # t => call'[u] = call[u]
    BY CallStep DEF CallOK, Moves, Types
  <1>2. s = t  BY <1>1
  <1>3. Takes(t)  BY <1>1, <1>2 DEF CallOK, SlotMoves, KeepsIt, FreesIt, Holding
  <1> QED  BY <1>2, <1>3 DEF Takes, Eligible, Refused, At, Holding

LEMMA RefusalsStandKept ==
    ASSUME setup \in Setups, Types, Budget, Refusals, RefusalsStand, NEW t \in Callers,
           Step(t) \/ \E k \in Capabilities : Request(t, k)
    PROVE  RefusalsStand'
  <1>1. SUFFICES ASSUME NEW s \in Callers, call'[s].pc = "post"
                 PROVE  call'[s].cred \notin call'[s].refusedBy
    BY DEF RefusalsStand, At
  <1>2. /\ CallOK(t) /\ \A u \in Callers : u # t => call'[u] = call[u]
    BY CallStep DEF CallOK, Moves, Types
  <1>3. CASE s # t
    BY <1>1, <1>2, <1>3 DEF RefusalsStand, At
  <1>4. CASE s = t
    <2>1. /\ Ready(call'[t].cred, call[t].cap) /\ ~(\E g \in BOOLEAN : Refused(t, g))
      BY <1>1, <1>4, SendersHaveTaken
    <2>2. call'[t].cred \notin call[t].refusedBy
      BY <2>1 DEF Ready, Refusals
    <2> QED  BY <1>2, <1>4, <2>1, <2>2 DEF CallOK, RefusalMoves
  <1> QED  BY <1>3, <1>4

-----------------------------------------------------------------------------
(* The steps that are nobody's: a reader of the health, the shutdown, time *)

LEMMA HealthAndShutdown ==
    ASSUME Safe, setup' = setup, (\E k \in Capabilities : ReadHealth(k)) \/ Close
    PROVE  Safe'
  <1>1. /\ pool' = pool /\ cursor' = cursor /\ call' = call /\ limits' = limits /\ tally' = tally
    BY DEF ReadHealth, Close
  <1>2. setup \in Setups /\ Types  BY TypesSplit DEF Safe
  <1>3. /\ circuit' \in [Capabilities -> CircuitSet] /\ closed' \in BOOLEAN
        /\ \A k \in Capabilities : Counted(circuit'[k], tally[k])
    <2>0. /\ circuit \in [Capabilities -> CircuitSet] /\ closed \in BOOLEAN
          /\ \A k \in Capabilities : Counted(circuit[k], tally[k])
      BY <1>2 DEF Safe, Types, Failures, Counted
    <2>1. CASE Close  BY <2>0, <2>1 DEF Close
    <2>2. ASSUME NEW k \in Capabilities, ReadHealth(k)
          PROVE  /\ circuit' \in [Capabilities -> CircuitSet] /\ closed' \in BOOLEAN
                 /\ \A j \in Capabilities : Counted(circuit'[j], tally[j])
      <3> DEFINE v == [circuit[k] EXCEPT !.open = FALSE]
      <3>1. circuit' = [circuit EXCEPT ![k] = v] /\ closed' = closed
        BY <2>2 DEF ReadHealth
      <3>2. v \in CircuitSet /\ v.failures = circuit[k].failures /\ v.open = FALSE
        BY <2>0 DEF CircuitSet
      <3> HIDE DEF v
      <3>3. Counted(v, tally[k])  BY <2>0, <3>2 DEF Counted
      <3>4. circuit' \in [Capabilities -> CircuitSet]  BY <2>0, <3>1, <3>2
      <3>5. \A j \in Capabilities : Counted(circuit'[j], tally[j])
        BY <2>0, <3>1, <3>3
      <3> QED  BY <2>0, <3>1, <3>4, <3>5
    <2> QED  BY <2>1, <2>2
  <1>4. TypeOK'
    BY <1>1, <1>2, <1>3, SetupKept
    DEF Types, TypeOK, PoolSet, CircuitSet, LimitSet, CallSet
  <1>5. SlotsAccounted'
    BY <1>1, SetupKept DEF Safe, SlotsAccounted, Holders
  <1>6. RefusalsStand' /\ Refusals'
    BY <1>1 DEF Safe, RefusalsStand, Refusals, At, Disabled
  <1>7. Budget'
    BY <1>1, SetupKept DEF Safe, Budget, BudgetOf, Affords
  <1>8. Cooldowns'
    BY <1>1, SetupKept DEF Safe, Cooldowns
  <1>9. Failures'
    BY <1>1, <1>3, SetupKept DEF Failures, Counted
  <1> QED  BY <1>4, <1>5, <1>6, <1>7, <1>8, <1>9 DEF Safe

LEMMA SoonerType ==
    ASSUME NEW m \in Nat, NEW n \in 0 .. m
    PROVE  Sooner(n) \in 0 .. m
  BY DEF Sooner

LEMMA TimePasses ==
    ASSUME Safe, setup' = setup, Tick
    PROVE  Safe'
  <1>0. setup \in Setups /\ Types  BY TypesSplit DEF Safe
  <1>1. /\ MaxDelay \in Nat /\ ResetTime \in Nat /\ AcquireTimeout \in Nat
    BY MaxDelayType, TransportAssumption
  <1>2. /\ pool \in [Credentials -> PoolSet] /\ circuit \in [Capabilities -> CircuitSet]
        /\ call \in [Callers -> CallSet] /\ limits \in [Credentials -> LimitSet]
        /\ cursor' = cursor /\ closed' = closed /\ tally' = tally
    BY <1>0 DEF Types, Tick
  <1>3. ASSUME NEW c \in Credentials
        PROVE  /\ pool'[c] \in PoolSet /\ pool'[c].inFlight = pool[c].inFlight
               /\ pool'[c].disabled = pool[c].disabled /\ pool'[c].forbidden = pool[c].forbidden
               /\ pool'[c].cooling = Sooner(pool[c].cooling)
    <2>1. PICK v \in PoolSet : v = pool[c]  BY <1>2
    <2>2. v.cooling \in 0 .. MaxDelay  BY DEF PoolSet
    <2>3. Sooner(v.cooling) \in 0 .. MaxDelay  BY <1>1, <2>2, SoonerType
    <2>4. pool'[c] = [v EXCEPT !.cooling = Sooner(v.cooling)]  BY <2>1 DEF Tick
    <2> QED  BY <2>1, <2>3, <2>4 DEF PoolSet
  <1>4. ASSUME NEW k \in Capabilities
        PROVE  /\ circuit'[k] \in CircuitSet /\ circuit'[k].failures = circuit[k].failures
               /\ circuit'[k].open = circuit[k].open
    <2>1. PICK v \in CircuitSet : v = circuit[k]  BY <1>2
    <2>2. v.left \in 0 .. ResetTime  BY DEF CircuitSet
    <2>3. Sooner(v.left) \in 0 .. ResetTime  BY <1>1, <2>2, SoonerType
    <2>4. circuit'[k] = [v EXCEPT !.left = Sooner(v.left)]  BY <2>1 DEF Tick
    <2> QED  BY <2>1, <2>3, <2>4 DEF CircuitSet
  <1>5. ASSUME NEW t \in Callers
        PROVE  /\ Alike(call'[t], call[t]) /\ call'[t].pc = call[t].pc
               /\ call'[t].next = call[t].next /\ call'[t].cred = call[t].cred
    <2>1. PICK r \in CallSet : r = call[t]  BY <1>2
    <2>2. r.wait \in 0 .. AcquireTimeout  BY DEF CallSet
    <2>3. Sooner(r.wait) \in 0 .. AcquireTimeout  BY <1>1, <2>2, SoonerType
    <2>4. call'[t] = [r EXCEPT !.wait = Sooner(r.wait)]  BY <2>1 DEF Tick
    <2>5. ASSUME NEW w \in 0 .. AcquireTimeout
          PROVE  LET q == [r EXCEPT !.wait = w]
                 IN  Alike(q, r) /\ q.pc = r.pc /\ q.next = r.next /\ q.cred = r.cred
      BY DEF Alike, CallSet
    <2>6. PICK w \in 0 .. AcquireTimeout : w = Sooner(r.wait)  BY <2>3
    <2>7. call'[t] = [r EXCEPT !.wait = w]  BY <2>4, <2>6
    <2> QED  BY <2>1, <2>5, <2>7
  <1>6. ASSUME NEW c \in Credentials
        PROVE  /\ limits'[c] \in LimitSet /\ limits'[c].left = Sooner(limits[c].left)
               /\ limits[c].left \in 0 .. MaxDelay
               /\ limits'[c].answered <=> limits[c].answered /\ limits[c].left > 1
    <2>1. limits[c].left \in 0 .. MaxDelay /\ limits[c].answered \in BOOLEAN
      BY <1>2 DEF LimitSet
    <2>2. Sooner(limits[c].left) \in 0 .. MaxDelay  BY <1>1, <2>1, SoonerType
    <2>3. limits'[c] = [left |-> Sooner(limits[c].left),
                        answered |-> limits[c].answered /\ limits[c].left > 1]
      BY DEF Tick
    <2>4. PICK b \in BOOLEAN : b <=> limits[c].answered /\ limits[c].left > 1  OBVIOUS
    <2>5. limits'[c] = [left |-> Sooner(limits[c].left), answered |-> b]
      BY <2>1, <2>3, <2>4
    <2>6. limits'[c] \in LimitSet  BY <2>2, <2>5 DEF LimitSet
    <2> QED  BY <2>1, <2>4, <2>5, <2>6
  <1>7. TypeOK'
    <2>1. /\ pool' \in [Credentials -> PoolSet] /\ circuit' \in [Capabilities -> CircuitSet]
          /\ limits' \in [Credentials -> LimitSet]
      <3>1. /\ pool' = [c \in Credentials |-> pool'[c]]
            /\ circuit' = [k \in Capabilities |-> circuit'[k]]
            /\ limits' = [c \in Credentials |-> limits'[c]]
        BY DEF Tick
      <3> QED  BY <3>1, <1>3, <1>4, <1>6
    <2>2. call' \in [Callers -> CallSet]
      <3>1. call' = [t \in Callers |-> call'[t]]  BY DEF Tick
      <3> QED  BY <3>1, <1>5 DEF Alike
    <2> QED
      BY <1>0, <1>2, <2>1, <2>2, SetupKept
      DEF Types, TypeOK, PoolSet, CircuitSet, LimitSet, CallSet
  <1>8. SlotsAccounted'
    <2>1. \A c : Holders(c)' = {t \in Callers : call'[t].pc \in Holding /\ call'[t].cred = c}
      BY DEF Holders
    <2>2. \A c : {t \in Callers : call'[t].pc \in Holding /\ call'[t].cred = c} = Holders(c)
      BY <1>5 DEF Holders
    <2> QED  BY <1>3, <2>2, SetupKept DEF Safe, SlotsAccounted, Holders
  <1>9. RefusalsStand'
    BY <1>5 DEF Safe, RefusalsStand, At, Alike
  <1>10. Refusals'
    <2> SUFFICES ASSUME NEW t \in Callers, NEW c \in call'[t].refusedBy
                 PROVE  pool'[c].disabled \/ call'[t].cap \in pool'[c].forbidden
      BY DEF Refusals, Disabled
    <2>1. call'[t].refusedBy = call[t].refusedBy /\ call'[t].cap = call[t].cap
      BY <1>5 DEF Alike
    <2>2. c \in Credentials /\ Disabled(c, call[t].cap)
      BY <1>0, <2>1, CallFields DEF Safe, Refusals
    <2> QED  BY <1>3, <2>1, <2>2 DEF Disabled
  <1>11. Budget'
    <2> SUFFICES ASSUME NEW t \in Callers PROVE BudgetOf(call[t])'
      BY DEF Budget
    <2>1. BudgetOf(call[t])  BY DEF Safe, Budget
    <2> QED  BY <1>5, <2>1, SetupKept DEF BudgetOf, Affords, Alike
  <1>12. Cooldowns'
    <2> SUFFICES ASSUME NEW c \in Credentials
                 PROVE  \/ limits'[c].left = 0 \/ limits'[c].answered
                        \/ pool'[c].disabled \/ pool'[c].cooling = limits'[c].left
      BY SetupKept DEF Cooldowns
    <2>1. \/ limits[c].left = 0 \/ limits[c].answered
          \/ pool[c].disabled \/ pool[c].cooling = limits[c].left
      BY DEF Safe, Cooldowns
    <2>2. CASE limits[c].left \in {0, 1}
      BY <1>6, <2>2 DEF Sooner
    <2>3. CASE limits[c].left > 1
      <3>1. limits'[c].answered <=> limits[c].answered  BY <1>6, <2>3
      <3>2. limits[c].left # 0  BY <2>3
      <3> QED  BY <1>3, <1>6, <2>1, <3>1, <3>2
    <2> QED  BY <1>1, <1>6, <2>2, <2>3
  <1>13. Failures'
    BY <1>2, <1>4, SetupKept DEF Safe, Failures
  <1> QED  BY <1>7, <1>8, <1>9, <1>10, <1>11, <1>12, <1>13 DEF Safe

-----------------------------------------------------------------------------
(* The invariant.                                                          *)

LEMMA InitSafe ==
    ASSUME Init
    PROVE  Safe
  <1>0. /\ setup \in Setups /\ NoCall \in CallSet /\ MaxDelay \in Nat /\ ResetTime \in Nat
        /\ MaxInFlight \in 1 .. 16 /\ Threshold \in 1 .. 20 /\ 0 \in Credentials
        /\ Blank(NoCall) /\ NoCall.pc = "idle"
    BY NoCallType, BlankNoCall, SetupTypes, MaxDelayType, TransportAssumption DEF Init, NoCall
  <1>1. TypeOK
    <2>1. pool \in [Credentials -> PoolSet]
      BY <1>0 DEF Init, PoolSet
    <2>2. circuit \in [Capabilities -> CircuitSet]
      BY <1>0 DEF Init, CircuitSet
    <2>3. call \in [Callers -> CallSet]  BY <1>0 DEF Init
    <2>4. limits \in [Credentials -> LimitSet]  BY <1>0 DEF Init, LimitSet
    <2>5. tally \in [Capabilities -> 0 .. Threshold]  BY <1>0 DEF Init
    <2> QED  BY <1>0, <2>1, <2>2, <2>3, <2>4, <2>5, TypesSplit DEF Init, Types
  <1>2. \A t \in Callers : call[t] = NoCall  BY DEF Init
  <1>3. SlotsAccounted
    <2> SUFFICES ASSUME NEW c \in Credentials
                 PROVE  /\ pool[c].inFlight = Cardinality(Holders(c))
                        /\ pool[c].inFlight <= MaxInFlight
      BY DEF SlotsAccounted
    <2>1. Holders(c) = {}  BY <1>0, <1>2 DEF Holders, Holding
    <2>2. pool[c].inFlight = 0  BY DEF Init
    <2> QED  BY <1>0, <2>1, <2>2, FS_EmptySet
  <1>4. RefusalsStand /\ Refusals
    BY <1>0, <1>2 DEF RefusalsStand, Refusals, At, Blank
  <1>5. Budget  BY <1>0, <1>2, BlankBudget DEF Budget
  <1>6. Cooldowns  BY DEF Init, Cooldowns
  <1>7. Failures  BY <1>0 DEF Init, Failures
  <1> QED  BY <1>1, <1>3, <1>4, <1>5, <1>6, <1>7 DEF Safe

LEMMA SafeStep ==
    ASSUME Safe, [Next]_vars
    PROVE  Safe'
  <1>0. setup' = setup /\ setup \in Setups /\ Types
    BY SetupStep, TypesSplit DEF Safe
  <1>1. ASSUME NEW t \in Callers, Step(t) \/ \E k \in Capabilities : Request(t, k)
        PROVE  Safe'
    <2>1. TypeOK' /\ Budget' /\ Failures'
      BY <1>0, <1>1, CallsKeepTypes DEF Safe
    <2>2. SlotsAccounted'  BY <1>0, <1>1, SlotsKept DEF Safe
    <2>3. RefusalsStand'  BY <1>0, <1>1, RefusalsStandKept DEF Safe
    <2>4. Refusals'  BY <1>0, <1>1, RefusalsKept DEF Safe
    <2>5. Cooldowns'  BY <1>0, <1>1, CooldownsKept DEF Safe
    <2> QED  BY <2>1, <2>2, <2>3, <2>4, <2>5 DEF Safe
  <1>2. CASE (\E k \in Capabilities : ReadHealth(k)) \/ Close
    BY <1>0, <1>2, HealthAndShutdown
  <1>3. CASE Tick  BY <1>0, <1>3, TimePasses
  <1>4. CASE UNCHANGED vars
    <2>1. /\ pool' = pool /\ cursor' = cursor /\ circuit' = circuit /\ closed' = closed
          /\ call' = call /\ limits' = limits /\ tally' = tally
      BY <1>4 DEF vars
    <2>2. TypeOK'  BY <1>0, <2>1, SetupKept DEF Safe, TypeOK
    <2>3. SlotsAccounted'  BY <1>0, <2>1, SetupKept DEF Safe, SlotsAccounted, Holders
    <2>4. RefusalsStand' /\ Refusals'
      BY <2>1 DEF Safe, RefusalsStand, Refusals, At, Disabled
    <2>5. Budget'  BY <1>0, <2>1, SetupKept DEF Safe, Budget, BudgetOf, Affords
    <2>6. Cooldowns' /\ Failures'  BY <1>0, <2>1, SetupKept DEF Safe, Cooldowns, Failures
    <2> QED  BY <2>2, <2>3, <2>4, <2>5, <2>6 DEF Safe
  <1> QED  BY <1>1, <1>2, <1>3, <1>4 DEF Next

\* Whatever callers, answers, shutdown and time do, the transport is Safe.
LEMMA AlwaysSafe == Spec => []Safe
  BY InitSafe, SafeStep, PTL DEF Spec

(* However callers interleave, the slots of a credential are those its     *)
(* holders have, a refusal is not asked again, a request keeps to one      *)
(* budget of attempts, and a circuit is open for failures that count       *)
(* (_acquire_credential, _release_credential and request_chat_completion). *)
THEOREM TransportKeepsAccount == Spec => []PoolSafe
  <1>1. Safe => PoolSafe
    BY DEF Safe, PoolSafe, Budget, BudgetOf, OneBudget, At, Failures, CircuitEarned
  <1> QED  BY <1>1, AlwaysSafe, PTL

(* A credential that was told to wait is taken again only when its delay   *)
(* is over or another request on it has been answered since                *)
(* (cooldown_until, as _cooldown_credential and _mark_credential_success   *)
(* set it).                                                                *)
THEOREM DelaysAreHonoured == Spec => LimitsHonoured
  <1> DEFINE Honoured ==
          \A t \in Callers :
              (~At(t, "post") /\ At(t, "post")')
                  => LET c == call'[t].cred IN limits[c].left = 0 \/ limits[c].answered
  <1>1. Safe /\ [Next]_vars => [Honoured]_vars
    <2> SUFFICES ASSUME Safe, Next PROVE Honoured
      OBVIOUS
    <2>0. setup \in Setups /\ Types  BY TypesSplit DEF Safe
    <2>1. CASE call' = call  BY <2>1 DEF At
    <2>2. CASE Tick
      <3>1. \A s \in Callers : call'[s].pc = call[s].pc
        <4> SUFFICES ASSUME NEW s \in Callers PROVE call'[s].pc = call[s].pc  OBVIOUS
        <4>1. call[s] \in CallSet  BY <2>0, CallFields
        <4>2. call'[s] = [call[s] EXCEPT !.wait = Sooner(@)]  BY <2>2 DEF Tick
        <4> QED  BY <4>1, <4>2 DEF CallSet
      <3> QED  BY <3>1 DEF At
    <2>3. ASSUME NEW t \in Callers, Step(t) \/ \E k \in Capabilities : Request(t, k)
          PROVE  Honoured
      <3> SUFFICES ASSUME NEW s \in Callers, call[s].pc # "post", call'[s].pc = "post"
                   PROVE  limits[call'[s].cred].left = 0 \/ limits[call'[s].cred].answered
        BY DEF At
      <3>1. call'[s].cred \in Credentials /\ Ready(call'[s].cred, call[s].cap)
        BY <2>0, <2>3, SendersHaveTaken DEF Safe
      <3> QED  BY <3>1 DEF Ready, Disabled, Safe, Cooldowns
    <2> QED  BY <2>1, <2>2, <2>3 DEF Next, ReadHealth, Close
  <1> HIDE DEF Honoured
  <1>2. LimitsHonoured <=> [][Honoured]_vars
    BY DEF LimitsHonoured, Honoured
  <1> QED  BY <1>1, <1>2, AlwaysSafe, PTL DEF Spec

-----------------------------------------------------------------------------
(* The nodes of a program, and what is measured of them.                   *)

\* A set of natural numbers has a least one.
LEMMA LeastIs ==
    ASSUME NEW S \in SUBSET Nat, S # {}
    PROVE  \E x \in S : \A y \in S : x <= y
<1>1. PICK x \in S : \A y \in S : ~(<<y, x>> \in OpToRel(<, Nat))
  BY NatLessThanWellFounded, WFMin
<1>2. \A y \in S : ~(y < x)
  BY <1>1 DEF OpToRel
<1> QED BY <1>2

\* A node found by its identifier is one of the program's.
LEMMA NodeIsOne ==
    ASSUME NEW p, IsReply(p), NEW n \in Ids(p)
    PROVE  /\ \E i \in DOMAIN p.nodes : Node(p, n) = p.nodes[i]
           /\ IsNode(Node(p, n))
           /\ Node(p, n).id = n
<1>1. \E i \in DOMAIN p.nodes : p.nodes[i].id = n
  BY DEF Ids
<1>2. PICK i \in DOMAIN p.nodes : Node(p, n) = p.nodes[i] /\ p.nodes[i].id = n
  BY <1>1 DEF Node
<1> QED BY <1>2 DEF IsReply

\* A program has finitely many nodes.
LEMMA FiniteIds ==
    ASSUME NEW p, IsReply(p)
    PROVE  /\ DOMAIN p.nodes = 1 .. Len(p.nodes) /\ Len(p.nodes) \in Nat
           /\ IsFiniteSet(DOMAIN p.nodes) /\ Cardinality(DOMAIN p.nodes) = Len(p.nodes)
           /\ IsFiniteSet(Ids(p))
<1> DEFINE f == [i \in DOMAIN p.nodes |-> p.nodes[i].id]
<1>1. DOMAIN p.nodes = 1 .. Len(p.nodes) /\ Len(p.nodes) \in Nat
  BY LenProperties DEF IsReply
<1>2. IsFiniteSet(DOMAIN p.nodes) /\ Cardinality(DOMAIN p.nodes) = Len(p.nodes)
  BY <1>1, FS_Interval
<1>3. f \in Surjection(DOMAIN p.nodes, Ids(p))
  BY DEF Surjection, Ids
<1> QED BY <1>1, <1>2, <1>3, FS_Surjection

\* With distinct identifiers, each node is found by its own.
LEMMA NodeIs ==
    ASSUME NEW p, IsReply(p), UniqueIds(p)
    PROVE  /\ \A i, j \in DOMAIN p.nodes : p.nodes[i].id = p.nodes[j].id => i = j
           /\ \A i \in DOMAIN p.nodes : Node(p, p.nodes[i].id) = p.nodes[i]
<1> DEFINE f == [i \in DOMAIN p.nodes |-> p.nodes[i].id]
<1>1. f \in Surjection(DOMAIN p.nodes, Ids(p))
  BY DEF Surjection, Ids
<1>2. f \in Injection(DOMAIN p.nodes, Ids(p))
  BY <1>1, FiniteIds, FS_Surjection DEF UniqueIds
<1>3. \A i, j \in DOMAIN p.nodes : p.nodes[i].id = p.nodes[j].id => i = j
  BY <1>2 DEF Injection, IsInjective
<1>4. ASSUME NEW i \in DOMAIN p.nodes PROVE Node(p, p.nodes[i].id) = p.nodes[i]
  BY <1>3 DEF Node
<1> QED BY <1>3, <1>4

\* What a node needs is in the program.
LEMMA NeedsKnown ==
    ASSUME NEW p, IsReply(p), ReferencesKnown(p), NEW n \in Ids(p)
    PROVE  Needs(p, n) \subseteq Ids(p) /\ Uses(Node(p, n)) \subseteq Ids(p)
<1>1. PICK i \in DOMAIN p.nodes : Node(p, n) = p.nodes[i]
  BY NodeIsOne
<1> QED BY <1>1 DEF ReferencesKnown, Needs

\* The measure of a node reads the measures of the nodes it needs, and no others.
LEMMA MeasureIsLocal ==
    ASSUME NEW p, NEW x, IsNode(x), NEW f, NEW g,
           \A m \in Uses(x) \cup ({x.parent} \ {None}) : f[m] = g[m]
    PROVE  FrameOf(x, f) = FrameOf(x, g) /\ ExtentOf(p, x, f) = ExtentOf(p, x, g)
<1>1. x.parent # None => f[x.parent] = g[x.parent]
  OBVIOUS
<1>2. \A i \in 1 .. Arity(x.kind) : f[x.uses[i]] = g[x.uses[i]]
  BY DEF IsNode, Uses, ToSet
<1>3. x.kind \in {"instance", "array", "modifier"} => 1 \in 1 .. Arity(x.kind)
  BY DEF Arity, Copies
<1>4. x.kind = "boolean" => {1, 2} \subseteq 1 .. Arity(x.kind)
  BY DEF Arity, Copies, Swept
<1>5. x.kind \in {"instance", "array", "modifier", "boolean"} => f[x.uses[1]] = g[x.uses[1]]
  BY <1>2, <1>3, <1>4
<1>6. x.kind = "boolean" => f[x.uses[2]] = g[x.uses[2]]
  BY <1>2, <1>4
<1>7. FrameOf(x, f) = FrameOf(x, g)
  BY <1>1 DEF FrameOf
<1>8. ExtentOf(p, x, f) = ExtentOf(p, x, g)
  BY <1>5, <1>6 DEF ExtentOf
<1> QED BY <1>7, <1>8

\* In a program without cycles every node has a frame and an extent, those the contract
\* computes node after node (geometry_program.py _geometry_corners, _node_world_matrix).
Measure(p, f, n) == [frame |-> FrameOf(Node(p, n), f), extent |-> ExtentOf(p, Node(p, n), f)]

\* One element taken out of what is left makes it smaller by one.
LEMMA OneLess ==
    ASSUME NEW A, IsFiniteSet(A), NEW B, NEW n \in A \ B
    PROVE  Cardinality(A \ (B \cup {n})) = Cardinality(A \ B) - 1
<1>1. A \ (B \cup {n}) = (A \ B) \ {n}
  OBVIOUS
<1>2. IsFiniteSet(A \ B)
  BY FS_Difference
<1> QED BY <1>1, <1>2, FS_RemoveElement

\* The measure of a node is that of the nodes it needs, however deep they lie: the recursion has an
\* answer for every acyclic program.
LEMMA MeasuresUnfold ==
    ASSUME NEW p, IsReply(p), ReferencesKnown(p), Acyclic(p)
    PROVE  \A n \in Ids(p) : Measures(p)[n] = Measure(p, Measures(p), n)
<1> DEFINE Solves(g, S) == g = [n \in S |-> Measure(p, g, n)]
           Closed0(S)   == \A n \in S : Needs(p, n) \subseteq S
           Solved       == {S \in SUBSET Ids(p) : Closed0(S) /\ \E g : Solves(g, S)}
           Missing      == {Cardinality(Ids(p) \ S) : S \in Solved}
<1>1. Measures(p) = CHOOSE g : Solves(g, Ids(p))
  BY DEF Measures, Measure
<1>2. IsFiniteSet(Ids(p))
  BY FiniteIds
<1>3. {} \in Solved
  <2>1. Solves([n \in {} |-> 0], {})
    OBVIOUS
  <2> QED BY <2>1
<1>4. Missing \subseteq Nat /\ Missing # {}
  <2>1. ASSUME NEW S \in Solved PROVE Cardinality(Ids(p) \ S) \in Nat
    BY <1>2, FS_Difference, FS_CardinalityType
  <2> HIDE DEF Solved
  <2> QED BY <2>1, <1>3
<1>5. PICK S \in Solved : \A T \in Solved : Cardinality(Ids(p) \ S) <= Cardinality(Ids(p) \ T)
  <2> HIDE DEF Missing, Solved
  <2>1. PICK k \in Missing : \A j \in Missing : k <= j
    BY <1>4, LeastIs
  <2> QED BY <2>1 DEF Missing
<1>6. S = Ids(p)
  <2>1. SUFFICES ASSUME S # Ids(p) PROVE FALSE
    OBVIOUS
  <2>2. Ids(p) \ S \in (SUBSET Ids(p)) \ {{}}
    BY <2>1
  <2>3. PICK n \in Ids(p) \ S : Needs(p, n) \cap (Ids(p) \ S) = {}
    BY <2>2 DEF Acyclic
  <2>4. Needs(p, n) \subseteq S
    BY <2>3, NeedsKnown
  <2>5. PICK g : Solves(g, S)
    OBVIOUS
  <2> DEFINE h == [m \in S \cup {n} |-> IF m \in S THEN g[m] ELSE Measure(p, g, n)]
  <2>6. ASSUME NEW m \in S \cup {n} PROVE h[m] = Measure(p, h, m)
    <3>1. Needs(p, m) \subseteq S /\ m \in Ids(p)
      BY <2>4
    <3>2. \A k \in Uses(Node(p, m)) \cup ({Node(p, m).parent} \ {None}) : g[k] = h[k]
      BY <3>1 DEF Needs
    <3> HIDE DEF h
    <3>3. Measure(p, g, m) = Measure(p, h, m)
      <4>1. IsNode(Node(p, m))
        BY <3>1, NodeIsOne
      <4>2. /\ FrameOf(Node(p, m), g) = FrameOf(Node(p, m), h)
            /\ ExtentOf(p, Node(p, m), g) = ExtentOf(p, Node(p, m), h)
        BY <3>2, <4>1, MeasureIsLocal
      <4> QED BY <4>2 DEF Measure
    <3>4. h[m] = Measure(p, g, m)
      <4>1. m \in S => g[m] = Measure(p, g, m)
        BY <2>5
      <4> QED BY <4>1, <2>3 DEF h
    <3> QED BY <3>3, <3>4
  <2>7. Solves(h, S \cup {n})
    <3> DEFINE k == [m \in S \cup {n} |-> Measure(p, h, m)]
    <3>1. \A m \in S \cup {n} : h[m] = k[m]
      BY <2>6
    <3>2. DOMAIN h = S \cup {n} /\ DOMAIN k = S \cup {n}
      OBVIOUS
    <3> QED BY <3>1, <3>2
  <2> HIDE DEF h
  <2>8. S \cup {n} \in Solved
    BY <2>4, <2>7
  <2>9. Cardinality(Ids(p) \ (S \cup {n})) = Cardinality(Ids(p) \ S) - 1
    BY <1>2, <2>3, OneLess, Zenon
  <2>10. Cardinality(Ids(p) \ S) \in Nat
    BY <1>2, FS_Difference, FS_CardinalityType
  <2>11. Cardinality(Ids(p) \ S) <= Cardinality(Ids(p) \ (S \cup {n}))
    BY <1>5, <2>8
  <2> QED BY <2>9, <2>10, <2>11
<1>7. \E g : Solves(g, Ids(p))
  BY <1>5, <1>6
<1>8. Solves(Measures(p), Ids(p))
  BY <1>1, <1>7
<1> QED BY <1>8

\* What is measured is numbers: a frame with a positive scale, a pair of heights.
FrameSet  == [at : Int, scale : (Nat \ {0}) \X (Nat \ {0}), turned : BOOLEAN]
ExtentSet == Int \X Int

\* Quotients, frames and extents are integers, pairs and records of them.
LEMMA DivisionType ==
    ASSUME NEW a \in Int, NEW d \in Nat \ {0}
    PROVE  a \div d \in Int
  OBVIOUS

\* A height in a frame is an integer.
LEMMA WithinType ==
    ASSUME NEW f \in FrameSet, NEW z \in Int
    PROVE  Scaled(f, z) \in Int /\ Within(f, z) \in Int
<1>1. f.at \in Int /\ f.scale[1] \in Nat /\ f.scale[2] \in Nat \ {0}
  BY DEF FrameSet
<1>2. z * f.scale[1] \in Int
  BY <1>1
<1>3. (z * f.scale[1]) \div f.scale[2] \in Int
  BY <1>1, <1>2, DivisionType
<1> QED BY <1>1, <1>3 DEF Within, Scaled

\* Scales multiply.
LEMMA ProductType ==
    ASSUME NEW a \in Nat \ {0}, NEW b \in Nat \ {0}
    PROVE  a * b \in Nat \ {0}
  OBVIOUS

\* Frames compose to frames.
LEMMA ComposeType ==
    ASSUME NEW f \in FrameSet, NEW g \in FrameSet
    PROVE  Compose(f, g) \in FrameSet
<1>1. Within(f, g.at) \in Int
  BY WithinType DEF FrameSet
<1>2. f.scale[1] * g.scale[1] \in Nat \ {0} /\ f.scale[2] * g.scale[2] \in Nat \ {0}
  BY ProductType DEF FrameSet
<1>3. (f.turned # g.turned) \in BOOLEAN
  OBVIOUS
<1> QED BY <1>1, <1>2, <1>3 DEF Compose, FrameSet

\* An extent in a frame is an extent.
LEMMA MapType ==
    ASSUME NEW f \in FrameSet, NEW e \in ExtentSet
    PROVE  Map(f, e) \in ExtentSet
<1>1. Within(f, e[1]) \in Int /\ Within(f, e[2]) \in Int
  BY WithinType DEF ExtentSet
<1> QED BY <1>1 DEF Map, ExtentSet

\* The frame of a node, given its parent's.
LEMMA FrameOfType ==
    ASSUME NEW x, IsNode(x), NEW f, x.parent # None => f[x.parent].frame \in FrameSet
    PROVE  FrameOf(x, f) \in FrameSet
<1>1. Local(x) \in FrameSet
  BY DEF Local, IsNode, FrameSet
<1> QED BY <1>1, ComposeType DEF FrameOf

\* The extent of a node, given those of what it is built from.
LEMMA ExtentOfType ==
    ASSUME NEW p, NEW x, IsNode(x), NEW f,
           \A m \in Uses(x) : f[m].frame \in FrameSet /\ f[m].extent \in ExtentSet,
           x.kind \in Swept => IsNode(Node(p, x.uses[1]))
    PROVE  ExtentOf(p, x, f) \in ExtentSet
<1>1. \A i \in 1 .. Arity(x.kind) : x.uses[i] \in Uses(x)
  BY DEF IsNode, Uses, ToSet
<1>2. x.kind \in Copies \cup {"boolean"} =>
        f[x.uses[1]].extent \in ExtentSet /\ f[x.uses[1]].frame \in FrameSet
  <2>1. x.kind \in Copies \cup {"boolean"} => 1 \in 1 .. Arity(x.kind)
    BY DEF Arity, Copies, Swept
  <2> QED BY <1>1, <2>1
<1>3. x.kind = "boolean" => f[x.uses[2]].extent \in ExtentSet /\ f[x.uses[2]].frame \in FrameSet
  <2>1. x.kind = "boolean" => 2 \in 1 .. Arity(x.kind)
    BY DEF Arity, Copies, Swept
  <2> QED BY <1>1, <2>1
<1>4. /\ x.low \in Int /\ x.high \in Int /\ x.step \in Int /\ x.count \in Nat
  BY DEF IsNode
<1>5. CASE x.kind \in Swept
  <2>1. Node(p, x.uses[1]).low \in Int /\ Node(p, x.uses[1]).high \in Int
    BY <1>5 DEF IsNode
  <2>2. SweptExtent(x, Node(p, x.uses[1])) \in ExtentSet
    BY <1>4, <2>1 DEF SweptExtent, ExtentSet
  <2> QED BY <1>5, <2>2 DEF ExtentOf, Swept
<1>6. CASE x.kind = "profile"
  BY <1>6 DEF ExtentOf, ExtentSet, Swept
<1>7. CASE x.kind = "instance"
  BY <1>2, <1>7 DEF ExtentOf, Copies, Swept
<1>8. CASE x.kind = "array"
  <2> DEFINE e == f[x.uses[1]].extent
  <2>1. e \in ExtentSet
    BY <1>2, <1>8 DEF Copies
  <2> HIDE DEF e
  <2>2. (x.count - 1) * x.step \in Int
    BY <1>4
  <2>3. ArrayExtent(x, e) \in ExtentSet
    BY <2>1, <2>2 DEF ArrayExtent, Hull, ExtentSet
  <2> QED BY <1>8, <2>3 DEF ExtentOf, Swept, e
<1>9. CASE x.kind = "modifier"
  <2> DEFINE e == f[x.uses[1]].extent
  <2>1. e \in ExtentSet
    BY <1>2, <1>9 DEF Copies
  <2> HIDE DEF e
  <2>2. ModifiedExtent(x, e) \in ExtentSet
    BY <1>4, <2>1 DEF ModifiedExtent, Hull, ExtentSet
  <2> QED BY <1>9, <2>2 DEF ExtentOf, Swept, e
<1>10. CASE x.kind = "boolean"
  <2> DEFINE l == Map(f[x.uses[1]].frame, f[x.uses[1]].extent)
             r == Map(f[x.uses[2]].frame, f[x.uses[2]].extent)
  <2>1. l \in ExtentSet /\ r \in ExtentSet
    BY <1>2, <1>3, <1>10, MapType
  <2>2. ExtentOf(p, x, f) = BooleanExtent(x.op, l, r)
    BY <1>10 DEF ExtentOf, Swept
  <2> HIDE DEF l, r
  <2>3. BooleanExtent(x.op, l, r) \in ExtentSet
    BY <2>1 DEF BooleanExtent, Hull, Meet, ExtentSet
  <2> QED BY <2>2, <2>3
<1>11. CASE x.kind \notin Swept \cup {"profile", "instance", "array", "modifier", "boolean"}
  BY <1>4, <1>11 DEF ExtentOf, ExtentSet
<1> QED BY <1>5, <1>6, <1>7, <1>8, <1>9, <1>10, <1>11

\* A program the contract can measure.
Sound(p) == IsReply(p) /\ UniqueIds(p) /\ ReferencesKnown(p) /\ Acyclic(p)

\* Every node of a sound program is measured.
LEMMA MeasuresType ==
    ASSUME NEW p, Sound(p)
    PROVE  \A n \in Ids(p) : Frame(p, n) \in FrameSet /\ Extent(p, n) \in ExtentSet
                             /\ Standing(p, n) \in ExtentSet
<1> DEFINE f == Measures(p)
           Typed(n) == f[n].frame \in FrameSet /\ f[n].extent \in ExtentSet
           bad == {n \in Ids(p) : ~Typed(n)}
<1>1. \A n \in Ids(p) : f[n] = Measure(p, f, n)
  BY MeasuresUnfold DEF Sound
<1> HIDE DEF f
<1>2. bad = {}
  <2>1. SUFFICES ASSUME bad # {} PROVE FALSE
    OBVIOUS
  <2>2. bad \in (SUBSET Ids(p)) \ {{}}
    BY <2>1
  <2>3. PICK n \in bad : Needs(p, n) \cap bad = {}
    BY <2>2 DEF Acyclic, Sound
  <2>4. n \in Ids(p) /\ ~Typed(n)
    OBVIOUS
  <2>5. \A m \in Needs(p, n) : Typed(m)
    BY <2>3, <2>4, NeedsKnown DEF Sound
  <2> DEFINE x == Node(p, n)
  <2>6. IsNode(x)
    BY <2>4, NodeIsOne DEF Sound
  <2>7. x.kind \in Swept => IsNode(Node(p, x.uses[1]))
    <3>1. x.kind \in Swept => 1 \in 1 .. Arity(x.kind)
      BY DEF Arity
    <3>2. x.kind \in Swept => x.uses[1] \in Uses(x)
      BY <2>6, <3>1 DEF IsNode, Uses, ToSet
    <3>3. Uses(x) \subseteq Ids(p)
      BY <2>4, NeedsKnown DEF Sound
    <3> QED BY <3>2, <3>3, NodeIsOne DEF Sound
  <2>8. \A m \in Uses(x) \cup ({x.parent} \ {None}) : Typed(m)
    BY <2>5 DEF Needs
  <2> HIDE DEF x
  <2>9. FrameOf(x, f) \in FrameSet
    BY <2>6, <2>8, FrameOfType
  <2>10. ExtentOf(p, x, f) \in ExtentSet
    BY <2>6, <2>7, <2>8, ExtentOfType
  <2>11. f[n] = [frame |-> FrameOf(x, f), extent |-> ExtentOf(p, x, f)]
    BY <1>1, <2>4 DEF Measure, x
  <2> QED BY <2>4, <2>9, <2>10, <2>11
<1>3. \A n \in Ids(p) : Typed(n)
  BY <1>2
<1> QED BY <1>3, MapType DEF Frame, Extent, Standing, f

-----------------------------------------------------------------------------
(* The envelope.                                                           *)

\* A finite set of numbers has a least one and a greatest one.
LEMMA FiniteLeast ==
    ASSUME NEW S \in SUBSET Int, IsFiniteSet(S), S # {}
    PROVE  \E x \in S : \A y \in S : x <= y
<1> DEFINE Lowest(T) == \E x \in T : \A y \in T : x <= y
           Endless  == {T \in SUBSET S : T # {} /\ ~Lowest(T)}
           Sizes    == {Cardinality(T) : T \in Endless}
<1>1. Endless = {}
  <2>1. SUFFICES ASSUME Endless # {} PROVE FALSE
    OBVIOUS
  <2>2. Sizes \subseteq Nat /\ Sizes # {}
    <3>1. \A T \in Endless : Cardinality(T) \in Nat
      BY FS_Subset, FS_CardinalityType
    <3> HIDE DEF Endless
    <3> QED BY <2>1, <3>1
  <2>3. PICK T \in Endless : \A U \in Endless : Cardinality(T) <= Cardinality(U)
    <3> HIDE DEF Endless, Sizes
    <3>1. PICK k \in Sizes : \A j \in Sizes : k <= j
      BY <2>2, LeastIs
    <3> QED BY <3>1 DEF Sizes
  <2>4. PICK t \in T : TRUE
    OBVIOUS
  <2>5. IsFiniteSet(T)
    BY FS_Subset
  <2>6. Cardinality(T \ {t}) = Cardinality(T) - 1 /\ Cardinality(T) \in Nat
    BY <2>5, FS_RemoveElement, FS_CardinalityType
  <2>7. T \ {t} \notin Endless
    <3> HIDE DEF Endless
    <3>1. ~(Cardinality(T) <= Cardinality(T) - 1)
      BY <2>6
    <3> QED BY <2>3, <2>6, <3>1
  <2>8. T \subseteq Int /\ ~Lowest(T)
    OBVIOUS
  <2>9. T \ {t} # {}
    <3>1. T = {t} => Lowest(T)
      BY <2>8
    <3> QED BY <2>4, <2>8, <3>1
  <2>10. PICK m \in T \ {t} : \A y \in T \ {t} : m <= y
    BY <2>7, <2>9
  <2>11. Lowest(T)
    <3>1. CASE m <= t
      BY <2>8, <2>10, <3>1
    <3>2. CASE ~(m <= t)
      <4>1. \A y \in T : t <= y
        BY <2>4, <2>8, <2>10, <3>2
      <4> QED BY <2>4, <4>1
    <3> QED BY <3>1, <3>2
  <2> QED BY <2>8, <2>11
<1>2. S \notin Endless
  BY <1>1
<1> QED BY <1>2

\* A finite set of integers has a greatest one.
LEMMA FiniteGreatest ==
    ASSUME NEW S \in SUBSET Int, IsFiniteSet(S), S # {}
    PROVE  \E x \in S : \A y \in S : y <= x
<1> DEFINE T == {-x : x \in S}
           f == [x \in S |-> -x]
<1>1. f \in Surjection(S, T)
  BY DEF Surjection
<1>2. IsFiniteSet(T)
  BY <1>1, FS_Surjection
<1>3. T \subseteq Int /\ T # {}
  OBVIOUS
<1>4. PICK t \in T : \A y \in T : t <= y
  <2> HIDE DEF T
  <2> QED BY <1>2, <1>3, FiniteLeast
<1>5. PICK x \in S : t = -x
  OBVIOUS
<1>6. \A y \in S : y <= x
  <2>1. \A y \in S : -y \in T
    OBVIOUS
  <2> HIDE DEF T
  <2>2. \A y \in S : -x <= -y
    BY <1>4, <1>5, <2>1
  <2> QED BY <2>2
<1> QED BY <1>6

\* The envelope is that of the visible nodes, where they stand.
LEMMA EnvelopeIs ==
    ASSUME NEW p, Sound(p), Visible(p) # {}
    PROVE  /\ Envelope(p) \in ExtentSet /\ Height(p) \in Int
           /\ \A n \in Visible(p) :
                 Envelope(p)[1] <= Standing(p, n)[1] /\ Standing(p, n)[2] <= Envelope(p)[2]
<1> DEFINE V == Visible(p)
           E == {Standing(p, n) : n \in V}
           low == {e[1] : e \in E}
           high == {e[2] : e \in E}
           s == [n \in V |-> Standing(p, n)[1]]
           t == [n \in V |-> Standing(p, n)[2]]
<1>1. V \subseteq Ids(p) /\ V # {} /\ IsFiniteSet(V)
  BY FiniteIds, FS_Subset DEF Visible, Sound
<1>2. \A n \in V : Standing(p, n)[1] \in Int /\ Standing(p, n)[2] \in Int
  BY <1>1, MeasuresType DEF ExtentSet
<1>3. s \in Surjection(V, low) /\ t \in Surjection(V, high)
  BY DEF Surjection
<1>4. IsFiniteSet(low) /\ IsFiniteSet(high)
  BY <1>1, <1>3, FS_Surjection
<1> HIDE DEF V
<1>5. low \subseteq Int /\ high \subseteq Int /\ low # {} /\ high # {}
  BY <1>1, <1>2
<1>6. \A n \in V : Standing(p, n)[1] \in low /\ Standing(p, n)[2] \in high
  OBVIOUS
<1>7. Envelope(p) = <<CHOOSE z \in low : \A e \in E : z <= e[1],
                      CHOOSE z \in high : \A e \in E : z >= e[2]>>
  BY DEF Envelope, V
<1>8. \A e \in E : e[1] \in low /\ e[2] \in high
  OBVIOUS
<1> HIDE DEF low, high, E
<1>9. \E z \in low : \A e \in E : z <= e[1]
  <2>1. PICK z \in low : \A y \in low : z <= y
    BY <1>4, <1>5, FiniteLeast
  <2> QED BY <1>8, <2>1
<1>10. \E z \in high : \A e \in E : z >= e[2]
  <2>1. PICK z \in high : \A y \in high : y <= z
    BY <1>4, <1>5, FiniteGreatest
  <2> QED BY <1>5, <1>8, <2>1
<1>11. Envelope(p)[1] \in low /\ \A e \in E : Envelope(p)[1] <= e[1]
  BY <1>7, <1>9
<1>12. Envelope(p)[2] \in high /\ \A e \in E : Envelope(p)[2] >= e[2]
  BY <1>7, <1>10
<1>13. \A n \in V : Standing(p, n) \in E
  BY DEF E
<1>14. Envelope(p)[1] \in Int /\ Envelope(p)[2] \in Int
  BY <1>5, <1>11, <1>12
<1>15. Envelope(p) \in ExtentSet /\ Height(p) \in Int
  <2>1. \E a, b : Envelope(p) = <<a, b>>
    BY <1>7, Zenon
  <2>2. PICK a, b : Envelope(p) = <<a, b>>
    BY <2>1, Zenon
  <2>3. a \in Int /\ b \in Int
    BY <1>14, <2>2
  <2> QED BY <2>2, <2>3 DEF ExtentSet, Height
<1>16. \A n \in V : Envelope(p)[1] <= Standing(p, n)[1] /\ Standing(p, n)[2] <= Envelope(p)[2]
  BY <1>2, <1>11, <1>12, <1>13, <1>14
<1> QED BY <1>15, <1>16 DEF V

-----------------------------------------------------------------------------
(* The adjustments of a reply.                                             *)

\* The sum of the origins of some nodes is a number (geometry_program_planner.py
\* _fit_to_maximum_dimensions).
LEMMA TotalType ==
    ASSUME NEW p, IsReply(p), NEW ns
    PROVE  Total(p, ns) \in Int
<1> DEFINE N == Len(p.nodes)
           at(i) == IF p.nodes[i].id \in ns THEN p.nodes[i].at ELSE 0
           Partial(f, i) == IF i = 0 THEN 0 ELSE f[i - 1] + at(i)
           Solves(f, k) == f = [i \in 0 .. k |-> Partial(f, i)]
           Fails == {k \in 0 .. N : ~ \E f \in [0 .. k -> Int] : Solves(f, k)}
<1>1. N \in Nat /\ \A i \in 1 .. N : at(i) \in Int
  BY FiniteIds DEF IsReply, IsNode
<1>2. Total(p, ns) = (CHOOSE f : Solves(f, N))[N]
  BY DEF Total
<1> HIDE DEF N, at
<1>3. Fails = {}
  <2>1. SUFFICES ASSUME Fails # {} PROVE FALSE
    OBVIOUS
  <2>2. PICK k \in Fails : \A j \in Fails : k <= j
    <3>1. Fails \in SUBSET Nat
      BY <1>1
    <3> HIDE DEF Fails
    <3> QED BY <2>1, <3>1, LeastIs
  <2>3. k \in 0 .. N /\ ~ \E f \in [0 .. k -> Int] : Solves(f, k)
    OBVIOUS
  <2>4. k # 0
    <3> DEFINE f == [i \in 0 .. 0 |-> 0]
    <3>1. f \in [0 .. 0 -> Int] /\ f = [i \in 0 .. 0 |-> Partial(f, i)]
      OBVIOUS
    <3> QED BY <2>3, <3>1
  <2>5. k - 1 \in 0 .. N /\ k - 1 \notin Fails
    <3> HIDE DEF Fails
    <3> QED BY <1>1, <2>2, <2>3, <2>4
  <2>6. PICK f \in [0 .. (k - 1) -> Int] : Solves(f, k - 1)
    BY <2>5
  <2> DEFINE g == [i \in 0 .. k |-> IF i = k THEN f[k - 1] + at(k) ELSE f[i]]
  <2>7. g \in [0 .. k -> Int]
    <3>1. f[k - 1] \in Int /\ at(k) \in Int
      BY <1>1, <2>3, <2>4, <2>6
    <3> QED BY <2>3, <2>6, <3>1
  <2>8. ASSUME NEW i \in 0 .. k PROVE g[i] = Partial(g, i)
    <3>1. CASE i = k
      <4>1. g[k - 1] = f[k - 1] /\ g[k] = f[k - 1] + at(k)
        BY <2>3, <2>4
      <4> QED BY <2>4, <3>1, <4>1
    <3>2. CASE i # k
      <4>1. i \in 0 .. k - 1 /\ f[i] = Partial(f, i)
        BY <1>1, <2>3, <2>6, <3>2
      <4>2. g[i] = f[i] /\ (i # 0 => g[i - 1] = f[i - 1])
        BY <2>3, <3>2, <4>1
      <4> QED BY <4>1, <4>2
    <3> QED BY <3>1, <3>2
  <2>9. Solves(g, k)
    <3> DEFINE h == [i \in 0 .. k |-> Partial(g, i)]
    <3>1. \A i \in 0 .. k : g[i] = h[i]
      BY <2>8
    <3>2. DOMAIN g = 0 .. k /\ DOMAIN h = 0 .. k
      OBVIOUS
    <3> QED BY <3>1, <3>2
  <2> HIDE DEF g
  <2> QED BY <2>3, <2>7, <2>9
<1>4. \E f \in [0 .. N -> Int] : Solves(f, N)
  <2>1. N \in 0 .. N /\ N \notin Fails
    BY <1>1, <1>3, SMTT(30)
  <2> QED BY <2>1
<1>5. PICK f \in [0 .. N -> Int] : Solves(f, N)
  BY <1>4
<1>6. Solves(CHOOSE e : Solves(e, N), N)
  BY <1>5
<1> DEFINE e == CHOOSE e : Solves(e, N)
<1>7. Solves(e, N)
  BY <1>6
<1> HIDE DEF e
<1>8. e[N] \in Int
  <2> DEFINE bad == {i \in 0 .. N : e[i] \notin Int}
  <2>1. SUFFICES ASSUME bad # {} PROVE FALSE
    BY <1>1
  <2>2. PICK i \in bad : \A j \in bad : i <= j
    <3>1. bad \in SUBSET Nat
      BY <1>1
    <3> HIDE DEF bad
    <3> QED BY <2>1, <3>1, LeastIs
  <2>3. i \in 0 .. N /\ e[i] \notin Int /\ e[i] = Partial(e, i)
    BY <1>7
  <2>4. i # 0
    BY <2>3
  <2>5. i - 1 \in 0 .. N /\ i - 1 \notin bad
    <3> HIDE DEF bad
    <3> QED BY <1>1, <2>2, <2>3, <2>4
  <2>6. e[i - 1] \in Int
    BY <2>5
  <2> QED BY <1>1, <2>3, <2>4, <2>6
<1> QED BY <1>2, <1>8 DEF e

\* An adjustment keeps what the caller owns, changes the nodes only in some fields, and if it
\* changes one it adds the note that says so.
NodeFields == {"id", "kind", "parent", "uses", "role", "at", "scale", "turned", "low", "high",
               "closed", "gaps", "enough", "count", "step", "op", "clad", "points", "loop"}

\* The adjustments are told by their names.
Words    == {"points", "profiles", "ground", "fit"}
Notes(p) == p.notes \in Seq(Words)

Owned(q, p) ==
    /\ IsReply(q) /\ Notes(q)
    /\ q.role = p.role /\ q.quantity = p.quantity /\ q.limit = p.limit
    /\ q.ground = p.ground /\ q.exact = p.exact
    /\ DOMAIN q.nodes = DOMAIN p.nodes

Keeping(q, p, fields) ==
    \A i \in DOMAIN p.nodes : \A f \in NodeFields \ fields : q.nodes[i][f] = p.nodes[i][f]

Same(q, p) == \A i \in DOMAIN p.nodes : \A f \in NodeFields : q.nodes[i][f] = p.nodes[i][f]

Adjusted(q, p, fields, note) ==
    /\ Owned(q, p)
    /\ Keeping(q, p, fields)
    /\ Same(q, p) \/ note \in Range(q.notes)
    /\ Range(p.notes) \subseteq Range(q.notes)
    /\ Len(q.notes) <= Len(p.notes) + 1

\* A sequence keeps what it had and takes what is appended.
LEMMA AppendedTo ==
    ASSUME NEW S, NEW s \in Seq(S), NEW note \in S
    PROVE  /\ Append(s, note) \in Seq(S)
           /\ Len(Append(s, note)) = Len(s) + 1
           /\ Range(s) \subseteq Range(Append(s, note)) /\ note \in Range(Append(s, note))
<1> DEFINE t == Append(s, note)
<1>1. t \in Seq(S) /\ Len(t) = Len(s) + 1 /\ Len(s) \in Nat
  OBVIOUS
<1>2. DOMAIN s = 1 .. Len(s) /\ DOMAIN t = 1 .. Len(s) + 1
  OBVIOUS
<1>3. t[Len(s) + 1] = note /\ \A i \in 1 .. Len(s) : t[i] = s[i]
  OBVIOUS
<1> HIDE DEF t
<1>4. Len(s) + 1 \in DOMAIN t /\ \A i \in DOMAIN s : i \in DOMAIN t /\ t[i] = s[i]
  BY <1>1, <1>2, <1>3
<1>5. note \in Range(t)
  BY <1>3, <1>4 DEF Range
<1>6. Range(s) \subseteq Range(t)
  BY <1>4 DEF Range
<1> QED BY <1>1, <1>5, <1>6 DEF t

\* So do the adjustments of a program.
LEMMA Appended ==
    ASSUME NEW s \in Seq(Words), NEW note \in Words
    PROVE  /\ Append(s, note) \in Seq(Words)
           /\ Len(Append(s, note)) = Len(s) + 1
           /\ Range(s) \subseteq Range(Append(s, note)) /\ note \in Range(Append(s, note))
  BY AppendedTo, Zenon

\* A program whose nodes are replaced one by one stays a reply.
LEMMA NodesReplaced ==
    ASSUME NEW p, IsReply(p), NEW N, DOMAIN N = DOMAIN p.nodes, N = [i \in DOMAIN N |-> N[i]],
           \A i \in DOMAIN p.nodes : IsNode(N[i])
    PROVE  LET q == [p EXCEPT !.nodes = N] IN
           /\ IsReply(q) /\ q.nodes = N
           /\ \A f \in DOMAIN p \ {"nodes"} : q[f] = p[f]
           /\ DOMAIN q = DOMAIN p
<1> DEFINE q == [p EXCEPT !.nodes = N]
<1>1. q.nodes = N /\ DOMAIN q = DOMAIN p /\ q.materials = p.materials /\ q.text = p.text
  BY DEF IsReply
<1>2. N \in Seq(ToSet(N))
  <2>1. DOMAIN N = 1 .. Len(p.nodes) /\ Len(p.nodes) \in Nat
    BY FiniteIds
  <2>2. \A i \in DOMAIN N : N[i] \in ToSet(N)
    BY DEF ToSet
  <2> HIDE DEF IsReply
  <2>3. N \in [1 .. Len(p.nodes) -> ToSet(N)]
    BY <2>1, <2>2
  <2> QED BY <2>1, <2>3
<1>3. IsReply(q)
  BY <1>1, <1>2 DEF IsReply
<1>4. \A f \in DOMAIN p \ {"nodes"} : q[f] = p[f]
  OBVIOUS
<1> QED BY <1>1, <1>3, <1>4

\* A noted program is the same but for the note.
LEMMA NotedIs ==
    ASSUME NEW p, IsReply(p), Notes(p), NEW note \in Words
    PROVE  LET q == Noted(p, note) IN
           /\ IsReply(q) /\ Notes(q) /\ q.notes = Append(p.notes, note)
           /\ \A f \in DOMAIN p \ {"notes"} : q[f] = p[f]
           /\ DOMAIN q = DOMAIN p
<1> DEFINE q == Noted(p, note)
<1>1. /\ q.notes = Append(p.notes, note) /\ DOMAIN q = DOMAIN p /\ q.nodes = p.nodes
      /\ q.materials = p.materials /\ q.text = p.text
  BY DEF Noted, IsReply
<1>2. \A f \in DOMAIN p \ {"notes"} : q[f] = p[f]
  BY DEF Noted
<1>3. IsReply(q) /\ Notes(q)
  BY <1>1, Appended DEF IsReply, Notes
<1> QED BY <1>1, <1>2, <1>3

\* Nothing changed.
LEMMA Unadjusted ==
    ASSUME NEW p, IsReply(p), Notes(p), NEW fields, NEW note
    PROVE  Adjusted(p, p, fields, note)
<1>1. Len(p.notes) \in Nat
  BY DEF Notes
<1> QED BY <1>1 DEF Adjusted, Owned, Keeping, Same

\* New nodes and a note.
Rewritten(q, p, N, fields, note) ==
    /\ Adjusted(q, p, fields, note)
    /\ q.nodes = N /\ q.notes = Append(p.notes, note)
    /\ \A f \in DOMAIN p \ {"nodes", "notes"} : q[f] = p[f]

\* Nodes replaced and noted are an adjustment.
LEMMA Renoted ==
    ASSUME NEW p, IsReply(p), Notes(p), NEW note \in Words, NEW fields,
           NEW N, DOMAIN N = DOMAIN p.nodes, N = [i \in DOMAIN N |-> N[i]],
           \A i \in DOMAIN p.nodes : IsNode(N[i]),
           \A i \in DOMAIN p.nodes : \A f \in NodeFields \ fields : N[i][f] = p.nodes[i][f]
    PROVE  Rewritten(Noted([p EXCEPT !.nodes = N], note), p, N, fields, note)
<1> DEFINE m == [p EXCEPT !.nodes = N]
           q == Noted(m, note)
<1>1. /\ IsReply(m) /\ m.nodes = N /\ DOMAIN m = DOMAIN p
      /\ \A f \in DOMAIN p \ {"nodes"} : m[f] = p[f]
  BY NodesReplaced, Zenon
<1>2. Notes(m) /\ m.notes = p.notes
  BY <1>1 DEF Notes, IsReply
<1> HIDE DEF m
<1>3. /\ IsReply(q) /\ Notes(q) /\ q.notes = Append(m.notes, note)
      /\ \A f \in DOMAIN m \ {"notes"} : q[f] = m[f]
  BY <1>1, <1>2, NotedIs, Zenon
<1> HIDE DEF q
<1>4. \A f \in DOMAIN p \ {"nodes", "notes"} : q[f] = p[f]
  BY <1>1, <1>3
<1>5. q.nodes = N
  BY <1>1, <1>3 DEF IsReply
<1>6. /\ q.role = p.role /\ q.quantity = p.quantity /\ q.limit = p.limit
      /\ q.ground = p.ground /\ q.exact = p.exact
  BY <1>4 DEF IsReply
<1>7. Owned(q, p)
  BY <1>3, <1>5, <1>6 DEF Owned
<1>8. /\ note \in Range(q.notes) /\ Range(p.notes) \subseteq Range(q.notes)
      /\ Len(q.notes) <= Len(p.notes) + 1
  <2>1. Len(p.notes) \in Nat /\ p.notes \in Seq(Words)
    BY <1>2 DEF Notes
  <2> QED BY <1>2, <1>3, <2>1, Appended
<1>9. Adjusted(q, p, fields, note)
  BY <1>5, <1>7, <1>8 DEF Adjusted, Keeping
<1> QED BY <1>2, <1>3, <1>4, <1>5, <1>9 DEF Rewritten, q, m

-----------------------------------------------------------------------------
(* The inductive invariant of CognitiveDesign.                             *)

\* A program of component c, as the planner accepts it.
PinnedTo(x, p, c) ==
    /\ x.role = p.components[c].role /\ x.quantity = p.components[c].quantity
    /\ x.limit = p.components[c].limit /\ x.ground = p.components[c].ground
    /\ x.exact = FALSE

GroundKept(x) ==
    x.ground /\ "fit" \notin Range(x.notes) =>
       \A n \in Roots(x) : Upturned(x, n) \/ Sinks(x, n) \/ Standing(x, n)[1] >= 0

AcceptedFor(x, p, c)  == IsReply(x) /\ Admitted(x) /\ GroundKept(x) /\ PinnedTo(x, p, c)
Accepted(supplied, p) == \A c \in DOMAIN supplied : AcceptedFor(supplied[c], p, c)

\* Placements: a reused component where the plan puts it, a composed one at its offset from
\* its target, and no set of composed ones that only wait for each other.
TargetOf(p, c) == Component(p, Driver(p, c).target)
Linking(p)     == Chosen(p, {"compose"})
Reusing(p)     == Chosen(p, {"reuse"})

Standings(places, p) ==
    /\ Reusing(p) \subseteq DOMAIN places /\ DOMAIN places \subseteq Catalogued(p)
    /\ \A c \in Reusing(p) : places[c] = p.decisions[c].placement
    /\ \A c \in DOMAIN places \cap Linking(p) :
          /\ TargetOf(p, c) \in DOMAIN places
          /\ places[c] = places[TargetOf(p, c)] + Driver(p, c).offset
    /\ \A S \in SUBSET (DOMAIN places \cap Linking(p)) :
          S # {} => \E c \in S : TargetOf(p, c) \notin S

Places(s) == [c \in DOMAIN s.exact |-> s.exact[c].place]

\* A required relation of a catalogued component needs a composition.
Related(p)  == Linking(p) = {} => Binding(p) = {}
Composes(p) == CompositionFaults(p) = {}

\* The catalogue still gives what the scene names.
Current(s, p, files) ==
    \A c \in Catalogued(p) :
       /\ s.exact[c] = ExactProgram(files, p, c, s.exact[c].place)
       /\ ReuseFaults(files, p, c, s.exact[c].place) = {}

\* A scene the compiler has accepted.
CompiledOK(s, p, K) ==
    /\ GraphOK(p) /\ ~p.clarify
    /\ DOMAIN s.programs = Chosen(p, Generated) /\ Accepted(s.programs, p)
    /\ SceneFaults(p, s.programs) = {} /\ Composes(p) /\ Related(p)
    /\ s.exact = [c \in Catalogued(p) |-> s.exact[c]] /\ Standings(Places(s), p)
    /\ s.at \in Nat /\ s.at <= K.changes
    /\ s.at = K.changes => Current(s, p, K.files)

\* What the worker has made of a node is what the contract measured, a mesh where a mesh is
\* read, closed unless something open went into it.
ObjectOK(x, n, o) ==
    /\ DOMAIN o = {"type", "low", "high", "frame", "hidden", "role", "hollow", "border"}
    /\ o.frame = Frame(x, n)
    /\ {o.hidden, o.role, o.hollow, o.border} \subseteq BOOLEAN
    /\ Node(x, n).role => o.role
    /\ MeshSource(x, n) => o.type = "mesh"
    /\ Span(o) = Extent(x, n)
    /\ o.border => \E m \in Made(x, n) : Bordered(x, m)

ObjectsOK(x, objs) ==
    /\ DOMAIN objs \subseteq Ids(x)
    /\ \A n \in DOMAIN objs : ObjectOK(x, n, objs[n])

BuiltOK(s, objs) ==
    \A c \in DOMAIN objs : c \in DOMAIN s.programs => ObjectsOK(s.programs[c], objs[c])

\* The draft under way, and the adjustments it carries: three per attempt.
Attempts == IF draft.judged THEN ask.repairs + 1 ELSE ask.repairs

DraftOK ==
    /\ turn \in ToDraft
    /\ DOMAIN draft = {"program", "reply", "judged"} /\ draft.judged \in BOOLEAN
    /\ draft.reply \in Replies
    /\ draft.program.notes \in Seq(Words)
    /\ Len(draft.program.notes) <= 3 * Attempts
    /\ ~draft.judged => draft.program = Pinned(draft.reply, turn, draft.program.notes)
    /\ draft.judged => ask.repairs < MaxRepairs

Early    == Stages \cup {"domain", "judge", "decide", "route"}
Late     == {"geometry", "compose", "placing", "worker"}
Phases   == Early \cup Late \cup Ended

PlanningOK ==
    /\ plan \in Plans
    /\ phase \in Phases
    /\ ask \in [format : {"strict", "object"}, retries : 0 .. 2, repairs : 0 .. MaxRepairs]
    /\ decided \subseteq Components(plan)
    /\ catalogue.changes \in Nat /\ catalogue = [files |-> catalogue.files,
                                                 changes |-> catalogue.changes]
    /\ revisions \in 0 .. Revisions
    /\ fault \in Reasons \cup {None}
    /\ phase \in Late \cup {"decide", "route"} => GraphOK(plan)
    /\ phase \in Late => ~plan.clarify

DraftingOK ==
    /\ turn \in 1 .. Len(plan.components) + 1
    /\ phase # "geometry" => draft = None /\ turn = 1
    /\ draft # None => DraftOK
    /\ DOMAIN programs \subseteq Chosen(plan, Generated) /\ Accepted(programs, plan)
    /\ phase \in Early => DOMAIN programs = {}
    /\ phase = "geometry" /\ revising = None =>
          DOMAIN programs = {c \in Chosen(plan, Generated) : c < turn}
    /\ phase = "geometry" /\ revising # None =>
          DOMAIN programs = Chosen(plan, Generated) /\ revising \in Chosen(plan, Generated)
    /\ phase \in Late \ {"geometry"} => DOMAIN programs = Chosen(plan, Generated)

SceneOK ==
    /\ DOMAIN placed \subseteq Catalogued(plan)
    /\ phase = "placing" =>
          Standings(placed, plan) /\ SceneFaults(plan, programs) = {} /\ Composes(plan)
    /\ phase = "worker" => CompiledOK(scene, plan, catalogue)
    /\ BuiltOK(scene, built)

HistoryOK ==
    /\ revising \in Components(plan) \cup {None}
    /\ revising # None => phase \in Late
    /\ served # None /\ phase # "certified" => revising # None
    /\ served # None \/ revising # None \/ phase = "certified" =>
          CompiledOK(served, plan, catalogue)
    /\ revising \in Chosen(plan, Generated) /\ phase \in Late \ {"worker"} => scene = served
    /\ revising \in Chosen(plan, Generated) /\ phase = "placing" =>
          \A c \in DOMAIN placed : placed[c] = served.exact[c].place
    /\ phase = "certified" /\ fault = None =>
          /\ scene = served
          /\ \A c \in DOMAIN scene.programs :
                c \in DOMAIN built /\ DOMAIN built[c] = Ids(scene.programs[c])

\* Every state of a design: what was judged, drafted, placed, compiled and built.
CognitiveInv ==
    PlanningOK /\ DraftingOK /\ SceneOK /\ HistoryOK /\ AcceptedCompiles

-----------------------------------------------------------------------------
(* What the adjustments change of a reply, they tell.                      *)

\* The notes that tell the change of a field, of a node of some kind.
Telling(k, f) ==
    CASE k = "profile" /\ f \in {"at", "scale"} -> {"profiles"}
      [] f = "at" /\ k # "profile" -> {"ground", "fit"}
      [] f = "scale" /\ k # "profile" -> {"fit"}
      [] f = "gaps" -> {"points"}
      [] f \in {"turned", "role", "clad", "parent"} -> {"profiles"}
      [] OTHER -> {}

Disclosed(q, p) ==
    /\ \A i \in DOMAIN p.nodes : \A f \in NodeFields :
          q.nodes[i][f] # p.nodes[i][f] =>
             Range(q.notes) \cap Telling(p.nodes[i].kind, f) # {}
    /\ q.construction # p.construction => "profiles" \in Range(q.notes)

Follows(q, p, k) ==
    /\ Owned(q, p) /\ Disclosed(q, p)
    /\ Range(p.notes) \subseteq Range(q.notes) /\ Len(q.notes) <= Len(p.notes) + k

\* An adjustment that names its fields' note discloses them.
LEMMA AdjustedFollows ==
    ASSUME NEW p, NEW q, NEW fields, NEW note, Adjusted(q, p, fields, note),
           \A i \in DOMAIN p.nodes : \A f \in fields :
              q.nodes[i][f] # p.nodes[i][f] => note \in Telling(p.nodes[i].kind, f),
           q.construction # p.construction => "profiles" \in Range(q.notes)
    PROVE  Follows(q, p, 1)
<1>1. ASSUME NEW i \in DOMAIN p.nodes, NEW f \in NodeFields, q.nodes[i][f] # p.nodes[i][f]
      PROVE  Range(q.notes) \cap Telling(p.nodes[i].kind, f) # {}
  <2>1. f \in fields
    BY <1>1 DEF Adjusted, Keeping
  <2>2. note \in Range(q.notes)
    BY <1>1 DEF Adjusted, Same
  <2> QED BY <1>1, <2>1, <2>2
<1> QED BY <1>1 DEF Adjusted, Follows, Disclosed

\* Disclosed adjustments compose.
LEMMA FollowsOn ==
    ASSUME NEW p, NEW q, NEW r, NEW j \in Nat, NEW k \in Nat, Notes(p),
           Follows(q, p, j), Follows(r, q, k)
    PROVE  Follows(r, p, j + k)
<1>1. Owned(r, p)
  BY DEF Follows, Owned
<1>2. Disclosed(r, p)
  <2>1. DOMAIN q.nodes = DOMAIN p.nodes /\ Disclosed(q, p) /\ Disclosed(r, q)
        /\ Range(q.notes) \subseteq Range(r.notes)
    BY DEF Follows, Owned
  <2>2. \A i \in DOMAIN p.nodes : q.nodes[i].kind = p.nodes[i].kind
    <3>1. \A w : Telling(w, "kind") = {}
      BY DEF Telling
    <3> QED BY <2>1, <3>1 DEF Disclosed, NodeFields
  <2>3. ASSUME NEW i \in DOMAIN p.nodes, NEW f \in NodeFields, r.nodes[i][f] # p.nodes[i][f]
        PROVE  Range(r.notes) \cap Telling(p.nodes[i].kind, f) # {}
    <3>1. CASE r.nodes[i][f] # q.nodes[i][f]
      BY <2>1, <2>2, <3>1 DEF Disclosed
    <3>2. CASE q.nodes[i][f] # p.nodes[i][f]
      BY <2>1, <3>2 DEF Disclosed
    <3> QED BY <2>3, <3>1, <3>2
  <2>4. r.construction # p.construction => "profiles" \in Range(r.notes)
    BY <2>1 DEF Disclosed
  <2> QED BY <2>3, <2>4 DEF Disclosed
<1>3. Len(p.notes) \in Nat /\ Len(q.notes) \in Nat /\ Len(r.notes) \in Nat
  BY DEF Follows, Owned, Notes
<1>4. Len(r.notes) <= Len(p.notes) + (j + k)
  <2>1. Len(q.notes) <= Len(p.notes) + j /\ Len(r.notes) <= Len(q.notes) + k
    BY DEF Follows
  <2>2. \A a, b, c \in Nat : b <= a + j /\ c <= b + k => c <= a + (j + k)
    OBVIOUS
  <2> QED BY <1>3, <2>1, <2>2, Zenon
<1>5. Range(p.notes) \subseteq Range(r.notes)
  BY DEF Follows
<1> QED BY <1>1, <1>2, <1>4, <1>5 DEF Follows

\* Nothing changed is nothing to tell.
LEMMA FollowsSelf ==
    ASSUME NEW p, IsReply(p), Notes(p), NEW k \in Nat
    PROVE  Follows(p, p, k)
<1>1. Len(p.notes) \in Nat
  BY DEF Notes
<1> QED BY <1>1 DEF Follows, Owned, Disclosed

\* Fewer adjustments are within a larger bound.
LEMMA FollowsLess ==
    ASSUME NEW p, NEW q, NEW j \in Nat, NEW k \in Nat, j <= k, Notes(p), Follows(q, p, j)
    PROVE  Follows(q, p, k)
<1>1. Len(p.notes) \in Nat /\ Len(q.notes) \in Nat
  BY DEF Follows, Owned, Notes
<1> QED BY <1>1 DEF Follows

\* The disclosures touch no node.
LEMMA DisclosuresFollow ==
    ASSUME NEW p, IsReply(p), Notes(p)
    PROVE  Follows(NormalizeDisclosures(p), p, 0)
<1> DEFINE q == NormalizeDisclosures(p)
<1>1. /\ DOMAIN q = DOMAIN p /\ q.text = TRUE
      /\ \A f \in DOMAIN p \ {"text"} : q[f] = p[f]
  BY DEF NormalizeDisclosures, IsReply
<1> HIDE DEF q
<1>2. /\ q.nodes = p.nodes /\ q.notes = p.notes /\ q.role = p.role /\ q.quantity = p.quantity
      /\ q.limit = p.limit /\ q.ground = p.ground /\ q.exact = p.exact
      /\ q.materials = p.materials /\ q.construction = p.construction
  BY <1>1 DEF IsReply
<1>3. IsReply(q)
  BY <1>1, <1>2 DEF IsReply
<1>4. Len(p.notes) \in Nat
  BY DEF Notes
<1> QED BY <1>2, <1>3, <1>4 DEF Follows, Owned, Disclosed, Notes, q

\* A node with one field changed is a node of the same shape.
LEMMA NodeExcept ==
    ASSUME NEW x, IsNode(x), NEW f \in NodeFields, NEW v
    PROVE  LET y == [x EXCEPT ![f] = v] IN
           y[f] = v /\ \A g \in NodeFields \ {f} : y[g] = x[g]
  BY DEF IsNode, NodeFields

\* What is dropped of a list of points is told.
LEMMA PointsFollow ==
    ASSUME NEW p, IsReply(p), Notes(p)
    PROVE  Follows(NormalizePoints(p), p, 1)
<1> DEFINE Shut(x) == IF Abridged(x) THEN [x EXCEPT !.gaps = 0] ELSE x
           N == [i \in DOMAIN p.nodes |-> Shut(p.nodes[i])]
           q == Noted([p EXCEPT !.nodes = N], "points")
<1>1. ASSUME NEW x, IsNode(x)
      PROVE  IsNode(Shut(x)) /\ \A f \in NodeFields \ {"gaps"} : Shut(x)[f] = x[f]
  BY <1>1 DEF IsNode, NodeFields
<1>2. NormalizePoints(p) = p \/ NormalizePoints(p) = q
  BY DEF NormalizePoints, Change
<1>3. Adjusted(q, p, {"gaps"}, "points") /\ q.construction = p.construction
  <2>1. \A i \in DOMAIN p.nodes : N[i] = Shut(p.nodes[i]) /\ IsNode(p.nodes[i])
    BY DEF IsReply
  <2>2. DOMAIN N = DOMAIN p.nodes /\ N = [i \in DOMAIN N |-> N[i]]
    OBVIOUS
  <2> HIDE DEF N, Shut
  <2>3. \A i \in DOMAIN p.nodes : IsNode(N[i])
    BY <1>1, <2>1
  <2>4. \A i \in DOMAIN p.nodes : \A f \in NodeFields \ {"gaps"} : N[i][f] = p.nodes[i][f]
    BY <1>1, <2>1
  <2>5. "points" \in Words
    BY DEF Words
  <2>6. Rewritten(q, p, N, {"gaps"}, "points")
    BY <2>2, <2>3, <2>4, <2>5, Renoted, Zenon
  <2> QED BY <2>6 DEF Rewritten, IsReply
<1>4. \A k : \A f \in {"gaps"} : "points" \in Telling(k, f)
  BY DEF Telling
<1> QED BY <1>2, <1>3, <1>4, AdjustedFollows, FollowsSelf

\* What a profile loses is told.
LEMMA ProfilesFollow ==
    ASSUME NEW p, IsReply(p), Notes(p), Len(p.notes) < MaxNotes
    PROVE  Follows(NormalizeProfiles(p), p, 1)
<1> DEFINE Bare(x) == IF x.kind = "profile"
                      THEN [x EXCEPT !.clad = FALSE, !.role = FALSE, !.parent = None, !.at = 0,
                                     !.scale = <<1, 1>>, !.turned = FALSE]
                      ELSE x
           N    == [i \in DOMAIN p.nodes |-> Bare(p.nodes[i])]
           m    == [p EXCEPT !.nodes = N]
           done == [m EXCEPT !.construction = @ \cup Profiles(p)]
           F    == {"clad", "role", "parent", "at", "scale", "turned"}
<1>1. ASSUME NEW x, IsNode(x)
      PROVE  /\ IsNode(Bare(x)) /\ \A f \in NodeFields \ F : Bare(x)[f] = x[f]
             /\ x.kind = "profile" /\ Defining(x) => \A f \in NodeFields : Bare(x)[f] = x[f]
  <2> DEFINE y == [x EXCEPT !.clad = FALSE, !.role = FALSE, !.parent = None, !.at = 0,
                            !.scale = <<1, 1>>, !.turned = FALSE]
  <2>1. /\ DOMAIN y = DOMAIN x /\ \A f \in NodeFields \ F : y[f] = x[f]
        /\ y.clad = FALSE /\ y.role = FALSE /\ y.parent = None /\ y.at = 0
        /\ y.scale = <<1, 1>> /\ y.turned = FALSE
    BY <1>1 DEF IsNode, NodeFields
  <2>2. Bare(x) = IF x.kind = "profile" THEN y ELSE x
    OBVIOUS
  <2> HIDE DEF y, Bare
  <2>3. IsNode(y)
    <3>1. /\ y.id = x.id /\ y.kind = x.kind /\ y.uses = x.uses /\ y.low = x.low
          /\ y.high = x.high /\ y.closed = x.closed /\ y.gaps = x.gaps /\ y.enough = x.enough
          /\ y.count = x.count /\ y.step = x.step /\ y.op = x.op /\ y.points = x.points
          /\ y.loop = x.loop
      BY <2>1 DEF NodeFields
    <3>2. <<1, 1>> \in (Nat \ {0}) \X (Nat \ {0}) /\ 0 \in Int
      OBVIOUS
    <3>3. {y.role, y.clad, y.closed, y.enough, y.loop, y.turned} \subseteq BOOLEAN
      BY <1>1, <2>1, <3>1 DEF IsNode
    <3>4. {y.at, y.low, y.high, y.step} \subseteq Int /\ y.scale \in (Nat \ {0}) \X (Nat \ {0})
      BY <1>1, <2>1, <3>1, <3>2 DEF IsNode
    <3>5. DOMAIN y = DOMAIN x
      BY <2>1
    <3> HIDE DEF F
    <3> QED BY <1>1, <3>1, <3>3, <3>4, <3>5 DEF IsNode
  <2>4. x.kind = "profile" /\ Defining(x) => \A f \in F : y[f] = x[f]
    <3> SUFFICES ASSUME Defining(x) PROVE \A f \in F : y[f] = x[f]
      OBVIOUS
    <3>1. x.clad = FALSE /\ x.role = FALSE /\ x.parent = None
      BY <1>1 DEF Defining, IsNode
    <3>2. x.at = 0 /\ x.scale = <<1, 1>> /\ x.turned = FALSE
      BY DEF Defining, Local, Untouched
    <3> QED BY <2>1, <3>1, <3>2
  <2>5. \A f \in NodeFields : f \in F \/ f \in NodeFields \ F
    OBVIOUS
  <2> HIDE DEF F
  <2> QED BY <1>1, <2>1, <2>2, <2>3, <2>4, <2>5
<1>2. NormalizeProfiles(p) = IF Misplaced(p) # {} THEN Noted(done, "profiles") ELSE done
  BY DEF NormalizeProfiles, Change
<1>3. \A i \in DOMAIN p.nodes : N[i] = Bare(p.nodes[i]) /\ IsNode(p.nodes[i])
  BY SMTT(30) DEF IsReply
<1>4. DOMAIN N = DOMAIN p.nodes /\ N = [i \in DOMAIN N |-> N[i]]
  OBVIOUS
<1>5. \A x : x.kind # "profile" => Bare(x) = x
  OBVIOUS
<1> HIDE DEF N, Bare
<1>6. \A i \in DOMAIN p.nodes : IsNode(N[i])
  BY <1>1, <1>3
<1>7. \A i \in DOMAIN p.nodes : \A f \in NodeFields \ F : N[i][f] = p.nodes[i][f]
  BY <1>1, <1>3
<1>8. /\ IsReply(m) /\ m.nodes = N /\ DOMAIN m = DOMAIN p
      /\ \A f \in DOMAIN p \ {"nodes"} : m[f] = p[f]
  BY <1>4, <1>6, NodesReplaced, Zenon
<1>15. done.construction = p.construction \cup Profiles(p)
  <2>1. m.construction = p.construction /\ "construction" \in DOMAIN m
    BY <1>8 DEF IsReply
  <2> HIDE DEF m
  <2> QED BY <2>1
<1> HIDE DEF m
<1>9. /\ DOMAIN done = DOMAIN p /\ done.nodes = N
      /\ \A f \in DOMAIN p \ {"nodes", "construction"} : done[f] = p[f]
  <2>1. \A f \in DOMAIN m \ {"construction"} : done[f] = m[f]
    OBVIOUS
  <2>2. DOMAIN done = DOMAIN m
    OBVIOUS
  <2> HIDE DEF done
  <2> QED BY <1>8, <2>1, <2>2 DEF IsReply
<1> HIDE DEF done
<1>10. /\ done.role = p.role /\ done.quantity = p.quantity /\ done.limit = p.limit
       /\ done.ground = p.ground /\ done.exact = p.exact /\ done.notes = p.notes
       /\ done.materials = p.materials /\ done.text = p.text
  BY <1>9 DEF IsReply
<1>11. IsReply(done) /\ Notes(done)
  <2>1. N \in Seq(ToSet(N))
    BY <1>8 DEF IsReply
  <2> QED BY <1>6, <1>4, <1>9, <1>10, <2>1 DEF IsReply, Notes
<1>12. Len(p.notes) \in Nat
  BY DEF Notes
<1>13. CASE Misplaced(p) = {}
  <2>1. \A i \in DOMAIN p.nodes : \A f \in NodeFields : N[i][f] = p.nodes[i][f]
    <3> SUFFICES ASSUME NEW i \in DOMAIN p.nodes
                 PROVE  \A f \in NodeFields : N[i][f] = p.nodes[i][f]
      OBVIOUS
    <3>1. CASE p.nodes[i].kind # "profile"
      BY <1>3, <1>5, <3>1
    <3>2. CASE p.nodes[i].kind = "profile"
      <4>1. Defining(p.nodes[i])
        BY <1>13, <3>2 DEF Misplaced
      <4> QED BY <1>1, <1>3, <3>2, <4>1
    <3> QED BY <3>1, <3>2
  <2>2. done.construction = p.construction
    <3>1. Profiles(p) \subseteq p.construction
      <4> SUFFICES ASSUME NEW n \in Profiles(p) PROVE n \in p.construction
        OBVIOUS
      <4>1. PICK i \in DOMAIN p.nodes : Node(p, n) = p.nodes[i] /\ p.nodes[i].id = n
        BY NodeIsOne DEF Profiles
      <4> QED BY <1>13, <4>1 DEF Profiles, Misplaced
    <3> QED BY <1>15, <3>1
  <2>3. Follows(done, p, 1)
    BY <1>4, <1>9, <1>10, <1>11, <1>12, <2>1, <2>2 DEF Follows, Owned, Disclosed
  <2> QED BY <1>2, <1>13, <2>3
<1>14. CASE Misplaced(p) # {}
  <2> DEFINE q == Noted(done, "profiles")
  <2>1. "profiles" \in Words
    BY DEF Words
  <2>2. /\ IsReply(q) /\ Notes(q) /\ q.notes = Append(done.notes, "profiles")
        /\ \A f \in DOMAIN done \ {"notes"} : q[f] = done[f]
    BY <1>11, <2>1, NotedIs, Zenon
  <2> HIDE DEF q
  <2>3. /\ q.role = p.role /\ q.quantity = p.quantity /\ q.limit = p.limit
        /\ q.ground = p.ground /\ q.exact = p.exact /\ q.nodes = N
    BY <1>9, <1>10, <2>2 DEF IsReply
  <2>4. /\ "profiles" \in Range(q.notes) /\ Range(p.notes) \subseteq Range(q.notes)
        /\ Len(q.notes) <= Len(p.notes) + 1
    <3>1. p.notes \in Seq(Words) /\ q.notes = Append(p.notes, "profiles")
      BY <1>10, <2>2 DEF Notes
    <3>2. Len(q.notes) = Len(p.notes) + 1
      BY <2>1, <3>1, Appended
    <3> QED BY <1>12, <2>1, <3>1, <3>2, Appended
  <2>5. Adjusted(q, p, F, "profiles")
    BY <1>4, <1>7, <2>2, <2>3, <2>4 DEF Adjusted, Owned, Keeping
  <2>6. ASSUME NEW i \in DOMAIN p.nodes, NEW f \in F, q.nodes[i][f] # p.nodes[i][f]
        PROVE  "profiles" \in Telling(p.nodes[i].kind, f)
    <3>1. p.nodes[i].kind = "profile"
      BY <1>3, <1>5, <2>3, <2>6
    <3> QED BY <3>1 DEF Telling
  <2>7. Follows(q, p, 1)
    <3> HIDE DEF F
    <3> QED BY <2>4, <2>5, <2>6, AdjustedFollows
  <2> QED BY <1>2, <1>14, <2>7 DEF q
<1> QED BY <1>13, <1>14

\* A tidied program tells what it changed, in two notes at most.
LEMMA TidiedFollows ==
    ASSUME NEW p, IsReply(p), Notes(p), Len(p.notes) + 1 < MaxNotes
    PROVE  Follows(Tidied(p), p, 2) /\ IsReply(Tidied(p)) /\ Notes(Tidied(p))
<1> DEFINE q == NormalizeDisclosures(p)
           r == NormalizePoints(q)
           s == NormalizeProfiles(r)
<1>1. Len(p.notes) \in Nat
  BY DEF Notes
<1>2. Follows(q, p, 0)
  BY DisclosuresFollow
<1> HIDE DEF q
<1>3. IsReply(q) /\ Notes(q)
  BY <1>2 DEF Follows, Owned
<1>4. Follows(r, q, 1)
  BY <1>3, PointsFollow
<1> HIDE DEF r
<1>5. Follows(r, p, 0 + 1)
  BY <1>2, <1>4, FollowsOn
<1>6. IsReply(r) /\ Notes(r) /\ Len(r.notes) <= Len(p.notes) + 1 /\ Len(r.notes) \in Nat
  BY <1>5 DEF Follows, Owned, Notes
<1>7. Len(r.notes) < MaxNotes
  BY <1>1, <1>6 DEF MaxNotes
<1>8. Follows(s, r, 1)
  BY <1>6, <1>7, ProfilesFollow
<1> HIDE DEF s
<1>9. Follows(s, p, 1 + 1)
  BY <1>5, <1>8, FollowsOn
<1>10. IsReply(s) /\ Notes(s)
  BY <1>8 DEF Follows, Owned
<1> QED BY <1>9, <1>10 DEF Tidied, q, r, s

-----------------------------------------------------------------------------
(* What is reached along references.                                       *)
LEMMA ReachedSelf ==
    ASSUME NEW r, NEW n \in DOMAIN r
    PROVE  n \in Reached(r, n)
  BY DEF Reached

\* What a reference reaches is reached.
LEMMA ReachedOn ==
    ASSUME NEW r, NEW n \in DOMAIN r, NEW m \in r[n]
    PROVE  Reached(r, m) \subseteq Reached(r, n)
<1>1. ASSUME NEW k \in Reached(r, m), NEW S \in SUBSET DOMAIN r,
             n \in S, \A j \in S : r[j] \subseteq S
      PROVE  k \in S
  <2>1. m \in S
    BY <1>1
  <2> QED BY <1>1, <2>1 DEF Reached
<1> QED BY <1>1 DEF Reached

\* What is reached from n is n or is reached from what n refers to.
LEMMA ReachedBack ==
    ASSUME NEW r, NEW n \in DOMAIN r, NEW k \in Reached(r, n), k # n,
           \A j \in DOMAIN r : r[j] \subseteq DOMAIN r
    PROVE  \E m \in r[n] : k \in Reached(r, m)
<1> DEFINE S == {n} \cup UNION {Reached(r, m) : m \in r[n]}
<1>1. S \in SUBSET DOMAIN r
  BY DEF Reached
<1>2. ASSUME NEW j \in S PROVE r[j] \subseteq S
  <2>1. CASE j = n
    BY <2>1, ReachedSelf
  <2>2. CASE j # n
    <3>1. PICK m \in r[n] : j \in Reached(r, m)
      BY <2>2
    <3>2. ASSUME NEW i \in r[j] PROVE i \in Reached(r, m)
      <4>1. i \in DOMAIN r
        BY <1>1, <3>2
      <4>2. ASSUME NEW T \in SUBSET DOMAIN r, m \in T, \A h \in T : r[h] \subseteq T
            PROVE  i \in T
        <5>1. j \in T
          BY <3>1, <4>2 DEF Reached
        <5> QED BY <3>2, <4>2, <5>1
      <4> QED BY <4>1, <4>2 DEF Reached
    <3> QED BY <3>1, <3>2
  <2> QED BY <2>1, <2>2
<1>3. k \in S
  <2>1. n \in S
    OBVIOUS
  <2> HIDE DEF S
  <2> QED BY <1>1, <1>2, <2>1 DEF Reached
<1> QED BY <1>3

\* What is measured for a node is measured with each node it reads.
LEMMA ReadsKnown ==
    ASSUME NEW p, IsReply(p), ReferencesKnown(p), NEW n \in Ids(p)
    PROVE  Read(Node(p, n)) \subseteq Uses(Node(p, n)) /\ Read(Node(p, n)) \subseteq Ids(p)
<1>1. IsNode(Node(p, n)) /\ Uses(Node(p, n)) \subseteq Ids(p)
  BY NodeIsOne, NeedsKnown
<1>2. Node(p, n).kind = "boolean" => Node(p, n).uses[1] \in Uses(Node(p, n))
  BY <1>1 DEF IsNode, Arity, Uses, ToSet, Swept, Copies
<1> QED BY <1>1, <1>2 DEF Read

\* A node is measured with itself and all that its measure reads.
LEMMA MeasuredIs ==
    ASSUME NEW p, IsReply(p), ReferencesKnown(p), NEW n \in Ids(p)
    PROVE  /\ n \in Measured(p, n)
           /\ \A m \in Read(Node(p, n)) : Measured(p, m) \subseteq Measured(p, n)
<1> DEFINE r == [m \in Ids(p) |-> Read(Node(p, m))]
<1>1. DOMAIN r = Ids(p) /\ r[n] = Read(Node(p, n))
  OBVIOUS
<1> HIDE DEF r
<1>2. \A m : Measured(p, m) = Reached(r, m)
  BY DEF Measured, r
<1>3. n \in Reached(r, n)
  BY <1>1, ReachedSelf
<1>4. \A m \in r[n] : Reached(r, m) \subseteq Reached(r, n)
  BY <1>1, ReachedOn
<1> QED BY <1>1, <1>2, <1>3, <1>4

-----------------------------------------------------------------------------
(* Raising nodes raises what is measured of them, but for what a mirror    *)
(* turns over.                                                             *)
LEMMA ProductMonotone ==
    ASSUME NEW a \in Int, NEW b \in Int, a <= b, NEW s \in Nat
    PROVE  a * s <= b * s
  BY Z3

\* Quotients keep the order.
LEMMA DivisionMonotone ==
    ASSUME NEW a \in Int, NEW b \in Int, a <= b, NEW d \in Nat \ {0}
    PROVE  a \div d <= b \div d
<1> DEFINE x == a \div d
           y == b \div d
<1>1. x \in Int /\ y \in Int
  BY DivisionType
<1>2. d * x <= a /\ b < d * (y + 1)
  BY Z3
<1> HIDE DEF x, y
<1>3. d * x < d * (y + 1)
  BY <1>1, <1>2, Z3
<1>4. x < y + 1
  BY <1>1, <1>3, Z3
<1> QED BY <1>1, <1>4 DEF x, y

\* Higher or as high.
Above(e, d)  == d[1] <= e[1] /\ d[2] <= e[2]
Higher(g, f) == g.scale = f.scale /\ g.turned = f.turned /\ f.at <= g.at

\* A higher frame puts the same point higher, and an upright one a higher point.
LEMMA WithinMonotone ==
    ASSUME NEW f \in FrameSet, NEW g \in FrameSet, Higher(g, f),
           NEW y \in Int, NEW z \in Int, y <= z
    PROVE  /\ Within(f, y) <= Within(g, y)
           /\ ~f.turned => Within(f, y) <= Within(g, z)
<1>1. /\ f.scale[1] \in Nat /\ f.scale[2] \in Nat \ {0}
      /\ f.at \in Int /\ g.at \in Int /\ f.at <= g.at
  BY DEF FrameSet, Higher
<1>2. Scaled(g, y) = Scaled(f, y) /\ Scaled(g, z) = Scaled(f, z) /\ g.turned = f.turned
  BY DEF Higher, Scaled
<1>3. Scaled(f, y) <= Scaled(f, z)
  <2> DEFINE s == f.scale[1]
             d == f.scale[2]
  <2>1. y * s \in Int /\ z * s \in Int /\ y * s <= z * s
    BY <1>1, ProductMonotone
  <2> HIDE DEF s
  <2>2. (y * s) \div d <= (z * s) \div d
    BY <1>1, <2>1, DivisionMonotone
  <2> QED BY <2>2 DEF Scaled, s
<1>4. Scaled(f, y) \in Int /\ Scaled(f, z) \in Int
  BY WithinType
<1>5. Within(f, y) = IF f.turned THEN f.at - Scaled(f, y) ELSE f.at + Scaled(f, y)
  BY DEF Within
<1>6. /\ Within(g, y) = IF f.turned THEN g.at - Scaled(f, y) ELSE g.at + Scaled(f, y)
      /\ Within(g, z) = IF f.turned THEN g.at - Scaled(f, z) ELSE g.at + Scaled(f, z)
  BY <1>2 DEF Within
<1> QED BY <1>1, <1>3, <1>4, <1>5, <1>6

\* A higher frame puts the same extent higher, and an upright one a higher extent.
LEMMA MapMonotone ==
    ASSUME NEW f \in FrameSet, NEW g \in FrameSet, Higher(g, f),
           NEW d \in ExtentSet, NEW e \in ExtentSet,
           e = d \/ (~f.turned /\ Above(e, d))
    PROVE  Above(Map(g, e), Map(f, d))
<1>1. d[1] \in Int /\ d[2] \in Int /\ e[1] \in Int /\ e[2] \in Int /\ g.turned = f.turned
  BY DEF ExtentSet, Higher
<1>2. CASE e = d
  <2>1. Within(f, d[1]) <= Within(g, d[1]) /\ Within(f, d[2]) <= Within(g, d[2])
    BY <1>1, WithinMonotone
  <2> QED BY <1>1, <1>2, <2>1 DEF Above, Map
<1>3. CASE ~f.turned /\ Above(e, d)
  <2>1. Within(f, d[1]) <= Within(g, e[1]) /\ Within(f, d[2]) <= Within(g, e[2])
    BY <1>1, <1>3, WithinMonotone DEF Above
  <2> QED BY <1>1, <1>3, <2>1 DEF Above, Map
<1> QED BY <1>2, <1>3

\* The same frame in a higher one stands higher.
LEMMA ComposeMonotone ==
    ASSUME NEW f \in FrameSet, NEW g \in FrameSet, Higher(g, f), NEW a \in FrameSet
    PROVE  Higher(Compose(g, a), Compose(f, a))
<1>1. a.at \in Int
  BY DEF FrameSet
<1>2. Within(f, a.at) <= Within(g, a.at)
  BY <1>1, WithinMonotone
<1> QED BY <1>2 DEF Higher, Compose

\* q is p with nodes raised, none of them below another.
SameBut(y, x) == \A f \in NodeFields \ {"at"} : y[f] = x[f]
RaisedTo(y, x) == SameBut(y, x) /\ x.at <= y.at /\ (x.parent # None => y.at = x.at)
Raising(q, p) ==
    /\ DOMAIN q.nodes = DOMAIN p.nodes
    /\ \A i \in DOMAIN p.nodes :
          RaisedTo(q.nodes[i], p.nodes[i])

\* What differs only in its height is otherwise the same.
LEMMA SameFields ==
    ASSUME NEW x, NEW y, SameBut(y, x)
    PROVE  /\ y.id = x.id /\ y.kind = x.kind /\ y.parent = x.parent /\ y.uses = x.uses
           /\ y.scale = x.scale /\ y.low = x.low /\ y.high = x.high /\ y.count = x.count
           /\ y.step = x.step /\ y.op = x.op /\ y.turned = x.turned
           /\ Uses(y) = Uses(x) /\ Read(y) = Read(x)
<1>1. /\ y.id = x.id /\ y.kind = x.kind /\ y.parent = x.parent /\ y.uses = x.uses
      /\ y.scale = x.scale /\ y.low = x.low /\ y.high = x.high /\ y.count = x.count
      /\ y.step = x.step /\ y.op = x.op /\ y.turned = x.turned
  BY DEF SameBut, NodeFields
<1>2. Uses(y) = Uses(x)
  BY <1>1 DEF Uses
<1> QED BY <1>1, <1>2 DEF Read

\* Raising a program moves its nodes up and changes nothing else.
LEMMA RaisedNodes ==
    ASSUME NEW p, NEW q, Sound(p), Sound(q), Raising(q, p)
    PROVE  /\ Ids(q) = Ids(p)
           /\ \A n \in Ids(p) : RaisedTo(Node(q, n), Node(p, n))
           /\ \A n \in Ids(p) : SameBut(Node(q, n), Node(p, n))
<1>1. \A i \in DOMAIN p.nodes : q.nodes[i].id = p.nodes[i].id
  BY SameFields DEF Raising, RaisedTo
<1>2. Ids(q) = Ids(p)
  BY <1>1 DEF Ids, Raising
<1>3. ASSUME NEW n \in Ids(p)
      PROVE  RaisedTo(Node(q, n), Node(p, n)) /\ SameBut(Node(q, n), Node(p, n))
  <2>1. PICK i \in DOMAIN p.nodes : p.nodes[i].id = n
    BY DEF Ids
  <2>2. Node(p, n) = p.nodes[i] /\ Node(q, n) = q.nodes[i]
    BY <1>1, <2>1, NodeIs DEF Sound, Raising
  <2> QED BY <2>2 DEF Raising, RaisedTo
<1> QED BY <1>2, <1>3

\* Raising a program changes no reference.
LEMMA RaisedMeasured ==
    ASSUME NEW p, NEW q, Sound(p), Sound(q), Raising(q, p)
    PROVE  /\ \A n : Measured(q, n) = Measured(p, n) /\ Measured(p, n) \subseteq Ids(p)
           /\ \A n : Blends(q, n) <=> Blends(p, n)
<1> DEFINE r == [m \in Ids(p) |-> Read(Node(p, m))]
           s == [m \in Ids(q) |-> Read(Node(q, m))]
<1>1. Ids(q) = Ids(p) /\ \A m \in Ids(p) : SameBut(Node(q, m), Node(p, m))
  BY RaisedNodes
<1>2. r = s
  BY <1>1, SameFields
<1> HIDE DEF r, s
<1>3. \A m : Measured(p, m) = Reached(r, m) /\ Measured(q, m) = Reached(s, m)
  BY DEF Measured, r, s
<1>4. \A m : Measured(q, m) = Measured(p, m)
  BY <1>2, <1>3
<1>5. \A m : Measured(p, m) \subseteq Ids(p)
  BY <1>3 DEF Reached, r
<1>6. \A m : \A b \in Measured(p, m) : Node(q, b).kind = Node(p, b).kind
  BY <1>1, <1>5, SameFields
<1>7. \A m : Blends(q, m) <=> Blends(p, m)
  BY <1>4, <1>6 DEF Blends
<1> QED BY <1>4, <1>5, <1>7

\* The extent of a node does not go down when those it reads go up.
LEMMA ExtentMonotone ==
    ASSUME NEW p, NEW q, NEW x, NEW y, IsNode(x), IsNode(y), SameBut(y, x), NEW f, NEW g,
           \A m \in Uses(x) : /\ f[m].frame \in FrameSet /\ g[m].frame \in FrameSet
                              /\ f[m].extent \in ExtentSet /\ g[m].extent \in ExtentSet,
           \A m \in Read(x) : /\ Higher(g[m].frame, f[m].frame)
                              /\ Above(g[m].extent, f[m].extent),
           x.kind = "boolean" =>
              \A m \in Read(x) : f[m].frame.turned => g[m].extent = f[m].extent,
           x.kind = "modifier" /\ x.op = "mirror" =>
              \A m \in Read(x) : g[m].extent = f[m].extent,
           x.kind \in Swept => SameBut(Node(q, x.uses[1]), Node(p, x.uses[1])),
           x.kind \in Swept => IsNode(Node(p, x.uses[1]))
    PROVE  Above(ExtentOf(q, y, g), ExtentOf(p, x, f))
<1>1. /\ y.kind = x.kind /\ y.uses = x.uses /\ y.low = x.low /\ y.high = x.high
      /\ y.count = x.count /\ y.step = x.step /\ y.op = x.op
  BY SameFields
<1>2. /\ x.low \in Int /\ x.high \in Int /\ x.step \in Int /\ x.count \in Nat
  BY DEF IsNode
<1>3. \A i \in 1 .. Arity(x.kind) : x.uses[i] \in Uses(x)
  BY DEF IsNode, Uses, ToSet
<1>4. x.kind \in Copies \cup {"boolean"} => x.uses[1] \in Uses(x) /\ x.uses[1] \in Read(x)
  <2>1. x.kind \in Copies \cup {"boolean"} => 1 \in 1 .. Arity(x.kind)
    BY DEF Arity, Copies, Swept
  <2> QED BY <1>3, <2>1 DEF Read
<1>5. x.kind = "boolean" =>
        x.uses[2] \in Uses(x) /\ (x.op # "difference" => x.uses[2] \in Read(x))
  <2>1. x.kind = "boolean" => 2 \in 1 .. Arity(x.kind)
    BY DEF Arity, Copies, Swept
  <2> QED BY <1>3, <2>1 DEF Read
<1> DEFINE d == f[x.uses[1]].extent
           e == g[x.uses[1]].extent
<1>6. x.kind \in Copies \cup {"boolean"} => d \in ExtentSet /\ e \in ExtentSet /\ Above(e, d)
  BY <1>4
<1>7. x.kind = "modifier" /\ x.op = "mirror" => d = e
  BY <1>4 DEF Copies
<1>8. CASE x.kind \in Swept
  <2> DEFINE u == Node(p, x.uses[1])
             v == Node(q, x.uses[1])
  <2>1. v.low = u.low /\ v.high = u.high
    BY <1>8, SameFields
  <2>2. u.low \in Int /\ u.high \in Int
    BY <1>8 DEF IsNode
  <2>3. ExtentOf(p, x, f) = SweptExtent(x, u) /\ ExtentOf(q, y, g) = SweptExtent(y, v)
    BY <1>1, <1>8 DEF ExtentOf, Swept
  <2> HIDE DEF u, v
  <2>4. Above(SweptExtent(y, v), SweptExtent(x, u))
    BY <1>1, <1>2, <2>1, <2>2 DEF SweptExtent, Above
  <2> QED BY <2>3, <2>4
<1>9. CASE x.kind = "profile"
  BY <1>1, <1>9 DEF ExtentOf, Above, Swept
<1>10. CASE x.kind = "instance"
  <2>1. ExtentOf(p, x, f) = d /\ ExtentOf(q, y, g) = e
    BY <1>1, <1>10 DEF ExtentOf, Swept
  <2> QED BY <1>6, <1>10, <2>1 DEF Copies
<1>11. CASE x.kind = "array"
  <2>1. ExtentOf(p, x, f) = ArrayExtent(x, d) /\ ExtentOf(q, y, g) = ArrayExtent(y, e)
    BY <1>1, <1>11 DEF ExtentOf, Swept
  <2>2. d \in ExtentSet /\ e \in ExtentSet /\ Above(e, d)
    BY <1>6, <1>11 DEF Copies
  <2> HIDE DEF d, e
  <2> DEFINE k == (x.count - 1) * x.step
  <2>3. k \in Int
    BY <1>2
  <2>4. ArrayExtent(x, d) = Hull(d, <<d[1] + k, d[2] + k>>)
        /\ ArrayExtent(y, e) = Hull(e, <<e[1] + k, e[2] + k>>)
    BY <1>1 DEF ArrayExtent
  <2> HIDE DEF k
  <2>5. Above(Hull(e, <<e[1] + k, e[2] + k>>), Hull(d, <<d[1] + k, d[2] + k>>))
    BY <2>2, <2>3 DEF Hull, Above, ExtentSet
  <2> QED BY <2>1, <2>4, <2>5
<1>12. CASE x.kind = "modifier"
  <2>1. ExtentOf(p, x, f) = ModifiedExtent(x, d) /\ ExtentOf(q, y, g) = ModifiedExtent(y, e)
    BY <1>1, <1>12 DEF ExtentOf, Swept
  <2>2. d \in ExtentSet /\ e \in ExtentSet /\ Above(e, d)
    BY <1>6, <1>12 DEF Copies
  <2>3. x.op = "mirror" => d = e
    BY <1>7, <1>12
  <2> HIDE DEF d, e
  <2>4. Above(ModifiedExtent(y, e), ModifiedExtent(x, d))
    <3>1. CASE x.op = "mirror"
      <4>1. ModifiedExtent(y, e) = ModifiedExtent(x, d)
        BY <1>1, <2>3, <3>1 DEF ModifiedExtent
      <4>2. ModifiedExtent(x, d)[1] \in Int /\ ModifiedExtent(x, d)[2] \in Int
        BY <2>2, <3>1 DEF ModifiedExtent, Hull, ExtentSet
      <4> QED BY <4>1, <4>2 DEF Above
    <3>2. CASE x.op # "mirror"
      BY <1>1, <1>2, <2>2, <3>2 DEF ModifiedExtent, Above, ExtentSet
    <3> QED BY <3>1, <3>2
  <2> QED BY <2>1, <2>4
<1>13. CASE x.kind = "boolean"
  <2> DEFINE l == Map(f[x.uses[1]].frame, f[x.uses[1]].extent)
             r == Map(f[x.uses[2]].frame, f[x.uses[2]].extent)
             m == Map(g[x.uses[1]].frame, g[x.uses[1]].extent)
             s == Map(g[x.uses[2]].frame, g[x.uses[2]].extent)
  <2>1. l \in ExtentSet /\ r \in ExtentSet /\ m \in ExtentSet /\ s \in ExtentSet
    BY <1>4, <1>5, <1>13, MapType
  <2>2. Above(m, l)
    <3>1. x.uses[1] \in Uses(x) /\ x.uses[1] \in Read(x)
      BY <1>4, <1>13
    <3> QED BY <1>13, <3>1, MapMonotone
  <2>3. x.op # "difference" => Above(s, r)
    <3> SUFFICES ASSUME x.op # "difference" PROVE Above(s, r)
      OBVIOUS
    <3>1. x.uses[2] \in Uses(x) /\ x.uses[2] \in Read(x)
      BY <1>5, <1>13
    <3> QED BY <1>13, <3>1, MapMonotone
  <2>4. /\ ExtentOf(p, x, f) = BooleanExtent(x.op, l, r)
        /\ ExtentOf(q, y, g) = BooleanExtent(x.op, m, s)
    BY <1>1, <1>13 DEF ExtentOf, Swept
  <2> HIDE DEF l, r, m, s
  <2>5. Above(BooleanExtent(x.op, m, s), BooleanExtent(x.op, l, r))
    <3>1. CASE x.op = "difference"
      BY <2>2, <3>1 DEF BooleanExtent
    <3>2. CASE x.op = "union"
      BY <2>1, <2>2, <2>3, <3>2 DEF BooleanExtent, Hull, Above, ExtentSet
    <3>3. CASE x.op \notin {"difference", "union"}
      BY <2>1, <2>2, <2>3, <3>3 DEF BooleanExtent, Meet, Above, ExtentSet
    <3> QED BY <3>1, <3>2, <3>3
  <2> QED BY <2>4, <2>5
<1>14. CASE x.kind \notin Swept \cup {"profile", "instance", "array", "modifier", "boolean"}
  <2>1. ExtentOf(p, x, f) = <<x.low, x.high>> /\ ExtentOf(q, y, g) = <<x.low, x.high>>
    BY <1>1, <1>14 DEF ExtentOf
  <2> QED BY <1>2, <2>1, SMTT(30) DEF Above
<1> QED BY <1>8, <1>9, <1>10, <1>11, <1>12, <1>13, <1>14

\* Without a boolean, the extent of a node does not depend on where nodes stand.
LEMMA ExtentSame ==
    ASSUME NEW p, NEW q, NEW x, NEW y, IsNode(x), IsNode(y), SameBut(y, x), NEW f, NEW g,
           x.kind # "boolean", \A m \in Uses(x) : g[m].extent = f[m].extent,
           x.kind \in Swept => SameBut(Node(q, x.uses[1]), Node(p, x.uses[1]))
    PROVE  ExtentOf(q, y, g) = ExtentOf(p, x, f)
<1>1. /\ y.kind = x.kind /\ y.uses = x.uses /\ y.low = x.low /\ y.high = x.high
      /\ y.count = x.count /\ y.step = x.step /\ y.op = x.op
  BY SameFields
<1>2. x.kind \in Copies => g[x.uses[1]].extent = f[x.uses[1]].extent
  <2>1. x.kind \in Copies => 1 \in 1 .. Arity(x.kind)
    BY DEF Arity
  <2> QED BY <2>1 DEF IsNode, Uses, ToSet
<1>3. x.kind \in Swept =>
        SweptExtent(y, Node(q, x.uses[1])) = SweptExtent(x, Node(p, x.uses[1]))
  <2>1. x.kind \in Swept => /\ Node(q, x.uses[1]).low = Node(p, x.uses[1]).low
                            /\ Node(q, x.uses[1]).high = Node(p, x.uses[1]).high
    BY SameFields
  <2> QED BY <1>1, <2>1 DEF SweptExtent
<1> QED BY <1>1, <1>2, <1>3 DEF ExtentOf, Copies, ArrayExtent, ModifiedExtent

\* When nodes go up, every frame does, and every extent that turns no boolean over.
LEMMA RaisingRaises ==
    ASSUME NEW p, NEW q, Sound(p), Sound(q), Raising(q, p)
    PROVE  \A n \in Ids(p) : /\ Higher(Frame(q, n), Frame(p, n))
                             /\ ~Sinks(p, n) => Above(Extent(q, n), Extent(p, n))
                             /\ ~Blends(p, n) => Extent(q, n) = Extent(p, n)
<1> DEFINE f == Measures(p)
           g == Measures(q)
           Good(n) == /\ Higher(g[n].frame, f[n].frame)
                      /\ ~Sinks(p, n) => Above(g[n].extent, f[n].extent)
                      /\ ~Blends(p, n) => g[n].extent = f[n].extent
           bad == {n \in Ids(p) : ~Good(n)}
<1>1. /\ \A n \in Ids(p) : f[n] = Measure(p, f, n)
      /\ \A n \in Ids(q) : g[n] = Measure(q, g, n)
  BY MeasuresUnfold DEF Sound
<1>2. /\ \A n \in Ids(p) : f[n].frame \in FrameSet /\ f[n].extent \in ExtentSet
      /\ \A n \in Ids(q) : g[n].frame \in FrameSet /\ g[n].extent \in ExtentSet
  BY MeasuresType DEF Frame, Extent
<1>3. Ids(q) = Ids(p)
  BY RaisedNodes
<1>4. \A n \in Ids(p) : SameBut(Node(q, n), Node(p, n)) /\ RaisedTo(Node(q, n), Node(p, n))
  BY RaisedNodes
<1>7. \A n : Frame(p, n) = f[n].frame
  BY DEF Frame
<1> HIDE DEF f, g
<1>5. bad = {}
  <2>1. SUFFICES ASSUME bad # {} PROVE FALSE
    OBVIOUS
  <2>2. bad \in (SUBSET Ids(p)) \ {{}}
    BY <2>1
  <2>3. PICK n \in bad : Needs(p, n) \cap bad = {}
    BY <2>2 DEF Acyclic, Sound
  <2>4. n \in Ids(p) /\ ~Good(n)
    OBVIOUS
  <2> DEFINE x == Node(p, n)
             y == Node(q, n)
  <2>5. IsNode(x) /\ IsNode(y) /\ SameBut(y, x) /\ RaisedTo(y, x)
    BY <1>3, <1>4, <2>4, NodeIsOne DEF Sound
  <2>6. Needs(p, n) \subseteq Ids(p) /\ \A m \in Needs(p, n) : Good(m)
    BY <2>3, <2>4, NeedsKnown DEF Sound
  <2> HIDE DEF bad, Good
  <2>7. /\ \A m \in Uses(x) : m \in Ids(p) /\ Good(m)
        /\ x.parent # None => x.parent \in Ids(p) /\ Good(x.parent)
    BY <2>6 DEF Needs
  <2>8. f[n] = [frame |-> FrameOf(x, f), extent |-> ExtentOf(p, x, f)]
        /\ g[n] = [frame |-> FrameOf(y, g), extent |-> ExtentOf(q, y, g)]
    BY <1>1, <1>3, <2>4 DEF Measure
  <2>9. y.parent = x.parent /\ y.scale = x.scale /\ y.uses = x.uses /\ y.kind = x.kind
    BY <2>5, SameFields
  <2>10. x.kind \in Swept => x.uses[1] \in Ids(p)
    <3>1. x.kind \in Swept => 1 \in 1 .. Arity(x.kind)
      BY DEF Arity
    <3>2. x.kind \in Swept => x.uses[1] \in Uses(x)
      BY <2>5, <3>1 DEF IsNode, Uses, ToSet
    <3> QED BY <2>7, <3>2
  <2>11. x.kind \in Swept => /\ SameBut(Node(q, x.uses[1]), Node(p, x.uses[1]))
                             /\ IsNode(Node(p, x.uses[1]))
    BY <1>4, <2>10, NodeIsOne DEF Sound
  <2>12. /\ Read(x) \subseteq Uses(x)
         /\ \A m \in Read(x) : Measured(p, m) \subseteq Measured(p, n)
         /\ n \in Measured(p, n)
    BY <2>4, ReadsKnown, MeasuredIs DEF Sound
  <2>13. \A m \in Read(x) : Sinks(p, m) => Sinks(p, n)
    BY <2>12 DEF Sinks
  <2>14. \A m \in Read(x) : Blends(p, m) => Blends(p, n)
    BY <2>12 DEF Blends
  <2>15. Higher(FrameOf(y, g), FrameOf(x, f))
    <3>1. /\ Local(x) \in FrameSet /\ Higher(Local(y), Local(x))
          /\ x.parent # None => Local(y) = Local(x)
      <4>1. y.scale = x.scale /\ y.turned = x.turned
        BY <2>5, SameFields
      <4>2. x.at <= y.at /\ (x.parent # None => y.at = x.at)
        BY <2>5 DEF RaisedTo
      <4> QED BY <2>5, <4>1, <4>2 DEF Local, IsNode, FrameSet, Higher
    <3>2. CASE x.parent = None
      BY <2>9, <3>1, <3>2 DEF FrameOf
    <3>3. CASE x.parent # None
      <4> DEFINE a == f[x.parent].frame
                 b == g[x.parent].frame
      <4>1. a \in FrameSet /\ b \in FrameSet /\ Higher(b, a)
        BY <1>2, <1>3, <2>7, <3>3 DEF Good
      <4> DEFINE l == Local(x)
      <4>2. FrameOf(x, f) = Compose(a, l) /\ FrameOf(y, g) = Compose(b, l) /\ l \in FrameSet
        BY <2>9, <3>1, <3>3 DEF FrameOf
      <4> HIDE DEF a, b, l
      <4> QED BY <4>1, <4>2, ComposeMonotone
    <3> QED BY <3>2, <3>3
  <2>16. ~Sinks(p, n) => Above(ExtentOf(q, y, g), ExtentOf(p, x, f))
    <3>1. SUFFICES ASSUME ~Sinks(p, n)
                   PROVE  Above(ExtentOf(q, y, g), ExtentOf(p, x, f))
      OBVIOUS
    <3>2. \A m \in Uses(x) : /\ f[m].frame \in FrameSet /\ g[m].frame \in FrameSet
                             /\ f[m].extent \in ExtentSet /\ g[m].extent \in ExtentSet
      BY <1>2, <1>3, <2>7
    <3>3. \A m \in Read(x) : /\ Higher(g[m].frame, f[m].frame)
                             /\ Above(g[m].extent, f[m].extent)
      BY <2>7, <2>12, <2>13, <3>1 DEF Good
    <3>4. x.kind = "modifier" /\ x.op = "mirror" =>
            \A m \in Read(x) : g[m].extent = f[m].extent
      <4>1. SUFFICES ASSUME x.kind = "modifier", x.op = "mirror", NEW m \in Read(x)
                     PROVE  g[m].extent = f[m].extent
        OBVIOUS
      <4>2. ~Blends(p, n)
        BY <2>12, <3>1, <4>1 DEF Sinks, Is
      <4>3. ~Blends(p, m)
        BY <2>14, <4>1, <4>2
      <4> QED BY <2>7, <2>12, <4>1, <4>3 DEF Good
    <3>5. x.kind = "boolean" =>
            \A m \in Read(x) : f[m].frame.turned => g[m].extent = f[m].extent
      <4>1. SUFFICES ASSUME x.kind = "boolean", NEW m \in Read(x), f[m].frame.turned
                     PROVE  g[m].extent = f[m].extent
        OBVIOUS
      <4>2. ~Upturned(p, m)
        BY <2>12, <3>1, <4>1 DEF Sinks
      <4>3. ~Blends(p, m)
        BY <1>7, <4>1, <4>2 DEF Upturned
      <4> QED BY <2>7, <2>12, <4>1, <4>3 DEF Good
    <3> HIDE DEF x, y
    <3> QED BY <2>5, <2>11, <3>2, <3>3, <3>4, <3>5, ExtentMonotone
  <2>17. ~Blends(p, n) => ExtentOf(q, y, g) = ExtentOf(p, x, f)
    <3>1. SUFFICES ASSUME ~Blends(p, n)
                   PROVE  ExtentOf(q, y, g) = ExtentOf(p, x, f)
      OBVIOUS
    <3>2. x.kind # "boolean"
      BY <2>12, <3>1 DEF Blends
    <3>3. Read(x) = Uses(x)
      BY <3>2 DEF Read
    <3>4. \A m \in Uses(x) : g[m].extent = f[m].extent
      BY <2>7, <2>14, <3>1, <3>3 DEF Good
    <3> HIDE DEF x, y
    <3> QED BY <2>5, <2>11, <3>2, <3>4, ExtentSame
  <2> HIDE DEF x, y
  <2>18. Good(n)
    BY <2>8, <2>15, <2>16, <2>17 DEF Good
  <2> QED BY <2>4, <2>18
<1>6. \A n \in Ids(p) : Good(n)
  BY <1>5
<1> QED BY <1>6 DEF Frame, Extent, f, g

-----------------------------------------------------------------------------
(* The lift to the ground.                                                 *)
LEMMA UnlimitedIs ==
    ASSUME NEW p, IsReply(p)
    PROVE  LET q == Unlimited(p) IN
           /\ IsReply(q) /\ q.limit = None
           /\ \A f \in DOMAIN p \ {"limit"} : q[f] = p[f]
  BY DEF Unlimited, IsReply

\* What the contract admits but for its size, it can measure; and the limit is only read last.
LEMMA UnlimitedAdmitted ==
    ASSUME NEW p, IsReply(p)
    PROVE  /\ Admitted(Unlimited(p)) => Sound(p) /\ ProfilesBare(p)
           /\ Admitted(p) => Admitted(Unlimited(p)) /\ Sound(p)
<1> DEFINE q == Unlimited(p)
<1>1. /\ q.nodes = p.nodes /\ q.construction = p.construction /\ q.anchors = p.anchors
      /\ q.connectors = p.connectors /\ q.groups = p.groups /\ q.materials = p.materials
      /\ q.quantity = p.quantity /\ q.exact = p.exact /\ q.text = p.text /\ q.limit = None
  BY UnlimitedIs DEF IsReply
<1> HIDE DEF q
<1>2. /\ Ids(q) = Ids(p) /\ Profiles(q) = Profiles(p) /\ Carriers(q) = Carriers(p)
      /\ \A n : Node(q, n) = Node(p, n)
  BY <1>1 DEF Ids, Profiles, Carriers, Node
<1>3. \A n : Needs(q, n) = Needs(p, n) /\ (MeshSource(q, n) <=> MeshSource(p, n))
  BY <1>2 DEF Needs, MeshSource, Originals
<1>4. (FieldsOK(q) <=> FieldsOK(p)) /\ (ExactIsolated(q) <=> ExactIsolated(p))
  BY <1>1 DEF FieldsOK, ExactIsolated
<1>5. (UniqueIds(q) <=> UniqueIds(p)) /\ (ReferencesKnown(q) <=> ReferencesKnown(p))
  BY <1>1, <1>2 DEF UniqueIds, ReferencesKnown
<1>6. SourcesFit(q) <=> SourcesFit(p)
  BY <1>1, <1>2, <1>3 DEF SourcesFit
<1>7. (Acyclic(q) <=> Acyclic(p)) /\ (ProfilesBare(q) <=> ProfilesBare(p))
  BY <1>1, <1>2, <1>3 DEF Acyclic, ProfilesBare
<1>8. (LinksKnown(q) <=> LinksKnown(p)) /\ (RoleCarried(q) <=> RoleCarried(p))
      /\ (Detailed(q) <=> Detailed(p))
  BY <1>1, <1>2 DEF LinksKnown, RoleCarried, Detailed
<1>9. WithinLimit(q)
  BY <1>1 DEF WithinLimit
<1>10. Admitted(q) => Sound(p) /\ ProfilesBare(p)
  BY <1>5, <1>7 DEF Admitted, Sound
<1>11. Admitted(p) => Admitted(q) /\ Sound(p)
  BY <1>4, <1>5, <1>6, <1>7, <1>8, <1>9 DEF Admitted, Sound
<1> QED BY <1>10, <1>11 DEF q

\* What the contract admits is sound.
LEMMA AdmittedSound ==
    ASSUME NEW p, IsReply(p), Admitted(p)
    PROVE  Sound(p)
  BY DEF Admitted, Sound

\* What is lifted or shrunk is seen, so no profile is.
LEMMA RootIsNoProfile ==
    ASSUME NEW p, Sound(p), NEW i \in DOMAIN p.nodes, p.nodes[i].id \in Roots(p)
    PROVE  p.nodes[i].parent = None /\ (ProfilesBare(p) => p.nodes[i].kind # "profile")
<1> DEFINE n == p.nodes[i].id
<1>1. Node(p, n) = p.nodes[i] /\ n \in Ids(p)
  BY NodeIs DEF Sound, Ids
<1>2. n \notin p.construction /\ Node(p, n).parent = None
  BY DEF Roots, Visible
<1> QED BY <1>1, <1>2 DEF ProfilesBare, Profiles

Lifted(p) ==
    LET sunk    == Sunk(p)
        Lift(x) == IF x.id \in sunk
                   THEN [x EXCEPT !.at = @ - Standing(p, x.id)[1]] ELSE x
    IN  Noted(Change(p, Lift), "ground")

\* The ground contact lifts the program, or leaves it alone.
LEMMA GroundIs ==
    ASSUME NEW p
    PROVE  NormalizeGround(p) =
             IF p.ground /\ Admitted(Unlimited(p)) /\ Sunk(p) # {} /\ Len(p.notes) < MaxNotes
             THEN Lifted(p) ELSE p
  BY DEF NormalizeGround, Lifted

\* A lifted program is raised, each sunk root by its own depth.
LEMMA LiftedIs ==
    ASSUME NEW p, Sound(p), Notes(p)
    PROVE  LET q == Lifted(p) IN
           /\ Adjusted(q, p, {"at"}, "ground")
           /\ Raising(q, p)
           /\ q.construction = p.construction
           /\ \A i \in DOMAIN p.nodes :
                 IF p.nodes[i].id \in Sunk(p)
                 THEN q.nodes[i].at = p.nodes[i].at - Standing(p, p.nodes[i].id)[1]
                 ELSE q.nodes[i].at = p.nodes[i].at
<1> DEFINE deep(n) == Standing(p, n)[1]
           Lift(x) == IF x.id \in Sunk(p) THEN [x EXCEPT !.at = @ - deep(x.id)] ELSE x
           N       == [i \in DOMAIN p.nodes |-> Lift(p.nodes[i])]
           q       == Noted([p EXCEPT !.nodes = N], "ground")
<1>1. IsReply(p)
  BY DEF Sound
<1>2. \A n \in Sunk(p) : n \in Ids(p) /\ deep(n) \in Int /\ deep(n) < 0
  BY MeasuresType DEF Sunk, Roots, Visible, ExtentSet
<1>3. Lifted(p) = q
  BY DEF Lifted, Change
<1> HIDE DEF deep
<1>4. ASSUME NEW x, IsNode(x)
      PROVE  /\ IsNode(Lift(x)) /\ \A f \in NodeFields \ {"at"} : Lift(x)[f] = x[f]
             /\ x.at <= Lift(x).at
             /\ x.id \in Sunk(p) => Lift(x).at = x.at - deep(x.id)
             /\ x.id \notin Sunk(p) => Lift(x).at = x.at
  <2>1. CASE x.id \notin Sunk(p)
    BY <1>4, <2>1 DEF IsNode
  <2>2. CASE x.id \in Sunk(p)
    <3> DEFINE z == x.at - deep(x.id)
               y == [x EXCEPT !.at = z]
    <3>1. z \in Int /\ x.at <= z /\ x.at \in Int
      BY <1>2, <1>4, <2>2 DEF IsNode
    <3>2. Lift(x) = y
      BY <2>2
    <3> HIDE DEF z, Lift
    <3>3. IsNode(y) /\ y.at = z
      BY <1>4, <3>1 DEF IsNode
    <3>4. \A f \in NodeFields \ {"at"} : y[f] = x[f]
      BY <1>4 DEF IsNode, NodeFields
    <3> QED BY <2>2, <3>1, <3>2, <3>3, <3>4 DEF z
  <2> QED BY <2>1, <2>2
<1>5. \A i \in DOMAIN p.nodes : N[i] = Lift(p.nodes[i]) /\ IsNode(p.nodes[i])
  BY <1>1 DEF IsReply
<1>6. DOMAIN N = DOMAIN p.nodes /\ N = [i \in DOMAIN N |-> N[i]]
  OBVIOUS
<1> HIDE DEF N, Lift
<1>7. \A i \in DOMAIN p.nodes : IsNode(N[i])
  BY <1>4, <1>5
<1>8. \A i \in DOMAIN p.nodes : \A f \in NodeFields \ {"at"} : N[i][f] = p.nodes[i][f]
  BY <1>4, <1>5
<1>9. "ground" \in Words
  BY DEF Words
<1>10. /\ Adjusted(q, p, {"at"}, "ground")
       /\ q.nodes = N /\ \A f \in DOMAIN p \ {"nodes", "notes"} : q[f] = p[f]
  <2>1. Rewritten(q, p, N, {"at"}, "ground")
    BY <1>1, <1>6, <1>7, <1>8, <1>9, Renoted, Zenon
  <2> QED BY <2>1 DEF Rewritten
<1> HIDE DEF q
<1>11. q.construction = p.construction
  BY <1>1, <1>10 DEF IsReply
<1>13. \A i \in DOMAIN p.nodes :
         IF p.nodes[i].id \in Sunk(p)
         THEN q.nodes[i].at = p.nodes[i].at - deep(p.nodes[i].id)
         ELSE q.nodes[i].at = p.nodes[i].at
  BY <1>4, <1>5, <1>10
<1>12. Raising(q, p)
  <2>1. ASSUME NEW i \in DOMAIN p.nodes PROVE RaisedTo(q.nodes[i], p.nodes[i])
    <3>1. SameBut(q.nodes[i], p.nodes[i]) /\ p.nodes[i].at <= q.nodes[i].at
      BY <1>4, <1>5, <1>8, <1>10 DEF SameBut
    <3>2. p.nodes[i].parent # None => q.nodes[i].at = p.nodes[i].at
      BY <1>13, RootIsNoProfile DEF Sunk
    <3> QED BY <3>1, <3>2 DEF RaisedTo
  <2> QED BY <1>6, <1>10, <2>1 DEF Raising
<1> QED BY <1>3, <1>10, <1>11, <1>12, <1>13 DEF deep

\* A lift is told.
LEMMA GroundFollows ==
    ASSUME NEW p, IsReply(p), Notes(p)
    PROVE  Follows(NormalizeGround(p), p, 1)
<1>1. CASE NormalizeGround(p) = p
  BY <1>1, FollowsSelf
<1>2. CASE NormalizeGround(p) = Lifted(p) /\ Admitted(Unlimited(p))
  <2>1. Adjusted(Lifted(p), p, {"at"}, "ground")
    BY <1>2, LiftedIs, UnlimitedAdmitted
  <2>2. ASSUME NEW i \in DOMAIN p.nodes, NEW f \in {"at"},
               Lifted(p).nodes[i][f] # p.nodes[i][f]
        PROVE  "ground" \in Telling(p.nodes[i].kind, f)
    <3>1. Sound(p) /\ ProfilesBare(p)
      BY <1>2, UnlimitedAdmitted
    <3>2. p.nodes[i].id \in Roots(p)
      BY <2>2, <3>1, LiftedIs DEF Sunk
    <3>3. p.nodes[i].kind # "profile"
      BY <3>1, <3>2, RootIsNoProfile
    <3> QED BY <3>3 DEF Telling
  <2>3. Lifted(p).construction = p.construction
    BY <1>2, LiftedIs, UnlimitedAdmitted
  <2> QED BY <1>2, <2>1, <2>2, <2>3, AdjustedFollows
<1> QED BY <1>1, <1>2, GroundIs

\* What turns over before a lift turns over after it.
LEMMA RaisedSinks ==
    ASSUME NEW p, NEW q, Sound(p), Sound(q), Raising(q, p), NEW n \in Ids(p)
    PROVE  (Upturned(p, n) => Upturned(q, n)) /\ (Sinks(p, n) => Sinks(q, n))
<1>1. /\ \A m : Measured(q, m) = Measured(p, m) /\ Measured(p, m) \subseteq Ids(p)
      /\ \A m : Blends(q, m) <=> Blends(p, m)
  BY RaisedMeasured
<1>2. \A m \in Ids(p) : Upturned(p, m) => Upturned(q, m)
  BY <1>1, RaisingRaises DEF Upturned, Higher
<1>3. ASSUME NEW m \in Ids(p)
      PROVE  /\ Node(q, m).kind = Node(p, m).kind /\ Node(q, m).op = Node(p, m).op
             /\ Read(Node(q, m)) = Read(Node(p, m)) /\ Read(Node(p, m)) \subseteq Ids(p)
  BY RaisedNodes, SameFields, ReadsKnown DEF Sound
<1>4. Sinks(p, n) => Sinks(q, n)
  BY <1>1, <1>2, <1>3 DEF Sinks, Is
<1> QED BY <1>2, <1>4

\* A program lifted to the ground and admitted stands on it, but for what turns a boolean over
\* (geometry_program_planner.py _normalize_ground_contact).
LEMMA GroundIsKept ==
    ASSUME NEW p, IsReply(p), Notes(p), Len(p.notes) < MaxNotes, Admitted(NormalizeGround(p))
    PROVE  GroundKept(NormalizeGround(p))
<1> DEFINE q == NormalizeGround(p)
<1>1. IsReply(q) /\ q.ground = p.ground
  BY GroundFollows DEF Follows, Owned
<1>2. Sound(q)
  BY <1>1, AdmittedSound
<1> HIDE DEF q
<1>3. CASE q = p /\ ~(p.ground /\ Admitted(Unlimited(p)) /\ Sunk(p) # {})
  <2>1. Admitted(Unlimited(p)) /\ Sound(p)
    BY <1>3, UnlimitedAdmitted DEF q
  <2>2. p.ground => Sunk(p) = {}
    BY <1>3, <2>1
  <2>3. ASSUME p.ground, NEW n \in Roots(p) PROVE Standing(p, n)[1] >= 0
    <3>1. ~(Standing(p, n)[1] < 0)
      BY <2>2, <2>3 DEF Sunk
    <3>2. Standing(p, n)[1] \in Int
      BY <2>1, <2>3, MeasuresType DEF Roots, Visible, ExtentSet
    <3> QED BY <3>1, <3>2
  <2> QED BY <1>3, <2>3 DEF GroundKept, q
<1>4. CASE q = Lifted(p) /\ Admitted(Unlimited(p))
  <2>1. Sound(p)
    BY <1>4, UnlimitedAdmitted
  <2>2. /\ Raising(q, p) /\ q.construction = p.construction
        /\ \A i \in DOMAIN p.nodes :
              p.nodes[i].id \in Sunk(p) =>
                 q.nodes[i].at = p.nodes[i].at - Standing(p, p.nodes[i].id)[1]
    <3>1. /\ Raising(q, p) /\ q.construction = p.construction
          /\ \A i \in DOMAIN p.nodes :
                IF p.nodes[i].id \in Sunk(p)
                THEN q.nodes[i].at = p.nodes[i].at - Standing(p, p.nodes[i].id)[1]
                ELSE q.nodes[i].at = p.nodes[i].at
      BY <1>4, <2>1, LiftedIs
    <3> QED BY <3>1
  <2>3. /\ Ids(q) = Ids(p)
        /\ \A n \in Ids(p) : SameBut(Node(q, n), Node(p, n))
    BY <1>2, <2>1, <2>2, RaisedNodes
  <2>4. ASSUME NEW n \in Roots(q), ~Upturned(q, n), ~Sinks(q, n) PROVE Standing(q, n)[1] >= 0
    <3>1. n \in Ids(p) /\ n \in Roots(p)
      BY <2>2, <2>3, <2>4, SameFields DEF Roots, Visible
    <3>2. ~Upturned(p, n) /\ ~Sinks(p, n)
      BY <1>2, <2>1, <2>2, <2>4, <3>1, RaisedSinks
    <3>3. /\ Higher(Frame(q, n), Frame(p, n)) /\ Above(Extent(q, n), Extent(p, n))
          /\ Frame(p, n).turned => Extent(q, n) = Extent(p, n)
      BY <1>2, <2>1, <2>2, <3>1, <3>2, RaisingRaises DEF Upturned
    <3>4. /\ Frame(p, n) \in FrameSet /\ Extent(p, n) \in ExtentSet
          /\ Standing(p, n) \in ExtentSet
      BY <2>1, <3>1, MeasuresType
    <3>5. /\ Frame(q, n) \in FrameSet /\ Extent(q, n) \in ExtentSet
          /\ Standing(q, n) \in ExtentSet
      BY <1>2, <2>3, <3>1, MeasuresType
    <3>6. Standing(p, n)[1] <= Standing(q, n)[1]
      BY <3>3, <3>4, <3>5, MapMonotone DEF Standing, Above
    <3>7. Standing(p, n)[1] \in Int /\ Standing(q, n)[1] \in Int
      BY <3>4, <3>5 DEF ExtentSet
    <3>8. CASE n \notin Sunk(p)
      <4>1. ~(Standing(p, n)[1] < 0)
        BY <3>1, <3>8 DEF Sunk
      <4> QED BY <3>6, <3>7, <4>1
    <3>9. CASE n \in Sunk(p)
      <4>1. PICK i \in DOMAIN p.nodes : p.nodes[i].id = n
        BY <3>1 DEF Ids
      <4>2. Node(p, n) = p.nodes[i]
        BY <2>1, <4>1, NodeIs DEF Sound
      <4>3. Node(q, n) = q.nodes[i]
        <5>1. i \in DOMAIN q.nodes /\ q.nodes[i].id = n
          BY <2>2, <4>1, SameFields DEF Raising, RaisedTo
        <5> QED BY <1>2, <5>1, NodeIs DEF Sound
      <4>4. Node(q, n).at = Node(p, n).at - Standing(p, n)[1]
        BY <2>2, <3>9, <4>1, <4>2, <4>3
      <4>5. Node(p, n).parent = None /\ Node(q, n).parent = None
        BY <2>4, <3>1 DEF Roots
      <4>6. Frame(p, n) = Local(Node(p, n)) /\ Frame(q, n) = Local(Node(q, n))
        <5>1. /\ Measures(p)[n] = Measure(p, Measures(p), n)
              /\ Measures(q)[n] = Measure(q, Measures(q), n)
          BY <1>2, <2>1, <2>3, <3>1, MeasuresUnfold DEF Sound
        <5> QED BY <4>5, <5>1 DEF Frame, Measure, FrameOf
      <4> DEFINE f == Frame(p, n)
                 y == Extent(p, n)
                 z == Extent(q, n)
                 a == IF f.turned THEN 0 - Scaled(f, y[2]) ELSE Scaled(f, y[1])
                 b == IF f.turned THEN 0 - Scaled(f, z[2]) ELSE Scaled(f, z[1])
      <4>10. Node(p, n).at \in Int /\ Node(q, n).at \in Int /\ Node(p, n).at = f.at
        BY <1>2, <2>1, <2>3, <3>1, <4>6, NodeIsOne DEF Sound, IsNode, Local
      <4>7. Frame(q, n).at = Node(q, n).at
        BY <4>6 DEF Local
      <4>9. /\ y[1] \in Int /\ y[2] \in Int /\ z[1] \in Int /\ z[2] \in Int /\ y[1] <= z[1]
            /\ f.turned => z = y
        BY <3>3, <3>4, <3>5 DEF ExtentSet, Above
      <4>11. \A e : Scaled(Frame(q, n), e) = Scaled(f, e)
        BY <3>3 DEF Higher, Scaled
      <4>8. Frame(q, n).turned = f.turned
        BY <3>3 DEF Higher
      <4> HIDE DEF f, y, z
      <4>12. /\ Scaled(f, y[1]) \in Int /\ Scaled(f, y[2]) \in Int
             /\ Scaled(f, z[1]) \in Int /\ Scaled(f, z[2]) \in Int
             /\ Scaled(f, y[1]) <= Scaled(f, z[1])
        <5>1. f \in FrameSet
          BY <3>4 DEF f
        <5>2. f.scale[1] \in Nat /\ f.scale[2] \in Nat \ {0}
          BY <5>1 DEF FrameSet
        <5>3. y[1] * f.scale[1] <= z[1] * f.scale[1]
          BY <4>9, <5>2, ProductMonotone
        <5>4. y[1] * f.scale[1] \in Int /\ z[1] * f.scale[1] \in Int
          BY <4>9, <5>2
        <5>5. Scaled(f, y[1]) <= Scaled(f, z[1])
          BY <5>2, <5>3, <5>4, DivisionMonotone DEF Scaled
        <5> QED BY <4>9, <5>1, <5>5, WithinType
      <4>17. a \in Int /\ b \in Int /\ a <= b
        BY <4>9, <4>12
      <4>13. Standing(p, n)[1] = Node(p, n).at + a /\ Standing(q, n)[1] = Node(q, n).at + b
        <5>1. Standing(p, n) = Map(f, y) /\ Standing(q, n) = Map(Frame(q, n), z)
          BY DEF Standing, f, y, z
        <5>2. CASE f.turned
          BY <4>7, <4>8, <4>10, <4>11, <4>12, <5>1, <5>2 DEF Map, Within
        <5>3. CASE ~f.turned
          BY <4>7, <4>8, <4>10, <4>11, <4>12, <5>1, <5>3 DEF Map, Within
        <5> QED BY <5>2, <5>3
      <4> HIDE DEF a, b
      <4>14. \A h, k \in Int : h = k - (k + a) => h + b >= 0
        BY <4>17
      <4>15. Node(q, n).at = Node(p, n).at - (Node(p, n).at + a)
        BY <4>4, <4>13
      <4> QED BY <4>10, <4>13, <4>14, <4>15
    <3> QED BY <3>8, <3>9
  <2> QED BY <1>4, <2>4 DEF GroundKept, q
<1>5. (q = p /\ ~(p.ground /\ Admitted(Unlimited(p)) /\ Sunk(p) # {}))
      \/ (q = Lifted(p) /\ Admitted(Unlimited(p)))
  BY GroundIs DEF q
<1> QED BY <1>3, <1>4, <1>5

-----------------------------------------------------------------------------
(* The last resort: a program shrunk to its limit.                         *)
LEMMA FitFollows ==
    ASSUME NEW p, IsReply(p), Notes(p), Fits(p), p.limit \in Nat \ {0}
    PROVE  /\ Follows(FitToMaximum(p), p, 1)
           /\ "fit" \in Range(FitToMaximum(p).notes)
<1> DEFINE roots  == Roots(p)
           total  == Total(p, roots)
           count  == Cardinality(roots)
           pivot  == total \div count
           actual == Height(p)
           Shrink(x) ==
             IF x.id \in roots
             THEN [x EXCEPT !.at = pivot + ((@ - pivot) * p.limit) \div actual,
                            !.scale = <<@[1] * p.limit, @[2] * actual>>]
             ELSE x
           N == [i \in DOMAIN p.nodes |-> Shrink(p.nodes[i])]
           q == Noted([p EXCEPT !.nodes = N], "fit")
           L == p.limit
<1>1. Sound(p) /\ ProfilesBare(p)
  BY UnlimitedAdmitted DEF Fits
<1>2. FitToMaximum(p) = q
  BY DEF FitToMaximum, Change
<1>3. roots \subseteq Visible(p) /\ roots # {} /\ IsFiniteSet(roots)
  <2>1. roots \subseteq Ids(p) /\ roots \subseteq Visible(p)
    BY DEF Roots, Visible
  <2> QED BY <2>1, FiniteIds, FS_Subset DEF Fits
<1>4. count \in Nat \ {0}
  BY <1>3, FS_CardinalityType, FS_EmptySet
<1>5. total \in Int
  BY TotalType
<1>6. actual \in Nat \ {0} /\ L \in Nat \ {0}
  <2>1. actual \in Int
    <3>1. Visible(p) # {}
      BY <1>3
    <3> QED BY <1>1, <3>1, EnvelopeIs
  <2>2. actual > L
    BY DEF Fits
  <2> HIDE DEF actual
  <2> QED BY <2>1, <2>2
<1> HIDE DEF roots, total, count, actual
<1>7. pivot \in Int
  BY <1>4, <1>5, DivisionType
<1> HIDE DEF pivot
<1>8. ASSUME NEW x, IsNode(x)
      PROVE  /\ IsNode(Shrink(x)) /\ \A f \in NodeFields \ {"at", "scale"} : Shrink(x)[f] = x[f]
             /\ x.id \notin roots => Shrink(x) = x
  <2> DEFINE t == pivot + ((x.at - pivot) * L) \div actual
             u == <<x.scale[1] * L, x.scale[2] * actual>>
             y == [x EXCEPT !.at = t, !.scale = u]
  <2>1. x.at \in Int /\ x.scale[1] \in Nat \ {0} /\ x.scale[2] \in Nat \ {0}
    BY <1>8 DEF IsNode
  <2>2. t \in Int
    <3>1. (x.at - pivot) * L \in Int
      BY <1>6, <1>7, <2>1
    <3>2. ((x.at - pivot) * L) \div actual \in Int
      BY <1>6, <3>1, DivisionType
    <3> QED BY <1>7, <3>2
  <2>3. u \in (Nat \ {0}) \X (Nat \ {0})
    BY <1>6, <2>1, ProductType
  <2>4. Shrink(x) = IF x.id \in roots THEN y ELSE x
    OBVIOUS
  <2> HIDE DEF t, u, Shrink
  <2>5. IsNode(y)
    BY <1>8, <2>2, <2>3 DEF IsNode
  <2>6. \A f \in NodeFields \ {"at", "scale"} : y[f] = x[f]
    BY <1>8, Zenon DEF IsNode, NodeFields
  <2> QED BY <1>8, <2>4, <2>5, <2>6, Zenon
<1>9. \A i \in DOMAIN p.nodes : N[i] = Shrink(p.nodes[i]) /\ IsNode(p.nodes[i])
  BY SMTT(30) DEF IsReply
<1>10. DOMAIN N = DOMAIN p.nodes /\ N = [i \in DOMAIN N |-> N[i]]
  BY Zenon
<1> HIDE DEF N, Shrink
<1>11. \A i \in DOMAIN p.nodes : IsNode(N[i])
  BY <1>8, <1>9
<1>12. \A i \in DOMAIN p.nodes :
         \A f \in NodeFields \ {"at", "scale"} : N[i][f] = p.nodes[i][f]
  BY <1>8, <1>9
<1>13. "fit" \in Words
  BY DEF Words
<1>14. Rewritten(q, p, N, {"at", "scale"}, "fit")
  BY <1>10, <1>11, <1>12, <1>13, Renoted, Zenon
<1> HIDE DEF q
<1>15. ASSUME NEW i \in DOMAIN p.nodes, NEW f \in {"at", "scale"},
             q.nodes[i][f] # p.nodes[i][f]
       PROVE  "fit" \in Telling(p.nodes[i].kind, f)
  <2>1. p.nodes[i].id \in Roots(p)
    BY <1>8, <1>9, <1>14, <1>15 DEF Rewritten, roots
  <2>2. p.nodes[i].kind # "profile"
    BY <1>1, <2>1, RootIsNoProfile
  <2> QED BY <2>2 DEF Telling
<1>18. q.construction = p.construction
  BY <1>14 DEF Rewritten, IsReply
<1>16. Follows(q, p, 1)
  <2>1. Adjusted(q, p, {"at", "scale"}, "fit")
    BY <1>14 DEF Rewritten
  <2> QED BY <1>15, <1>18, <2>1, AdjustedFollows
<1>17. "fit" \in Range(q.notes)
  BY <1>13, <1>14, Appended DEF Rewritten, Notes
<1> QED BY <1>2, <1>16, <1>17

-----------------------------------------------------------------------------
(* What the planner makes of a reply.                                      *)
LEMMA PinnedIs ==
    ASSUME plan \in Plans, NEW reply \in Replies, NEW c, NEW notes \in Seq(Words)
    PROVE  LET q == Pinned(reply, c, notes) IN
           /\ IsReply(q) /\ Notes(q) /\ q.notes = notes /\ q.nodes = reply.nodes
           /\ q.construction = reply.construction /\ PinnedTo(q, plan, c)
<1> DEFINE q == Pinned(reply, c, notes)
<1>1. IsReply(reply)
  BY RepliesAssumption
<1>2. /\ DOMAIN q = DOMAIN reply /\ q.nodes = reply.nodes /\ q.notes = notes
      /\ q.materials = reply.materials /\ q.text = reply.text
      /\ q.construction = reply.construction
  BY <1>1 DEF Pinned, IsReply
<1>3. PinnedTo(q, plan, c)
  BY <1>1 DEF Pinned, PinnedTo, IsReply
<1> HIDE DEF q
<1>4. IsReply(q)
  BY <1>1, <1>2 DEF IsReply
<1> QED BY <1>2, <1>3, <1>4 DEF Notes, q

\* An adjusted program stays that of its component.
LEMMA FollowsPinned ==
    ASSUME NEW p, NEW q, NEW k, Follows(q, p, k), NEW c, PinnedTo(p, plan, c)
    PROVE  PinnedTo(q, plan, c)
  BY DEF Follows, Owned, PinnedTo

\* Three adjustments at most, and a fourth when the program is shrunk at last.
LEMMA LiftedFollows ==
    ASSUME NEW p, IsReply(p), Notes(p), Len(p.notes) <= 12
    PROVE  LET lifted == NormalizeGround(Tidied(p)) IN
           /\ Follows(lifted, p, 3) /\ IsReply(lifted) /\ Notes(lifted)
           /\ Admitted(lifted) => GroundKept(lifted)
<1> DEFINE tidy == Tidied(p)
           lifted == NormalizeGround(tidy)
<1>1. Len(p.notes) \in Nat /\ Len(p.notes) + 1 < MaxNotes
  BY DEF Notes, MaxNotes
<1>2. Follows(tidy, p, 2) /\ IsReply(tidy) /\ Notes(tidy)
  BY <1>1, TidiedFollows
<1> HIDE DEF tidy
<1>3. Len(tidy.notes) < MaxNotes
  <2>1. Len(tidy.notes) \in Nat /\ Len(tidy.notes) <= Len(p.notes) + 2
    BY <1>2 DEF Follows, Notes
  <2>2. \A a, b \in Nat : a <= 12 /\ b <= a + 2 => b < 16
    OBVIOUS
  <2> QED BY <1>1, <2>1, <2>2 DEF MaxNotes
<1>4. Follows(lifted, tidy, 1)
  BY <1>2, GroundFollows
<1>5. Admitted(lifted) => GroundKept(lifted)
  BY <1>2, <1>3, GroundIsKept
<1> HIDE DEF lifted
<1>6. Follows(lifted, p, 2 + 1)
  BY <1>2, <1>4, FollowsOn
<1>7. IsReply(lifted) /\ Notes(lifted)
  BY <1>4 DEF Follows, Owned
<1> QED BY <1>5, <1>6, <1>7 DEF lifted, tidy

\* The program shrunk to its limit tells it.
LEMMA ShrunkFollows ==
    ASSUME NEW p, IsReply(p), Notes(p), Len(p.notes) <= 12,
           p.limit \in (Nat \ {0}) \cup {None},
           Fits(NormalizeGround(Tidied(p)))
    PROVE  LET shrunk == FitToMaximum(NormalizeGround(Tidied(p))) IN
           /\ Follows(shrunk, p, 4) /\ IsReply(shrunk) /\ Notes(shrunk)
           /\ GroundKept(shrunk)
<1> DEFINE lifted == NormalizeGround(Tidied(p))
           shrunk == FitToMaximum(lifted)
<1>1. Follows(lifted, p, 3) /\ IsReply(lifted) /\ Notes(lifted)
  BY LiftedFollows
<1>2. lifted.limit \in Nat \ {0}
  <2>1. lifted.limit = p.limit /\ lifted.limit # None
    BY <1>1 DEF Follows, Owned, Fits
  <2> QED BY <2>1
<1>3. Follows(shrunk, lifted, 1) /\ "fit" \in Range(shrunk.notes)
  BY <1>1, <1>2, FitFollows
<1> HIDE DEF lifted
<1> HIDE DEF shrunk
<1>4. Follows(shrunk, p, 3 + 1)
  BY <1>1, <1>3, FollowsOn
<1>5. IsReply(shrunk) /\ Notes(shrunk)
  BY <1>3 DEF Follows, Owned
<1> QED BY <1>3, <1>4, <1>5 DEF GroundKept, shrunk, lifted

\* What the planner would accept of a draft: the lifted program, or the shrunk one.
Final(p, last) ==
    LET lifted == NormalizeGround(Tidied(p)) IN
    IF last /\ ~Admitted(lifted) /\ Fits(lifted) THEN FitToMaximum(lifted) ELSE lifted

\* What is accepted tells what it changed, and stands on the ground unless shrunk.
LEMMA FinalIs ==
    ASSUME NEW p, IsReply(p), Notes(p), Len(p.notes) <= 12,
           p.limit \in (Nat \ {0}) \cup {None}, NEW last
    PROVE  LET q == Final(p, last) IN
           /\ Follows(q, p, 4) /\ IsReply(q) /\ Notes(q)
           /\ Admitted(q) => GroundKept(q)
<1> DEFINE lifted == NormalizeGround(Tidied(p))
           shrunk == FitToMaximum(lifted)
<1>1. /\ Follows(lifted, p, 3) /\ IsReply(lifted) /\ Notes(lifted)
      /\ Admitted(lifted) => GroundKept(lifted)
  BY LiftedFollows
<1>2. Fits(lifted) =>
         Follows(shrunk, p, 4) /\ IsReply(shrunk) /\ Notes(shrunk) /\ GroundKept(shrunk)
  BY ShrunkFollows
<1>3. Final(p, last) = IF last /\ ~Admitted(lifted) /\ Fits(lifted) THEN shrunk ELSE lifted
  BY DEF Final
<1> HIDE DEF lifted
<1>4. Follows(lifted, p, 4)
  BY <1>1, FollowsLess
<1> HIDE DEF shrunk
<1>5. CASE last /\ ~Admitted(lifted) /\ Fits(lifted)
  BY <1>2, <1>3, <1>5
<1>6. CASE ~(last /\ ~Admitted(lifted) /\ Fits(lifted))
  BY <1>1, <1>3, <1>4, <1>6
<1> QED BY <1>5, <1>6

-----------------------------------------------------------------------------
(* A run that fails, and the steps of the plan.                            *)
Broken == {"CLOSED_PROGRAM", "UNRESOLVED_GRAPH", "MESH_SOURCE"}

\* A reason is not the absence of one.
LEMMA NoWordIsNone ==
    ASSUME NEW why \in Reasons
    PROVE  why # None
  BY AbsentAssumption

\* A failure leaves the design certified as it was, or failed.
LEMMA FailKeeps ==
    ASSUME CognitiveInv, NEW why \in Reasons \ Broken, FailRun(why),
           UNCHANGED <<plan, decided, catalogue, programs, scene, built, placed, served, revisions>>
    PROVE  CognitiveInv'
<1> USE DEF CognitiveInv
<1>1. /\ phase' \in Ended /\ (phase' = "certified" <=> served # None)
      /\ fault' = why /\ ask' = NoAsk /\ turn' = 1 /\ draft' = None /\ revising' = None
  BY DEF FailRun, Ended
<1>2. why # None /\ why \notin Broken
  BY NoWordIsNone
<1>3. PlanningOK'
  BY <1>1, BoundsAssumption DEF PlanningOK, NoAsk, Phases, Early, Late, Ended, Stages
<1>4. DraftingOK'
  <2>1. 1 \in 1 .. Len(plan.components) + 1
    BY DEF DraftingOK
  <2> QED BY <1>1, <2>1 DEF DraftingOK, Early, Late, Ended, Stages
<1>5. SceneOK'
  BY <1>1 DEF SceneOK, Ended
<1>6. HistoryOK'
  BY <1>1, <1>2 DEF HistoryOK, Late, Ended, PlanningOK
<1>7. AcceptedCompiles'
  BY <1>1, <1>2 DEF AcceptedCompiles, Broken
<1> QED BY <1>3, <1>4, <1>5, <1>6, <1>7

\* From one stage of the plan to the next.
LEMMA EarlyKeeps ==
    ASSUME CognitiveInv, phase \in Early, phase' \in Early,
           phase' \in {"decide", "route"} => GraphOK(plan),
           ask' \in [format : {"strict", "object"}, retries : 0 .. 2, repairs : 0 .. MaxRepairs],
           decided' \subseteq Components(plan),
           UNCHANGED <<plan, catalogue, turn, draft, programs, placed, scene, built, revising,
                       served, revisions, fault>>
    PROVE  CognitiveInv'
<1> USE DEF CognitiveInv
<1>1. PlanningOK'
  BY DEF PlanningOK, Phases, Early, Late, Stages
<1>2. DraftingOK'
  BY DEF DraftingOK, Early, Late, Stages
<1>3. SceneOK'
  BY DEF SceneOK, Early, Stages
<1>4. HistoryOK'
  BY DEF HistoryOK, Early, Late, Stages
<1>5. AcceptedCompiles'
  BY DEF AcceptedCompiles
<1> QED BY <1>1, <1>2, <1>3, <1>4, <1>5

\* What every step keeps of the invariant's parts that it does not touch.
LEMMA RouteDomainKeeps == ASSUME CognitiveInv, RouteDomain PROVE CognitiveInv'
<1>1. UNCHANGED <<plan, decided, catalogue, programs, scene, built, placed, served, revisions>>
  BY DEF RouteDomain, planning, building
<1>2. CASE FailRun("ROUTED_AWAY")
  BY <1>1, <1>2, FailKeeps DEF Reasons, Broken
<1>3. CASE phase' = "intent" /\ UNCHANGED <<ask, turn, draft, revising, fault>>
  BY <1>1, <1>3, EarlyKeeps DEF RouteDomain, CognitiveInv, PlanningOK, Early, Stages
<1> QED BY <1>2, <1>3 DEF RouteDomain

\* A stage is answered, retried, repaired or fails.
LEMMA AskStageKeeps == ASSUME CognitiveInv, AskStage PROVE CognitiveInv'
<1>1. UNCHANGED <<plan, decided, catalogue, programs, scene, built, placed, served, revisions>>
  BY DEF AskStage, planning, building
<1>2. CASE FailRun("PLANNING_REQUEST")
  BY <1>1, <1>2, FailKeeps DEF Reasons, Broken
<1>3. /\ phase \in Stages /\ decided \subseteq Components(plan)
      /\ ask \in [format : {"strict", "object"}, retries : 0 .. 2, repairs : 0 .. MaxRepairs]
      /\ MaxRepairs \in 0 .. 4
  BY BoundsAssumption DEF AskStage, CognitiveInv, PlanningOK
<1>4. CASE phase' = After(phase) /\ ask' = NoAsk /\ UNCHANGED <<turn, draft, revising, fault>>
  <2>1. phase' \in Early /\ phase' \notin {"decide", "route"}
    BY <1>3, <1>4 DEF After, Early, Stages
  <2>2. ask' \in [format : {"strict", "object"}, retries : 0 .. 2, repairs : 0 .. MaxRepairs]
    BY <1>3, <1>4 DEF NoAsk
  <2> QED BY <1>1, <1>3, <1>4, <2>1, <2>2, EarlyKeeps DEF Early
<1>5. ASSUME UNCHANGED <<phase, turn, draft, revising, fault>>,
             ask' \in [format : {"strict", "object"}, retries : 0 .. 2, repairs : 0 .. MaxRepairs]
      PROVE  CognitiveInv'
  BY <1>1, <1>3, <1>5, EarlyKeeps DEF Early, Stages
<1>6. CASE /\ ask.repairs = 0 /\ ask.retries < 2
           /\ ask' = [ask EXCEPT !.format = "object", !.retries = @ + 1]
           /\ UNCHANGED <<phase, turn, draft, revising, fault>>
  <2>1. ask' \in [format : {"strict", "object"}, retries : 0 .. 2, repairs : 0 .. MaxRepairs]
    <3>1. ask' = [format |-> "object", retries |-> ask.retries + 1, repairs |-> ask.repairs]
      BY <1>3, <1>6
    <3>2. ask.retries \in 0 .. 2 /\ ask.repairs \in 0 .. MaxRepairs
      BY <1>3
    <3> QED BY <1>3, <1>6, <3>1, <3>2
  <2> QED BY <1>5, <1>6, <2>1, Zenon
<1>7. CASE /\ ask.repairs < MaxRepairs
           /\ ask' = [ask EXCEPT !.format = "object", !.repairs = @ + 1]
           /\ UNCHANGED <<phase, turn, draft, revising, fault>>
  <2>1. ask' \in [format : {"strict", "object"}, retries : 0 .. 2, repairs : 0 .. MaxRepairs]
    <3>1. ask' = [format |-> "object", retries |-> ask.retries, repairs |-> ask.repairs + 1]
      BY <1>3, <1>7
    <3>2. ask.retries \in 0 .. 2 /\ ask.repairs \in 0 .. MaxRepairs
      BY <1>3
    <3> QED BY <1>3, <1>7, <3>1, <3>2
  <2> QED BY <1>5, <1>7, <2>1, Zenon
<1> QED BY <1>2, <1>4, <1>6, <1>7 DEF AskStage

\* The graph is judged.
LEMMA JudgeGraphKeeps == ASSUME CognitiveInv, JudgeGraph PROVE CognitiveInv'
<1>1. UNCHANGED <<plan, decided, catalogue, programs, scene, built, placed, served, revisions>>
  BY DEF JudgeGraph, planning, building
<1>2. CASE FailRun("PLAN_INVALID")
  BY <1>1, <1>2, FailKeeps DEF Reasons, Broken
<1>3. CASE phase' = "decide" /\ GraphOK(plan) /\ UNCHANGED <<ask, turn, draft, revising, fault>>
  BY <1>1, <1>3, EarlyKeeps DEF JudgeGraph, CognitiveInv, PlanningOK, Early
<1> QED BY <1>2, <1>3 DEF JudgeGraph

\* A component is decided.
LEMMA DecideComponentKeeps ==
    ASSUME CognitiveInv, NEW c \in Components(plan), DecideComponent(c) PROVE CognitiveInv'
<1>1. UNCHANGED <<plan, catalogue, turn, draft, programs, placed, scene, built, revising,
                  served, revisions, fault, phase, ask>>
  BY DEF DecideComponent, drafting, building, history
<1> QED BY <1>1, EarlyKeeps DEF DecideComponent, CognitiveInv, PlanningOK, Early

\* The decisions are judged.
LEMMA JudgeDecisionsKeeps == ASSUME CognitiveInv, JudgeDecisions PROVE CognitiveInv'
<1>1. UNCHANGED <<plan, decided, catalogue, programs, scene, built, placed, served, revisions>>
  BY DEF JudgeDecisions, planning, building
<1>2. CASE FailRun("PLAN_INVALID")
  BY <1>1, <1>2, FailKeeps DEF Reasons, Broken
<1>3. CASE phase' = "route" /\ UNCHANGED <<ask, turn, draft, revising, fault>>
  BY <1>1, <1>3, EarlyKeeps DEF JudgeDecisions, CognitiveInv, PlanningOK, Early
<1> QED BY <1>2, <1>3 DEF JudgeDecisions

\* The specialists are routed.
LEMMA RouteSpecialistsKeeps == ASSUME CognitiveInv, RouteSpecialists PROVE CognitiveInv'
<1>1. UNCHANGED <<plan, decided, catalogue, programs, scene, built, placed, served, revisions>>
  BY DEF RouteSpecialists, planning, building
<1>2. CASE FailRun("PLAN_INVALID") \/ FailRun("CLARIFICATION_REQUIRED")
  BY <1>1, <1>2, FailKeeps DEF Reasons, Broken
<1>3. CASE /\ phase' = "geometry" /\ ~plan.clarify
           /\ UNCHANGED <<ask, turn, draft, revising, fault>>
  <2> USE DEF CognitiveInv
  <2>1. phase = "route"
    BY DEF RouteSpecialists
  <2>2. PlanningOK'
    BY <1>1, <1>3, <2>1 DEF PlanningOK, Phases, Late
  <2>3. revising = None /\ served = None
    BY <2>1 DEF HistoryOK, Late
  <2>4. DraftingOK'
    <3>1. turn = 1 /\ draft = None /\ DOMAIN programs = {}
      BY <2>1 DEF DraftingOK, Early
    <3>2. {c \in Chosen(plan, Generated) : c < 1} = {}
      <4>1. \A c \in Components(plan) : c \in Nat \ {0}
        BY PlansAssumption DEF PlanningOK, IsPlan, Components
      <4> QED BY <4>1 DEF Chosen
    <3> QED BY <1>1, <1>3, <2>3, <3>1, <3>2 DEF DraftingOK, Early, Late, Stages
  <2>5. SceneOK'
    BY <1>1, <1>3 DEF SceneOK
  <2>6. HistoryOK'
    <3>1. None \notin Chosen(plan, Generated)
      <4>1. \A c \in Components(plan) : c \in Nat \ {0}
        BY PlansAssumption DEF PlanningOK, IsPlan, Components
      <4> QED BY <4>1, AbsentAssumption DEF Chosen
    <3> QED BY <1>1, <1>3, <2>3, <3>1 DEF HistoryOK, Late
  <2>7. AcceptedCompiles'
    BY <1>3 DEF AcceptedCompiles
  <2> QED BY <2>2, <2>4, <2>5, <2>6, <2>7
<1> QED BY <1>2, <1>3 DEF RouteSpecialists

-----------------------------------------------------------------------------
(* The geometry of a component.                                            *)
LEMMA PlanIs ==
    ASSUME CognitiveInv
    PROVE  /\ IsPlan(plan) /\ Len(plan.components) \in Nat
           /\ Components(plan) = 1 .. Len(plan.components)
           /\ None \notin Components(plan)
<1>1. IsPlan(plan)
  BY PlansAssumption DEF CognitiveInv, PlanningOK
<1>2. plan.components \in Seq(ToSet(plan.components))
  BY <1>1 DEF IsPlan
<1>3. Len(plan.components) \in Nat /\ Components(plan) = 1 .. Len(plan.components)
  BY <1>2 DEF Components
<1> QED BY <1>1, <1>3, AbsentAssumption

\* One function over another.
LEMMA OverIs ==
    ASSUME NEW f, NEW g
    PROVE  /\ DOMAIN Over(f, g) = DOMAIN f \cup DOMAIN g
           /\ \A x \in DOMAIN f : Over(f, g)[x] = f[x]
           /\ \A x \in DOMAIN g \ DOMAIN f : Over(f, g)[x] = g[x]
  BY DEF Over

Asks == [format : {"strict", "object"}, retries : 0 .. 2, repairs : 0 .. MaxRepairs]

\* What every step of the drafting keeps, if it keeps its own drafts and programs.
LEMMA GeometryKeeps ==
    ASSUME CognitiveInv, phase = "geometry", phase' = "geometry", ask' \in Asks,
           turn' \in 1 .. Len(plan.components) + 1, draft' # None => DraftOK',
           Accepted(programs', plan), DOMAIN programs' \subseteq Chosen(plan, Generated),
           revising = None => DOMAIN programs' = {c \in Chosen(plan, Generated) : c < turn'},
           revising # None => DOMAIN programs' = Chosen(plan, Generated),
           UNCHANGED <<plan, decided, catalogue, placed, scene, built, revising, served,
                       revisions, fault>>
    PROVE  CognitiveInv'
<1> USE DEF CognitiveInv
<1>1. PlanningOK'
  BY DEF PlanningOK, Asks
<1>2. DraftingOK'
  BY DEF DraftingOK, Early, Late, Stages
<1>3. SceneOK'
  BY DEF SceneOK
<1>4. HistoryOK'
  BY DEF HistoryOK
<1>5. AcceptedCompiles'
  BY DEF AcceptedCompiles
<1> QED BY <1>1, <1>2, <1>3, <1>4, <1>5

\* Where the drafting is, and what it drafts.
LEMMA DraftingIs ==
    ASSUME CognitiveInv, phase = "geometry"
    PROVE  /\ ask \in Asks /\ turn \in 1 .. Len(plan.components) + 1
           /\ ToDraft \subseteq Chosen(plan, Generated)
           /\ Chosen(plan, Generated) \subseteq Components(plan)
           /\ Accepted(programs, plan)
           /\ revising = None =>
                ToDraft = Chosen(plan, Generated)
                /\ DOMAIN programs = {c \in Chosen(plan, Generated) : c < turn}
           /\ revising # None => DOMAIN programs = Chosen(plan, Generated)
           /\ DOMAIN programs \subseteq Chosen(plan, Generated)
           /\ draft # None => DraftOK
  BY DEF CognitiveInv, PlanningOK, DraftingOK, ToDraft, Asks, Chosen

\* A component that is not generated is skipped.
LEMMA SkipComponentKeeps == ASSUME CognitiveInv, SkipComponent PROVE CognitiveInv'
<1>1. /\ phase = "geometry" /\ draft = None
      /\ turn \in Components(plan) \ ToDraft /\ turn' = turn + 1
      /\ UNCHANGED <<plan, decided, catalogue, phase, ask, draft, programs, placed, scene, built,
                     revising, served, revisions, fault>>
  BY DEF SkipComponent, planning, building, history
<1>2. turn \in 1 .. Len(plan.components) /\ Len(plan.components) \in Nat
  BY <1>1, PlanIs
<1>3. turn' \in 1 .. Len(plan.components) + 1
  BY <1>1, <1>2
<1>4. revising = None => DOMAIN programs = {c \in Chosen(plan, Generated) : c < turn'}
  <2>1. SUFFICES ASSUME revising = None
                 PROVE  DOMAIN programs = {c \in Chosen(plan, Generated) : c < turn'}
    OBVIOUS
  <2>2. turn \notin Chosen(plan, Generated)
    BY <1>1, <2>1, DraftingIs
  <2>3. \A c \in Chosen(plan, Generated) : c \in Nat /\ c # turn
    BY <1>1, <2>2, DraftingIs, PlanIs
  <2>4. \A c \in Chosen(plan, Generated) : c < turn + 1 <=> c < turn
    BY <1>2, <2>3
  <2> QED BY <1>1, <2>1, <2>4, DraftingIs
<1> QED BY <1>1, <1>3, <1>4, DraftingIs, GeometryKeeps

\* A reply is pinned to its component, with the adjustments it inherits.
LEMMA NewDraft ==
    ASSUME CognitiveInv, phase = "geometry", turn \in ToDraft, NEW reply \in Replies,
           NEW notes \in Seq(Words), Len(notes) <= 3 * ask'.repairs,
           draft' = [program |-> Pinned(reply, turn, notes), reply |-> reply, judged |-> FALSE],
           ask' \in Asks,
           UNCHANGED <<plan, decided, catalogue, phase, turn, programs, placed, scene, built,
                       revising, served, revisions, fault>>
    PROVE  CognitiveInv'
<1>1. plan \in Plans
  BY DEF CognitiveInv, PlanningOK
<1>2. Pinned(reply, turn, notes).notes = notes
  BY <1>1, PinnedIs
<1>3. ToDraft' = ToDraft
  BY DEF ToDraft
<1>4. /\ draft'.program = Pinned(reply, turn, notes) /\ draft'.reply = reply
      /\ draft'.judged = FALSE /\ DOMAIN draft' = {"program", "reply", "judged"}
  OBVIOUS
<1>5. Pinned(reply, turn, notes)' = Pinned(reply, turn, notes)
  BY DEF Pinned
<1>6. DraftOK'
  <2>1. (Attempts)' = ask'.repairs
    BY <1>4 DEF Attempts
  <2>2. (draft.program = Pinned(draft.reply, turn, draft.program.notes))'
    BY <1>2, <1>4 DEF Pinned
  <2> QED BY <1>2, <1>3, <1>4, <2>1, <2>2 DEF DraftOK
<1> QED BY <1>6, DraftingIs, GeometryKeeps

\* A program is asked for.
LEMMA AskProgramKeeps == ASSUME CognitiveInv, AskProgram PROVE CognitiveInv'
<1>1. /\ phase = "geometry" /\ turn \in ToDraft
      /\ UNCHANGED <<plan, decided, catalogue, programs, placed, scene, built, served, revisions>>
  BY DEF AskProgram, planning, building
<1>2. CASE FailRun("GEOMETRY_REQUEST")
  BY <1>1, <1>2, FailKeeps DEF Reasons, Broken
<1>3. NoAsk \in Asks /\ ask \in Asks
  BY <1>1, BoundsAssumption, DraftingIs DEF NoAsk, Asks
<1>4. CASE /\ \E reply \in Replies :
                draft' = [program |-> Pinned(reply, turn, <<>>), reply |-> reply, judged |-> FALSE]
           /\ ask' = NoAsk
           /\ UNCHANGED <<phase, turn, revising, fault>>
  <2>1. PICK reply \in Replies :
           draft' = [program |-> Pinned(reply, turn, <<>>), reply |-> reply, judged |-> FALSE]
    BY <1>4
  <2>2. <<>> \in Seq(Words) /\ Len(<<>>) <= 3 * ask'.repairs
    BY <1>4 DEF NoAsk
  <2> QED BY <1>1, <1>3, <1>4, <2>1, <2>2, NewDraft
<1>5. CASE /\ ask' = [ask EXCEPT !.format = "object"]
           /\ UNCHANGED <<phase, turn, draft, revising, fault>>
          /\ draft = None
  <2>1. ask' \in Asks
    BY <1>3, <1>5 DEF Asks
  <2> QED BY <1>1, <1>5, <2>1, DraftingIs, GeometryKeeps
<1> QED BY <1>2, <1>4, <1>5 DEF AskProgram

\* A refused program is repaired.
LEMMA RepairProgramKeeps == ASSUME CognitiveInv, RepairProgram PROVE CognitiveInv'
<1>1. /\ phase = "geometry" /\ draft # None /\ draft.judged
      /\ UNCHANGED <<plan, decided, catalogue, programs, placed, scene, built, served, revisions>>
  BY DEF RepairProgram, planning, building
<1>2. CASE FailRun("GEOMETRY_REQUEST")
  BY <1>1, <1>2, FailKeeps DEF Reasons, Broken
<1>3. /\ DraftOK /\ ask \in Asks
  BY <1>1, DraftingIs
<1>4. CASE /\ \E reply \in Replies :
                draft' = [program |-> Pinned(reply, turn, draft.program.notes), reply |-> reply,
                          judged |-> FALSE]
           /\ ask' = [ask EXCEPT !.repairs = @ + 1]
           /\ UNCHANGED <<phase, turn, revising, fault>>
  <2> DEFINE notes == draft.program.notes
  <2>1. PICK reply \in Replies :
           draft' = [program |-> Pinned(reply, turn, notes), reply |-> reply, judged |-> FALSE]
    BY <1>4
  <2>2. notes \in Seq(Words) /\ Len(notes) <= 3 * (ask.repairs + 1) /\ ask.repairs < MaxRepairs
        /\ turn \in ToDraft
    BY <1>1, <1>3 DEF DraftOK, Attempts
  <2>3. ask' \in Asks /\ ask'.repairs = ask.repairs + 1
    <3>1. ask' = [format |-> ask.format, retries |-> ask.retries, repairs |-> ask.repairs + 1]
      BY <1>3, <1>4 DEF Asks
    <3>2. /\ ask.format \in {"strict", "object"} /\ ask.retries \in 0 .. 2
          /\ ask.repairs \in 0 .. MaxRepairs /\ MaxRepairs \in Nat
      BY <1>3, BoundsAssumption DEF Asks
    <3> QED BY <2>2, <3>1, <3>2 DEF Asks
  <2> HIDE DEF notes
  <2> QED BY <1>1, <1>4, <2>1, <2>2, <2>3, NewDraft
<1> QED BY <1>2, <1>4 DEF RepairProgram

\* Every program is drafted.
LEMMA AllDraftedKeeps == ASSUME CognitiveInv, AllDrafted PROVE CognitiveInv'
<1> USE DEF CognitiveInv
<1>1. /\ phase = "geometry" /\ draft = None /\ turn \notin Components(plan)
      /\ phase' = "compose" /\ turn' = 1 /\ placed' = <<>>
      /\ UNCHANGED <<plan, decided, catalogue, ask, draft, programs, scene, built, revising,
                     served, revisions, fault>>
  BY DEF AllDrafted, planning, history
<1>2. /\ turn = Len(plan.components) + 1 /\ Len(plan.components) \in Nat
      /\ Components(plan) = 1 .. Len(plan.components)
  BY <1>1, PlanIs, DraftingIs
<1>3. DOMAIN programs = Chosen(plan, Generated)
  <2>1. CASE revising # None
    BY <1>1, <2>1, DraftingIs
  <2>2. CASE revising = None
    <3>1. \A c \in Chosen(plan, Generated) : c < turn
      BY <1>2 DEF Chosen
    <3> QED BY <1>1, <2>2, <3>1, DraftingIs
  <2> QED BY <2>1, <2>2
<1>4. PlanningOK'
  BY <1>1 DEF PlanningOK, Phases, Late
<1>5. DraftingOK'
  BY <1>1, <1>2, <1>3 DEF DraftingOK, Early, Late, Stages
<1>6. SceneOK'
  BY <1>1 DEF SceneOK
<1>7. HistoryOK'
  BY <1>1 DEF HistoryOK, Late
<1>8. AcceptedCompiles'
  BY <1>1 DEF AcceptedCompiles
<1> QED BY <1>4, <1>5, <1>6, <1>7, <1>8

\* What a draft is judged by.
LEMMA DraftIs ==
    ASSUME CognitiveInv, phase = "geometry", draft # None, ~draft.judged
    PROVE  LET p == draft.program IN
           /\ IsReply(p) /\ Notes(p) /\ Len(p.notes) <= 3 * ask.repairs /\ Len(p.notes) <= 12
           /\ PinnedTo(p, plan, turn) /\ p.limit \in (Nat \ {0}) \cup {None}
           /\ turn \in Components(plan) /\ draft.reply \in Replies
           /\ p.nodes = draft.reply.nodes /\ p.construction = draft.reply.construction
<1> DEFINE p == draft.program
<1>1. DraftOK /\ ask \in Asks
  BY DraftingIs
<1>2. /\ p = Pinned(draft.reply, turn, p.notes) /\ p.notes \in Seq(Words)
      /\ draft.reply \in Replies /\ Len(p.notes) <= 3 * ask.repairs /\ turn \in ToDraft
  BY <1>1 DEF DraftOK, Attempts
<1>3. turn \in Components(plan)
  BY <1>2, DraftingIs
<1>4. plan \in Plans
  BY DEF CognitiveInv, PlanningOK
<1> HIDE DEF p
<1>5. /\ IsReply(p) /\ Notes(p) /\ PinnedTo(p, plan, turn)
      /\ p.nodes = draft.reply.nodes /\ p.construction = draft.reply.construction
  <2> DEFINE q == Pinned(draft.reply, turn, p.notes)
  <2>1. /\ IsReply(q) /\ Notes(q) /\ PinnedTo(q, plan, turn)
        /\ q.nodes = draft.reply.nodes /\ q.construction = draft.reply.construction
    BY <1>2, <1>4, PinnedIs
  <2>2. p = q
    BY <1>2
  <2> HIDE DEF q
  <2> QED BY <2>1, <2>2
<1>6. p.limit \in (Nat \ {0}) \cup {None}
  <2>1. plan.components[turn].limit \in (Nat \ {0}) \cup {None}
    BY <1>3, PlanIs, AbsentAssumption DEF IsPlan
  <2> QED BY <1>5, <2>1 DEF PinnedTo
<1>7. Len(p.notes) <= 12
  <2>1. ask.repairs \in 0 .. 4 /\ Len(p.notes) \in Nat
    BY <1>1, <1>5, BoundsAssumption DEF Asks, Notes
  <2> QED BY <1>2, <2>1
<1> QED BY <1>2, <1>3, <1>5, <1>6, <1>7 DEF p

\* A draft is accepted, refused or failed.
LEMMA JudgeProgramKeeps == ASSUME CognitiveInv, JudgeProgram PROVE CognitiveInv'
<1> DEFINE p      == draft.program
           tidy   == Tidied(p)
           lifted == NormalizeGround(tidy)
           last   == ask.repairs = MaxRepairs
           final  == Final(p, last)
<1>1. /\ phase = "geometry" /\ draft # None /\ ~draft.judged
      /\ UNCHANGED <<plan, decided, catalogue, placed, scene, built, served, revisions>>
  BY DEF JudgeProgram, planning, building
<1>2. /\ IsReply(p) /\ Notes(p) /\ Len(p.notes) <= 3 * ask.repairs /\ Len(p.notes) <= 12
      /\ PinnedTo(p, plan, turn) /\ p.limit \in (Nat \ {0}) \cup {None}
      /\ turn \in Components(plan) /\ draft.reply \in Replies
  BY <1>1, DraftIs
<1>3. \/ FailRun("GEOMETRY_INVALID") /\ UNCHANGED programs
      \/ Admitted(final) /\ AcceptProgram(final)
      \/ /\ ~last /\ draft' = [draft EXCEPT !.program = lifted, !.judged = TRUE]
         /\ UNCHANGED <<phase, ask, turn, programs, revising, fault>>
  BY DEF JudgeProgram, Final
<1>4. /\ DraftOK /\ ask \in Asks /\ turn \in ToDraft
      /\ DOMAIN draft = {"program", "reply", "judged"}
  BY <1>1, DraftingIs DEF DraftOK
<1>5. CASE FailRun("GEOMETRY_INVALID") /\ UNCHANGED programs
  BY <1>1, <1>5, FailKeeps DEF Reasons, Broken
<1>6. CASE Admitted(final) /\ AcceptProgram(final)
  <2> HIDE DEF p, last
  <2>1. Follows(final, p, 4) /\ IsReply(final) /\ Notes(final) /\ GroundKept(final)
    BY <1>2, <1>6, FinalIs
  <2>2. AcceptedFor(final, plan, turn)
    BY <1>2, <1>6, <2>1, FollowsPinned DEF AcceptedFor
  <2> HIDE DEF final
  <2>3. /\ programs' = Over([c \in {turn} |-> final], programs) /\ draft' = None /\ ask' = NoAsk
        /\ turn' = turn + 1 /\ UNCHANGED <<phase, revising, fault>>
    BY <1>6 DEF AcceptProgram
  <2> DEFINE f == [c \in {turn} |-> final]
  <2>4. DOMAIN f = {turn} /\ f[turn] = final
    OBVIOUS
  <2> HIDE DEF f
  <2>5. /\ DOMAIN programs' = {turn} \cup DOMAIN programs /\ programs'[turn] = final
        /\ \A c \in DOMAIN programs \ {turn} : programs'[c] = programs[c]
    BY <2>3, <2>4, OverIs DEF f
  <2>6. /\ Accepted(programs, plan) /\ turn \in Chosen(plan, Generated)
        /\ DOMAIN programs \subseteq Chosen(plan, Generated)
        /\ turn \in 1 .. Len(plan.components) /\ Len(plan.components) \in Nat
        /\ \A c \in Chosen(plan, Generated) : c \in Nat
    BY <1>1, <1>2, <1>4, DraftingIs, PlanIs
  <2>7. Accepted(programs', plan)
    BY <2>2, <2>5, <2>6 DEF Accepted
  <2>8. DOMAIN programs' \subseteq Chosen(plan, Generated)
    BY <2>5, <2>6
  <2>9. revising = None => DOMAIN programs' = {c \in Chosen(plan, Generated) : c < turn'}
    <3>1. SUFFICES ASSUME revising = None
                   PROVE  DOMAIN programs' = {c \in Chosen(plan, Generated) : c < turn + 1}
      BY <2>3
    <3>2. DOMAIN programs = {c \in Chosen(plan, Generated) : c < turn}
      BY <1>1, <3>1, DraftingIs
    <3>3. \A c \in Chosen(plan, Generated) : c < turn + 1 <=> c < turn \/ c = turn
      BY <2>6
    <3> QED BY <2>5, <2>6, <3>2, <3>3
  <2>10. revising # None => DOMAIN programs' = Chosen(plan, Generated)
    BY <1>1, <2>5, <2>6, DraftingIs
  <2>11. turn' \in 1 .. Len(plan.components) + 1
    BY <2>3, <2>6
  <2>12. ask' \in Asks
    BY <2>3, BoundsAssumption DEF NoAsk, Asks
  <2> QED BY <1>1, <2>3, <2>7, <2>8, <2>9, <2>10, <2>11, <2>12, GeometryKeeps
<1>7. CASE /\ ~last /\ draft' = [draft EXCEPT !.program = lifted, !.judged = TRUE]
           /\ UNCHANGED <<phase, ask, turn, programs, revising, fault>>
  <2>1. Follows(lifted, p, 3) /\ Notes(lifted)
    BY <1>2, LiftedFollows
  <2>2. /\ draft'.program = lifted /\ draft'.reply = draft.reply /\ draft'.judged = TRUE
        /\ DOMAIN draft' = {"program", "reply", "judged"}
    BY <1>4, <1>7
  <2>3. ask.repairs \in Nat /\ ask.repairs < MaxRepairs
    BY <1>4, <1>7, BoundsAssumption DEF Asks
  <2> HIDE DEF lifted, p
  <2>4. Len(lifted.notes) <= 3 * (ask.repairs + 1)
    <3>1. Len(lifted.notes) \in Nat /\ Len(p.notes) \in Nat /\ Len(lifted.notes) <= Len(p.notes) + 3
      BY <1>2, <2>1 DEF Follows, Notes
    <3>2. \A a, b, c \in Nat : b <= 3 * c /\ a <= b + 3 => a <= 3 * (c + 1)
      OBVIOUS
    <3> QED BY <1>2, <2>3, <3>1, <3>2, Zenon
  <2>5. DraftOK'
    <3>1. ToDraft' = ToDraft
      BY <1>1, <1>7 DEF ToDraft
    <3>2. (Attempts)' = ask.repairs + 1
      BY <1>7, <2>2 DEF Attempts
    <3> QED BY <1>2, <1>4, <1>7, <2>1, <2>2, <2>3, <2>4, <3>1, <3>2 DEF DraftOK, Notes
  <2> QED BY <1>1, <1>4, <1>7, <2>5, DraftingIs, GeometryKeeps
<1> QED BY <1>3, <1>5, <1>6, <1>7

-----------------------------------------------------------------------------
(* The scene.                                                              *)

\* The catalogued components are the reused and the composed ones; none is generated.
LEMMA ChosenIs ==
    ASSUME NEW p
    PROVE  /\ Catalogued(p) = Reusing(p) \cup Linking(p) /\ Reusing(p) \cap Linking(p) = {}
           /\ Catalogued(p) \cap Chosen(p, Generated) = {}
           /\ Catalogued(p) \subseteq Components(p)
           /\ Chosen(p, Exact) = Catalogued(p)
           /\ Chosen(p, {"compose"}) = Linking(p) /\ Chosen(p, {"reuse"}) = Reusing(p)
  BY DEF Catalogued, Reusing, Linking, Chosen, Exact, Generated

\* Placements are what they map, however they are written.
LEMMA StandingsSame ==
    ASSUME NEW p, NEW a, NEW b, DOMAIN a = DOMAIN b, \A c \in DOMAIN a : b[c] = a[c],
           Standings(a, p)
    PROVE  Standings(b, p)
<1>1. Reusing(p) \subseteq DOMAIN b /\ DOMAIN b \subseteq Catalogued(p)
  BY DEF Standings
<1>2. \A c \in Reusing(p) : b[c] = p.decisions[c].placement
  BY <1>1 DEF Standings
<1>3. \A c \in DOMAIN b \cap Linking(p) :
         TargetOf(p, c) \in DOMAIN b /\ b[c] = b[TargetOf(p, c)] + Driver(p, c).offset
  BY DEF Standings
<1>4. \A S \in SUBSET (DOMAIN b \cap Linking(p)) : S # {} => \E c \in S : TargetOf(p, c) \notin S
  BY DEF Standings
<1> QED BY <1>1, <1>2, <1>3, <1>4 DEF Standings

\* A required relation of a catalogued file is executable only in a composition.
LEMMA RelatedIs ==
    ASSUME NEW p, NEW files, NEW place,
           \A c \in Catalogued(p) : ReuseFaults(files, p, c, place[c]) = {}
    PROVE  Related(p)
<1>1. SUFFICES ASSUME Linking(p) = {}, NEW i \in Binding(p)
               PROVE  FALSE
  BY DEF Related
<1>2. PICK c \in Catalogued(p) : Touches(p.relations[i], p.components[c].id)
  BY ChosenIs DEF Binding
<1>3. Unresolved(p, c)
  BY <1>1, <1>2, ChosenIs DEF Unresolved, Binding
<1>4. ReuseFaults(files, p, c, place[c]) = {}
  BY <1>2
<1> QED BY <1>3, <1>4 DEF ReuseFaults

\* A compiled scene stays compiled when the catalogue changes.
LEMMA CompiledAged ==
    ASSUME NEW s, NEW p, NEW K, NEW L, CompiledOK(s, p, K), K.changes \in Nat,
           L.changes = K.changes + 1
    PROVE  CompiledOK(s, p, L)
<1>1. s.at \in Nat /\ s.at <= K.changes
  BY DEF CompiledOK
<1>2. s.at <= L.changes /\ s.at # L.changes
  BY <1>1
<1> QED BY <1>2 DEF CompiledOK

\* Where a served scene puts what it has of the catalogue.
LEMMA PlacesIs ==
    ASSUME NEW s, NEW p, NEW K, CompiledOK(s, p, K)
    PROVE  /\ DOMAIN s.exact = Catalogued(p) /\ DOMAIN Places(s) = Catalogued(p)
           /\ \A c \in Catalogued(p) : Places(s)[c] = s.exact[c].place
           /\ Standings(Places(s), p)
<1>1. s.exact = [c \in Catalogued(p) |-> s.exact[c]]
  BY DEF CompiledOK
<1>2. DOMAIN s.exact = Catalogued(p)
  BY <1>1
<1> QED BY <1>2 DEF CompiledOK, Places

\* The scene and its composition are checked.
LEMMA CheckCompositionKeeps == ASSUME CognitiveInv, CheckComposition PROVE CognitiveInv'
<1> USE DEF CognitiveInv
<1>1. /\ phase = "compose"
      /\ UNCHANGED <<plan, decided, catalogue, programs, scene, built, served, revisions>>
  BY DEF CheckComposition, planning
<1>2. CASE FailRun("SCENE_REFUSED") /\ UNCHANGED placed
  BY <1>1, <1>2, FailKeeps DEF Reasons, Broken
<1>3. CASE /\ SceneFaults(plan, programs) \cup CompositionFaults(plan) = {}
           /\ phase' = "placing"
           /\ placed' = [c \in Chosen(plan, {"reuse"}) |-> plan.decisions[c].placement]
           /\ UNCHANGED <<ask, turn, draft, revising, fault>>
  <2>1. /\ DOMAIN placed' = Reusing(plan)
        /\ \A c \in Reusing(plan) : placed'[c] = plan.decisions[c].placement
    BY <1>3, ChosenIs
  <2>2. DOMAIN placed' \subseteq Catalogued(plan) /\ DOMAIN placed' \cap Linking(plan) = {}
    BY <2>1, ChosenIs
  <2>3. Standings(placed', plan)
    BY <2>1, <2>2 DEF Standings
  <2>4. SceneFaults(plan, programs) = {} /\ Composes(plan)
    BY <1>3 DEF Composes
  <2>5. PlanningOK'
    BY <1>1, <1>3 DEF PlanningOK, Phases, Late
  <2>6. DraftingOK'
    BY <1>1, <1>3 DEF DraftingOK, Early, Late, Stages
  <2>7. SceneOK'
    BY <1>1, <1>3, <2>2, <2>3, <2>4 DEF SceneOK
  <2>8. revising \in Chosen(plan, Generated) =>
          \A c \in DOMAIN placed' : placed'[c] = served.exact[c].place
    <3>1. SUFFICES ASSUME revising \in Chosen(plan, Generated), NEW c \in Reusing(plan)
                   PROVE  plan.decisions[c].placement = served.exact[c].place
      BY <2>1
    <3>2. CompiledOK(served, plan, catalogue)
      <4>1. revising # None
        BY <3>1, PlanIs DEF Chosen
      <4> QED BY <4>1 DEF HistoryOK
    <3>3. Places(served)[c] = plan.decisions[c].placement
      BY <3>2, PlacesIs DEF Standings
    <3>4. Places(served)[c] = served.exact[c].place
      BY <3>2, PlacesIs, ChosenIs
    <3> QED BY <3>3, <3>4
  <2>9. HistoryOK'
    BY <1>1, <1>3, <2>8 DEF HistoryOK, Late
  <2>10. AcceptedCompiles'
    BY <1>3 DEF AcceptedCompiles
  <2> QED BY <2>5, <2>6, <2>7, <2>9, <2>10
<1> QED BY <1>2, <1>3 DEF CheckComposition

\* The target of a composed component.
LEMMA TargetIs ==
    ASSUME NEW c
    PROVE  Target(c) = TargetOf(plan, c)
  BY DEF Target, TargetOf

\* A wave places what is aligned with something placed.
LEMMA PlaceWaveKeeps == ASSUME CognitiveInv, PlaceWave PROVE CognitiveInv'
<1> USE DEF CognitiveInv
<1>1. /\ phase = "placing"
      /\ UNCHANGED <<plan, decided, catalogue, programs, scene, built, served, revisions>>
  BY DEF PlaceWave, planning
<1>2. CASE FailRun("COMPOSITION_CYCLE") /\ UNCHANGED placed
  BY <1>1, <1>2, FailKeeps DEF Reasons, Broken
<1> DEFINE f == [c \in Placeable |-> placed[Target(c)] + Driver(plan, c).offset]
<1>3. CASE placed' = Over(f, placed) /\ UNCHANGED <<phase, ask, turn, draft, revising, fault>>
  <2>1. DOMAIN f = Placeable
    OBVIOUS
  <2>2. \A c \in Placeable : f[c] = placed[TargetOf(plan, c)] + Driver(plan, c).offset
    BY TargetIs
  <2>3. \A c \in Placeable : /\ c \in Linking(plan) /\ c \notin DOMAIN placed
                             /\ TargetOf(plan, c) \in DOMAIN placed
    BY TargetIs, ChosenIs DEF Placeable, Pending
  <2> HIDE DEF f
  <2>4. Standings(placed, plan)
    BY <1>1 DEF SceneOK
  <2>5. /\ DOMAIN placed' = Placeable \cup DOMAIN placed
        /\ \A c \in Placeable : placed'[c] = placed[TargetOf(plan, c)] + Driver(plan, c).offset
        /\ \A c \in DOMAIN placed : placed'[c] = placed[c]
    <3> DEFINE g == Over(f, placed)
    <3>1. /\ DOMAIN g = DOMAIN f \cup DOMAIN placed /\ \A c \in DOMAIN f : g[c] = f[c]
          /\ \A c \in DOMAIN placed \ DOMAIN f : g[c] = placed[c]
      BY OverIs
    <3>2. placed' = g
      BY <1>3
    <3> HIDE DEF g
    <3> QED BY <2>1, <2>2, <2>3, <3>1, <3>2
  <2>6. DOMAIN placed' \subseteq Catalogued(plan) /\ Reusing(plan) \subseteq DOMAIN placed'
    BY <2>3, <2>4, <2>5, ChosenIs DEF Standings
  <2>7. \A c \in Reusing(plan) : placed'[c] = plan.decisions[c].placement
    BY <2>4, <2>5 DEF Standings
  <2>8. ASSUME NEW c \in DOMAIN placed' \cap Linking(plan)
        PROVE  /\ TargetOf(plan, c) \in DOMAIN placed'
               /\ placed'[c] = placed'[TargetOf(plan, c)] + Driver(plan, c).offset
    BY <2>3, <2>4, <2>5 DEF Standings
  <2>9. ASSUME NEW S \in SUBSET (DOMAIN placed' \cap Linking(plan)), S # {}
        PROVE  \E c \in S : TargetOf(plan, c) \notin S
    <3> DEFINE T == S \cap DOMAIN placed
    <3>1. CASE T # {}
      <4>1. T \in SUBSET (DOMAIN placed \cap Linking(plan))
        OBVIOUS
      <4>2. PICK c \in T : TargetOf(plan, c) \notin T
        BY <2>4, <3>1, <4>1 DEF Standings
      <4>3. TargetOf(plan, c) \in DOMAIN placed
        BY <2>4, <4>2 DEF Standings
      <4> QED BY <4>2, <4>3
    <3>2. CASE T = {}
      BY <2>3, <2>5, <2>9, <3>2
    <3> QED BY <3>1, <3>2
  <2>10. Standings(placed', plan)
    BY <2>6, <2>7, <2>8, <2>9 DEF Standings
  <2>11. PlanningOK'
    BY <1>1, <1>3 DEF PlanningOK
  <2>12. DraftingOK'
    BY <1>1, <1>3 DEF DraftingOK
  <2>13. SceneOK'
    BY <1>1, <1>3, <2>6, <2>10 DEF SceneOK
  <2>14. revising \in Chosen(plan, Generated) =>
          \A c \in DOMAIN placed' : placed'[c] = served.exact[c].place
    <3>1. SUFFICES ASSUME revising \in Chosen(plan, Generated), NEW c \in Placeable
                   PROVE  placed'[c] = served.exact[c].place
      BY <1>1, <2>5 DEF HistoryOK
    <3>2. CompiledOK(served, plan, catalogue)
      <4>1. revising # None
        BY <3>1, PlanIs DEF Chosen
      <4> QED BY <4>1 DEF HistoryOK
    <3>3. c \in Catalogued(plan) /\ c \in Linking(plan)
      BY <2>3, ChosenIs
    <3>4. Places(served)[c] = Places(served)[TargetOf(plan, c)] + Driver(plan, c).offset
      BY <3>2, <3>3, PlacesIs DEF Standings
    <3>5. placed[TargetOf(plan, c)] = served.exact[TargetOf(plan, c)].place
      BY <1>1, <2>3, <3>1 DEF HistoryOK
    <3>6. TargetOf(plan, c) \in Catalogued(plan)
      BY <2>3, <2>4 DEF Standings
    <3> QED BY <2>5, <3>2, <3>3, <3>4, <3>5, <3>6, PlacesIs
  <2>15. HistoryOK'
    BY <1>1, <1>3, <2>14 DEF HistoryOK
  <2>16. AcceptedCompiles'
    BY <1>3 DEF AcceptedCompiles
  <2> QED BY <2>11, <2>12, <2>13, <2>15, <2>16
<1> QED BY <1>2, <1>3 DEF PlaceWave

\* With nothing pending every catalogued component is placed.
LEMMA AllPlaced ==
    ASSUME Standings(placed, plan), Pending = {}
    PROVE  DOMAIN placed = Catalogued(plan)
  BY ChosenIs DEF Standings, Pending

\* The scene is compiled.
LEMMA CompileSceneKeeps == ASSUME CognitiveInv, CompileScene PROVE CognitiveInv'
<1> USE DEF CognitiveInv
<1>1. /\ phase = "placing" /\ Pending = {}
      /\ UNCHANGED <<plan, decided, catalogue, programs, placed, served, revisions>>
  BY DEF CompileScene, planning
<1>2. CASE (FailRun("SCENE_REFUSED") \/ FailRun("DIFFERS")) /\ UNCHANGED <<scene, built>>
  BY <1>1, <1>2, FailKeeps DEF Reasons, Broken
<1>3. CASE /\ ~\E c \in Catalogued(plan) : ReuseFaults(catalogue.files, plan, c, placed[c]) # {}
           /\ scene' = [programs |-> programs, exact |-> Compiled, at |-> catalogue.changes]
           /\ built' = <<>>
           /\ phase' = "worker"
           /\ UNCHANGED <<ask, turn, draft, revising, fault>>
  <2>1. /\ Standings(placed, plan) /\ SceneFaults(plan, programs) = {} /\ Composes(plan)
        /\ GraphOK(plan) /\ ~plan.clarify /\ catalogue.changes \in Nat
        /\ DOMAIN programs = Chosen(plan, Generated) /\ Accepted(programs, plan)
    BY <1>1 DEF SceneOK, PlanningOK, DraftingOK, Late
  <2>2. DOMAIN placed = Catalogued(plan)
    BY <1>1, <2>1, AllPlaced
  <2>3. /\ scene'.programs = programs /\ scene'.exact = Compiled
        /\ scene'.at = catalogue.changes
    BY <1>3
  <2>4. /\ Compiled = [c \in Catalogued(plan) |-> Compiled[c]]
        /\ \A c \in Catalogued(plan) :
              /\ Compiled[c] = ExactProgram(catalogue.files, plan, c, placed[c])
              /\ Compiled[c].place = placed[c]
    BY DEF Compiled, ExactProgram
  <2>5. Related(plan)
    BY <1>3, RelatedIs
  <2>6. Standings(Places(scene'), plan)
    <3>1. DOMAIN Places(scene') = DOMAIN placed
      BY <2>2, <2>3, <2>4 DEF Places
    <3>2. \A c \in DOMAIN placed : Places(scene')[c] = placed[c]
      BY <2>2, <2>3, <2>4 DEF Places
    <3> QED BY <2>1, <3>1, <3>2, StandingsSame
  <2>7. Current(scene', plan, catalogue.files)
    BY <1>3, <2>3, <2>4 DEF Current
  <2>8. CompiledOK(scene', plan, catalogue)
    BY <2>1, <2>3, <2>4, <2>5, <2>6, <2>7 DEF CompiledOK
  <2>9. PlanningOK'
    BY <1>1, <1>3 DEF PlanningOK, Phases, Late
  <2>10. DraftingOK'
    BY <1>1, <1>3 DEF DraftingOK, Early, Late, Stages
  <2>11. SceneOK'
    <3>1. BuiltOK(scene', built')
      BY <1>3 DEF BuiltOK
    <3> QED BY <1>1, <1>3, <2>2, <2>8, <3>1 DEF SceneOK
  <2>12. HistoryOK'
    BY <1>1, <1>3 DEF HistoryOK, Late
  <2>13. AcceptedCompiles'
    BY <1>3 DEF AcceptedCompiles
  <2> QED BY <2>9, <2>10, <2>11, <2>12, <2>13
<1> QED BY <1>2, <1>3 DEF CompileScene
-----------------------------------------------------------------------------
(* The surfaces of swept solids.                                           *)

\* The next one of m around, the vertices of n points on a ring, and a face between ring a and
\* the next of r.
Around(m, i)     == (i + 1) % m
Vertex(n, a, j)  == a * n + j
Quad(n, r, a, j) ==
    <<Vertex(n, a, j), Vertex(n, Around(r, a), j),
      Vertex(n, Around(r, a), Around(n, j)), Vertex(n, a, Around(n, j))>>

\* A face has an edge between two vertices, either way.
Touching(f, u, w) == <<u, w>> \in Edges(f) \/ <<w, u>> \in Edges(f)

\* A vertex is on one ring, at one place.
LEMMA VertexIs ==
    ASSUME NEW n \in Nat \ {0}, NEW a \in Nat, NEW b \in Nat,
           NEW i \in 0 .. n - 1, NEW j \in 0 .. n - 1, Vertex(n, a, i) = Vertex(n, b, j)
    PROVE  a = b /\ i = j
<1>1. a * n + i = b * n + j
  BY DEF Vertex
<1>2. ~(a < b)
  <2>1. SUFFICES ASSUME a < b PROVE FALSE
    OBVIOUS
  <2>2. (a + 1) * n <= b * n
    BY <2>1, Z3
  <2>3. (a + 1) * n = a * n + n
    BY Z3
  <2>4. a * n \in Int /\ b * n \in Int
    OBVIOUS
  <2> QED BY <1>1, <2>2, <2>3, <2>4
<1>3. ~(b < a)
  <2>1. SUFFICES ASSUME b < a PROVE FALSE
    OBVIOUS
  <2>2. (b + 1) * n <= a * n
    BY <2>1, Z3
  <2>3. (b + 1) * n = b * n + n
    BY Z3
  <2>4. a * n \in Int /\ b * n \in Int
    OBVIOUS
  <2> QED BY <1>1, <2>2, <2>3, <2>4
<1>4. a = b
  BY <1>2, <1>3
<1>5. a * n \in Int
  OBVIOUS
<1> QED BY <1>1, <1>4, <1>5

\* Around m places one comes to each place once, and not back at once.
LEMMA AroundIs ==
    ASSUME NEW m \in Nat, m >= 2, NEW i \in 0 .. m - 1
    PROVE  /\ Around(m, i) \in 0 .. m - 1 /\ Around(m, i) # i
           /\ Around(m, i) = IF i = m - 1 THEN 0 ELSE i + 1
<1>1. CASE i = m - 1
  <2>1. (i + 1) % m = 0
    BY <1>1
  <2> QED BY <1>1, <2>1 DEF Around
<1>2. CASE i # m - 1
  <2>1. (i + 1) % m = i + 1
    BY <1>2
  <2> QED BY <1>2, <2>1 DEF Around
<1> QED BY <1>1, <1>2

\* No two points of a ring come before the same one.
LEMMA AroundOnce ==
    ASSUME NEW m \in Nat, m >= 2, NEW i \in 0 .. m - 1, NEW j \in 0 .. m - 1,
           Around(m, i) = Around(m, j)
    PROVE  i = j
  BY AroundIs

\* Two steps around three points or more do not come back.
LEMMA AroundTwice ==
    ASSUME NEW m \in Nat, m >= 3, NEW i \in 0 .. m - 1
    PROVE  Around(m, Around(m, i)) # i
<1>1. Around(m, i) \in 0 .. m - 1 /\ Around(m, i) = IF i = m - 1 THEN 0 ELSE i + 1
  BY AroundIs
<1> DEFINE k == Around(m, i)
<1>2. Around(m, k) = IF k = m - 1 THEN 0 ELSE k + 1
  BY <1>1, AroundIs
<1> QED BY <1>1, <1>2

\* Every point of a ring comes after one.
LEMMA AroundBack ==
    ASSUME NEW m \in Nat, m >= 2, NEW i \in 0 .. m - 1
    PROVE  \E k \in 0 .. m - 1 : Around(m, k) = i
<1> DEFINE k == IF i = 0 THEN m - 1 ELSE i - 1
<1>1. k \in 0 .. m - 1
  OBVIOUS
<1>2. Around(m, k) = i
  BY <1>1, AroundIs
<1> QED BY <1>1, <1>2

\* The edges of a face of four vertices.
LEMMA QuadEdges ==
    ASSUME NEW p, NEW q, NEW r, NEW s
    PROVE  Edges(<<p, q, r, s>>) = {<<p, q>>, <<q, r>>, <<r, s>>, <<s, p>>}
<1> DEFINE f == <<p, q, r, s>>
           g(i) == <<f[i], f[(i % Len(f)) + 1]>>
<1>1. Len(f) = 4 /\ DOMAIN f = {1, 2, 3, 4}
  OBVIOUS
<1>2. g(1) = <<p, q>> /\ g(2) = <<q, r>> /\ g(3) = <<r, s>> /\ g(4) = <<s, p>>
  <2>1. 1 % 4 = 1 /\ 2 % 4 = 2 /\ 3 % 4 = 3 /\ 4 % 4 = 0
    OBVIOUS
  <2> QED BY <1>1, <2>1
<1>3. Edges(f) = {g(i) : i \in {1, 2, 3, 4}}
  BY <1>1 DEF Edges
<1> HIDE DEF g, f
<1> QED BY <1>2, <1>3 DEF f

\* Two faces and no other at an edge.
LEMMA TwoSided ==
    ASSUME NEW F, NEW u, NEW w, NEW f \in F, NEW g \in F, f # g,
           \A h \in F : Touching(h, u, w) <=> h = f \/ h = g
    PROVE  Cardinality(Sharing(F, <<u, w>>)) = 2 /\ Cardinality(Sharing(F, <<w, u>>)) = 2
<1>1. Sharing(F, <<u, w>>) = {f, g} /\ Sharing(F, <<w, u>>) = {f, g}
  BY DEF Sharing, Touching
<1>2. Cardinality({f, g}) = 2
  <2>1. IsFiniteSet({f}) /\ Cardinality({f}) = 1
    BY FS_Singleton
  <2>2. {f, g} = {f} \cup {g} /\ g \notin {f}
    OBVIOUS
  <2>3. Cardinality({f} \cup {g}) = Cardinality({f}) + 1
    BY <2>1, <2>2, FS_AddElement
  <2> QED BY <2>1, <2>2, <2>3
<1> QED BY <1>1, <1>2

Meets(p, q, u, w) == (u = p /\ w = q) \/ (w = p /\ u = q)
QuadMeets(p, q, r, s, u, w) ==
    Meets(p, q, u, w) \/ Meets(q, r, u, w) \/ Meets(r, s, u, w) \/ Meets(s, p, u, w)

\* The sides of a quad.
LEMMA QuadTouches ==
    ASSUME NEW p, NEW q, NEW r, NEW s, NEW u, NEW w
    PROVE  Touching(<<p, q, r, s>>, u, w) = QuadMeets(p, q, r, s, u, w)
<1>1. Edges(<<p, q, r, s>>) = {<<p, q>>, <<q, r>>, <<r, s>>, <<s, p>>}
  BY QuadEdges
<1> DEFINE E == Edges(<<p, q, r, s>>)
<1>2. ASSUME NEW x, NEW y
      PROVE  <<x, y>> \in E <=>
               (x = p /\ y = q) \/ (x = q /\ y = r) \/ (x = r /\ y = s) \/ (x = s /\ y = p)
  <2>1. \A c, d : <<x, y>> = <<c, d>> <=> x = c /\ y = d
    OBVIOUS
  <2>2. <<x, y>> \in E <=> \/ <<x, y>> = <<p, q>> \/ <<x, y>> = <<q, r>>
                          \/ <<x, y>> = <<r, s>> \/ <<x, y>> = <<s, p>>
    BY <1>1
  <2> QED BY <2>1, <2>2
<1> HIDE DEF E
<1>3. Touching(<<p, q, r, s>>, u, w) <=> <<u, w>> \in E \/ <<w, u>> \in E
  BY DEF Touching, E
<1>4. Touching(<<p, q, r, s>>, u, w) \in BOOLEAN /\ QuadMeets(p, q, r, s, u, w) \in BOOLEAN
  BY DEF Touching, QuadMeets
<1>5. Touching(<<p, q, r, s>>, u, w) <=> QuadMeets(p, q, r, s, u, w)
  BY <1>2, <1>3 DEF QuadMeets, Meets
<1> QED BY <1>4, <1>5

\* Vertices are numbered apart.
LEMMA VerticesIs ==
    ASSUME NEW n \in Nat, n >= 3, NEW r \in Nat, r >= 2
    PROVE  \A a, b \in 0 .. r - 1 : \A i, j \in 0 .. n - 1 :
              Vertex(n, a, i) = Vertex(n, b, j) => a = b /\ i = j
<1> SUFFICES ASSUME NEW a \in 0 .. r - 1, NEW b \in 0 .. r - 1,
                    NEW i \in 0 .. n - 1, NEW j \in 0 .. n - 1, Vertex(n, a, i) = Vertex(n, b, j)
             PROVE  a = b /\ i = j
  OBVIOUS
<1> QED BY VertexIs

\* The faces of a band at an edge along it, and at an edge of its rings.
LEMMA AlongIs ==
    ASSUME NEW n \in Nat, n >= 3, NEW r \in Nat, r >= 2, NEW a \in 0 .. r - 1,
           NEW b \in 0 .. r - 1, NEW j \in 0 .. n - 1, NEW k \in 0 .. n - 1,
           ~(Around(r, a) = b /\ Around(r, b) = a)
    PROVE  Touching(Quad(n, r, b, k), Vertex(n, a, j), Vertex(n, Around(r, a), j)) <=>
             b = a /\ (k = j \/ Around(n, k) = j)
<1> DEFINE V(x, y) == Vertex(n, x, y)
           A == Around(r, a)
           B == Around(r, b)
           K == Around(n, k)
<1>1. /\ A \in 0 .. r - 1 /\ B \in 0 .. r - 1 /\ K \in 0 .. n - 1
      /\ A # a /\ B # b /\ K # k /\ ~(A = b /\ B = a)
  BY AroundIs
<1>2. \A c, d \in 0 .. r - 1 : \A x, y \in 0 .. n - 1 : V(c, x) = V(d, y) => c = d /\ x = y
  BY VerticesIs
<1>3. Quad(n, r, b, k) = <<V(b, k), V(B, k), V(B, K), V(b, K)>>
  BY DEF Quad
<1>4. b = a => B = A
  OBVIOUS
<1> HIDE DEF V, A, B, K
<1>5. Touching(<<V(b, k), V(B, k), V(B, K), V(b, K)>>, V(a, j), V(A, j))
        = QuadMeets(V(b, k), V(B, k), V(B, K), V(b, K), V(a, j), V(A, j))
  BY QuadTouches, Zenon
<1>7. /\ (V(a, j) = V(b, k) <=> a = b /\ j = k)
      /\ (V(a, j) = V(B, k) <=> a = B /\ j = k)
      /\ (V(a, j) = V(B, K) <=> a = B /\ j = K)
      /\ (V(a, j) = V(b, K) <=> a = b /\ j = K)
      /\ (V(A, j) = V(b, k) <=> A = b /\ j = k)
      /\ (V(A, j) = V(B, k) <=> A = B /\ j = k)
      /\ (V(A, j) = V(B, K) <=> A = B /\ j = K)
      /\ (V(A, j) = V(b, K) <=> A = b /\ j = K)
  BY <1>1, <1>2
<1>6. Touching(Quad(n, r, b, k), V(a, j), V(A, j)) <=> b = a /\ (k = j \/ K = j)
  <2> DEFINE M == QuadMeets(V(b, k), V(B, k), V(B, K), V(b, K), V(a, j), V(A, j))
  <2>1. M <=> b = a /\ (k = j \/ K = j)
    BY <1>1, <1>4, <1>7 DEF QuadMeets, Meets
  <2> HIDE DEF M
  <2> QED BY <1>3, <1>5, <2>1 DEF M
<1> QED BY <1>6 DEF V, A, B, K

\* A quad has a side around a ring only where the ring is one of its two.
LEMMA RoundIs ==
    ASSUME NEW n \in Nat, n >= 3, NEW r \in Nat, r >= 2, NEW a \in 0 .. r - 1,
           NEW b \in 0 .. r - 1, NEW j \in 0 .. n - 1, NEW k \in 0 .. n - 1
    PROVE  Touching(Quad(n, r, b, k), Vertex(n, a, j), Vertex(n, a, Around(n, j))) <=>
             k = j /\ (b = a \/ Around(r, b) = a)
<1> DEFINE V(x, y) == Vertex(n, x, y)
           B == Around(r, b)
           J == Around(n, j)
           K == Around(n, k)
<1>1. /\ J \in 0 .. n - 1 /\ B \in 0 .. r - 1 /\ K \in 0 .. n - 1
      /\ J # j /\ B # b /\ K # k
      /\ (k = j => K = J) /\ ~(K = j /\ k = J)
  BY AroundIs, AroundTwice
<1>2. \A c, d \in 0 .. r - 1 : \A x, y \in 0 .. n - 1 : V(c, x) = V(d, y) => c = d /\ x = y
  BY VerticesIs
<1>3. Quad(n, r, b, k) = <<V(b, k), V(B, k), V(B, K), V(b, K)>>
  BY DEF Quad
<1> HIDE DEF V, B, J, K
<1>5. Touching(<<V(b, k), V(B, k), V(B, K), V(b, K)>>, V(a, j), V(a, J))
        = QuadMeets(V(b, k), V(B, k), V(B, K), V(b, K), V(a, j), V(a, J))
  BY QuadTouches, Zenon
<1>7. /\ (V(a, j) = V(b, k) <=> a = b /\ j = k)
      /\ (V(a, j) = V(B, k) <=> a = B /\ j = k)
      /\ (V(a, j) = V(B, K) <=> a = B /\ j = K)
      /\ (V(a, j) = V(b, K) <=> a = b /\ j = K)
      /\ (V(a, J) = V(b, k) <=> a = b /\ J = k)
      /\ (V(a, J) = V(B, k) <=> a = B /\ J = k)
      /\ (V(a, J) = V(B, K) <=> a = B /\ J = K)
      /\ (V(a, J) = V(b, K) <=> a = b /\ J = K)
  BY <1>1, <1>2
<1>6. Touching(Quad(n, r, b, k), V(a, j), V(a, J)) <=> k = j /\ (b = a \/ B = a)
  <2> DEFINE M == QuadMeets(V(b, k), V(B, k), V(B, K), V(b, K), V(a, j), V(a, J))
  <2>1. M <=> k = j /\ (b = a \/ B = a)
    BY <1>1, <1>7 DEF QuadMeets, Meets
  <2> HIDE DEF M
  <2> QED BY <1>3, <1>5, <2>1 DEF M
<1> QED BY <1>6 DEF V, B, J, K

\* A face written for a place of a band, and a face that closes a ring.
Bandlike(f, n, r, b, k) == \A u, w : Touching(f, u, w) <=> Touching(Quad(n, r, b, k), u, w)
Caplike(f, n, c) ==
    \A u, w : Touching(f, u, w) <=>
       \E k \in 0 .. n - 1 : Meets(Vertex(n, c, k), Vertex(n, c, Around(n, k)), u, w)

\* A surface of r rings of n points: a face for each place of the bands of B, and one for each
\* ring of C.  Every ring ends two of these, and no two bands meet twice.
Sewn(F, n, r, B, C, G, H) ==
    /\ n \in Nat /\ n >= 3 /\ r \in Nat /\ r >= 2
    /\ B \subseteq 0 .. r - 1 /\ C \subseteq 0 .. r - 1
    /\ \A f \in F : \/ \E b \in B : \E k \in 0 .. n - 1 : f = G[<<b, k>>]
                    \/ \E c \in C : f = H[c]
    /\ \A b \in B : \A k \in 0 .. n - 1 : G[<<b, k>>] \in F /\ Bandlike(G[<<b, k>>], n, r, b, k)
    /\ \A c \in C : H[c] \in F /\ Caplike(H[c], n, c)
    /\ \A a, b \in B : ~(Around(r, a) = b /\ Around(r, b) = a)
    /\ \A a \in 0 .. r - 1 : LET c == Around(r, a) IN
          \/ a \in B /\ c \in B /\ c \notin C
          \/ a \in B /\ c \notin B /\ c \in C
          \/ a \notin B /\ c \in B /\ c \in C

TwoAt(F, u, w) == Cardinality(Sharing(F, <<u, w>>)) = 2 /\ Cardinality(Sharing(F, <<w, u>>)) = 2

\* What has an edge along band a, and an edge of ring a.
AlongHere(n, r, B, C, G, H, a, j) ==
    /\ \A b \in B : \A k \in 0 .. n - 1 :
          Touching(G[<<b, k>>], Vertex(n, a, j), Vertex(n, Around(r, a), j)) <=>
             b = a /\ (k = j \/ Around(n, k) = j)
    /\ \A c \in C : ~Touching(H[c], Vertex(n, a, j), Vertex(n, Around(r, a), j))
RoundHere(n, r, B, C, G, H, a, j) ==
    /\ \A b \in B : \A k \in 0 .. n - 1 :
          Touching(G[<<b, k>>], Vertex(n, a, j), Vertex(n, a, Around(n, j))) <=>
             k = j /\ (b = a \/ Around(r, b) = a)
    /\ \A c \in C : Touching(H[c], Vertex(n, a, j), Vertex(n, a, Around(n, j))) <=> c = a

\* The faces at a side that runs from ring to ring.
LEMMA AtAlong ==
    ASSUME NEW F, NEW n, NEW r, NEW B, NEW C, NEW G, NEW H, Sewn(F, n, r, B, C, G, H),
           NEW a \in B, NEW j \in 0 .. n - 1
    PROVE  AlongHere(n, r, B, C, G, H, a, j)
<1> DEFINE u == Vertex(n, a, j)
           w == Vertex(n, Around(r, a), j)
<1>1. n \in Nat /\ n >= 3 /\ r \in Nat /\ r >= 2 /\ a \in 0 .. r - 1
  BY DEF Sewn
<1>2. ASSUME NEW b \in B, NEW k \in 0 .. n - 1
      PROVE  Touching(G[<<b, k>>], u, w) <=> b = a /\ (k = j \/ Around(n, k) = j)
  <2>1. /\ b \in 0 .. r - 1 /\ ~(Around(r, a) = b /\ Around(r, b) = a)
        /\ Bandlike(G[<<b, k>>], n, r, b, k)
    BY DEF Sewn
  <2>2. Touching(Quad(n, r, b, k), u, w) <=> b = a /\ (k = j \/ Around(n, k) = j)
    BY <1>1, <2>1, AlongIs
  <2> QED BY <2>1, <2>2 DEF Bandlike
<1>3. ASSUME NEW c \in C, Touching(H[c], u, w)
      PROVE  FALSE
  <2>1. c \in 0 .. r - 1 /\ Caplike(H[c], n, c)
    BY DEF Sewn
  <2>2. PICK k \in 0 .. n - 1 : Meets(Vertex(n, c, k), Vertex(n, c, Around(n, k)), u, w)
    BY <1>3, <2>1 DEF Caplike
  <2>3. Around(n, k) \in 0 .. n - 1 /\ Around(r, a) \in 0 .. r - 1 /\ Around(r, a) # a
    BY <1>1, AroundIs
  <2>4. \A x, y \in 0 .. r - 1 : \A i, l \in 0 .. n - 1 :
           Vertex(n, x, i) = Vertex(n, y, l) => x = y /\ i = l
    BY <1>1, VerticesIs
  <2>5. \E i, l \in 0 .. n - 1 : u = Vertex(n, c, i) /\ w = Vertex(n, c, l)
    BY <2>2, <2>3 DEF Meets
  <2>6. a = c /\ Around(r, a) = c
    BY <1>1, <2>1, <2>3, <2>4, <2>5
  <2> QED BY <2>3, <2>6
<1> QED BY <1>2, <1>3 DEF AlongHere

\* The faces at a side of a ring.
LEMMA AtRound ==
    ASSUME NEW F, NEW n, NEW r, NEW B, NEW C, NEW G, NEW H, Sewn(F, n, r, B, C, G, H),
           NEW a \in 0 .. r - 1, NEW j \in 0 .. n - 1
    PROVE  RoundHere(n, r, B, C, G, H, a, j)
<1> DEFINE u == Vertex(n, a, j)
           w == Vertex(n, a, Around(n, j))
<1>1. n \in Nat /\ n >= 3 /\ r \in Nat /\ r >= 2
  BY DEF Sewn
<1>2. ASSUME NEW b \in B, NEW k \in 0 .. n - 1
      PROVE  Touching(G[<<b, k>>], u, w) <=> k = j /\ (b = a \/ Around(r, b) = a)
  <2>1. b \in 0 .. r - 1 /\ Bandlike(G[<<b, k>>], n, r, b, k)
    BY DEF Sewn
  <2>2. Touching(Quad(n, r, b, k), u, w) <=> k = j /\ (b = a \/ Around(r, b) = a)
    BY <1>1, <2>1, RoundIs
  <2> QED BY <2>1, <2>2 DEF Bandlike
<1>3. ASSUME NEW c \in C
      PROVE  Touching(H[c], u, w) <=> c = a
  <2>1. c \in 0 .. r - 1 /\ Caplike(H[c], n, c)
    BY DEF Sewn
  <2>2. CASE c = a
    <3>1. Meets(Vertex(n, c, j), Vertex(n, c, Around(n, j)), u, w)
      BY <2>2 DEF Meets
    <3> QED BY <2>1, <2>2, <3>1 DEF Caplike
  <2>3. CASE Touching(H[c], u, w)
    <3>1. PICK k \in 0 .. n - 1 : Meets(Vertex(n, c, k), Vertex(n, c, Around(n, k)), u, w)
      BY <2>1, <2>3 DEF Caplike
    <3>2. Around(n, k) \in 0 .. n - 1
      BY <1>1, AroundIs
    <3>3. \A x, y \in 0 .. r - 1 : \A i, l \in 0 .. n - 1 :
             Vertex(n, x, i) = Vertex(n, y, l) => x = y /\ i = l
      BY <1>1, VerticesIs
    <3>4. \E i \in 0 .. n - 1 : u = Vertex(n, c, i)
      BY <3>1, <3>2 DEF Meets
    <3>5. c = a
      BY <2>1, <3>3, <3>4
    <3> QED BY <2>3, <3>5
  <2> QED BY <2>2, <2>3
<1> QED BY <1>2, <1>3 DEF RoundHere

\* A side from ring to ring has two faces.
LEMMA SewnAlong ==
    ASSUME NEW F, NEW n, NEW r, NEW B, NEW C, NEW G, NEW H, Sewn(F, n, r, B, C, G, H),
           NEW a \in B, NEW j \in 0 .. n - 1
    PROVE  TwoAt(F, Vertex(n, a, j), Vertex(n, Around(r, a), j))
<1> DEFINE u == Vertex(n, a, j)
           w == Vertex(n, Around(r, a), j)
<1>1. n \in Nat /\ n >= 3 /\ r \in Nat /\ r >= 2 /\ a \in 0 .. r - 1
  BY DEF Sewn
<1>2. /\ \A b \in B : \A k \in 0 .. n - 1 :
           Touching(G[<<b, k>>], u, w) <=> b = a /\ (k = j \/ Around(n, k) = j)
      /\ \A c \in C : ~Touching(H[c], u, w)
  <2>1. AlongHere(n, r, B, C, G, H, a, j)
    BY AtAlong, Zenon
  <2> QED BY <2>1 DEF AlongHere
<1>3. PICK i \in 0 .. n - 1 : Around(n, i) = j
  BY <1>1, AroundBack
<1>4. i # j
  BY <1>1, <1>3, AroundIs
<1> DEFINE f == G[<<a, j>>]
           g == G[<<a, i>>]
<1>5. f \in F /\ g \in F
  BY DEF Sewn
<1>6. f # g
  <2> DEFINE x == Vertex(n, a, Around(n, j))
  <2>1. \A b \in B : \A k \in 0 .. n - 1 :
           Touching(G[<<b, k>>], u, x) <=> k = j /\ (b = a \/ Around(r, b) = a)
    <3>1. RoundHere(n, r, B, C, G, H, a, j)
      BY <1>1, AtRound, Zenon
    <3> QED BY <3>1 DEF RoundHere
  <2>2. Touching(f, u, x) /\ ~Touching(g, u, x)
    BY <1>4, <2>1
  <2> QED BY <2>2
<1>7. ASSUME NEW h \in F PROVE Touching(h, u, w) <=> h = f \/ h = g
  <2>1. Touching(f, u, w) /\ Touching(g, u, w)
    BY <1>2, <1>3
  <2>2. ASSUME Touching(h, u, w) PROVE h = f \/ h = g
    <3>1. PICK b \in B, k \in 0 .. n - 1 : h = G[<<b, k>>]
      BY <1>2, <2>2 DEF Sewn
    <3>2. b = a /\ (k = j \/ Around(n, k) = j)
      BY <1>2, <2>2, <3>1
    <3>3. Around(n, k) = j => k = i
      BY <1>1, <1>3, AroundOnce
    <3> QED BY <3>1, <3>2, <3>3
  <2> QED BY <2>1, <2>2
<1> HIDE DEF u, w, f, g
<1> QED BY <1>5, <1>6, <1>7, TwoSided DEF TwoAt, u, w

\* A side of a ring has two faces.
LEMMA SewnRound ==
    ASSUME NEW F, NEW n, NEW r, NEW B, NEW C, NEW G, NEW H, Sewn(F, n, r, B, C, G, H),
           NEW c \in 0 .. r - 1, NEW j \in 0 .. n - 1
    PROVE  TwoAt(F, Vertex(n, c, j), Vertex(n, c, Around(n, j)))
<1> DEFINE u == Vertex(n, c, j)
           w == Vertex(n, c, Around(n, j))
<1>1. n \in Nat /\ n >= 3 /\ r \in Nat /\ r >= 2
  BY DEF Sewn
<1>2. /\ \A b \in B : \A k \in 0 .. n - 1 :
           Touching(G[<<b, k>>], u, w) <=> k = j /\ (b = c \/ Around(r, b) = c)
      /\ \A d \in C : Touching(H[d], u, w) <=> d = c
  <2>1. RoundHere(n, r, B, C, G, H, c, j)
    BY AtRound, Zenon
  <2> QED BY <2>1 DEF RoundHere
<1>3. PICK a \in 0 .. r - 1 : Around(r, a) = c
  BY <1>1, AroundBack
<1>4. a # c /\ \A b \in B : Around(r, b) = c => b = a
  <2>1. \A b \in B : b \in 0 .. r - 1
    BY DEF Sewn
  <2> QED BY <1>1, <1>3, <2>1, AroundIs, AroundOnce
<1>5. \A h \in F : Touching(h, u, w) =>
         \/ c \in B /\ h = G[<<c, j>>]
         \/ a \in B /\ h = G[<<a, j>>]
         \/ c \in C /\ h = H[c]
  <2> SUFFICES ASSUME NEW h \in F, Touching(h, u, w)
               PROVE  \/ c \in B /\ h = G[<<c, j>>]
                      \/ a \in B /\ h = G[<<a, j>>]
                      \/ c \in C /\ h = H[c]
    OBVIOUS
  <2>1. CASE \E b \in B : \E k \in 0 .. n - 1 : h = G[<<b, k>>]
    <3>1. PICK b \in B, k \in 0 .. n - 1 : h = G[<<b, k>>]
      BY <2>1
    <3>2. k = j /\ (b = c \/ Around(r, b) = c)
      BY <1>2, <3>1
    <3> QED BY <1>4, <3>1, <3>2
  <2>2. CASE \E d \in C : h = H[d]
    BY <1>2, <2>2
  <2> QED BY <2>1, <2>2 DEF Sewn
<1>6. /\ c \in B => G[<<c, j>>] \in F /\ Touching(G[<<c, j>>], u, w)
      /\ a \in B => G[<<a, j>>] \in F /\ Touching(G[<<a, j>>], u, w)
      /\ c \in C => H[c] \in F /\ Touching(H[c], u, w)
  BY <1>2, <1>3 DEF Sewn
<1>7. /\ a \in B /\ c \in B => G[<<a, j>>] # G[<<c, j>>]
      /\ a \in B /\ c \in C => G[<<a, j>>] # H[c]
      /\ c \in B /\ c \in C => G[<<c, j>>] # H[c]
  <2>1. ASSUME NEW b \in B
        PROVE  /\ \A d \in B : d # b => G[<<d, j>>] # G[<<b, j>>]
               /\ \A d \in C : H[d] # G[<<b, j>>]
    <3> DEFINE x == Vertex(n, b, j)
               y == Vertex(n, Around(r, b), j)
    <3>1. /\ \A d \in B : \A k \in 0 .. n - 1 :
               Touching(G[<<d, k>>], x, y) <=> d = b /\ (k = j \/ Around(n, k) = j)
          /\ \A d \in C : ~Touching(H[d], x, y)
      <4>1. AlongHere(n, r, B, C, G, H, b, j)
        BY AtAlong, Zenon
      <4> QED BY <4>1 DEF AlongHere
    <3>2. Touching(G[<<b, j>>], x, y)
      BY <3>1
    <3> QED BY <3>1, <3>2
  <2> QED BY <1>4, <2>1
<1>8. \/ a \in B /\ c \in B /\ c \notin C
      \/ a \in B /\ c \notin B /\ c \in C
      \/ a \notin B /\ c \in B /\ c \in C
  BY <1>3 DEF Sewn
<1> HIDE DEF u, w
<1>9. ASSUME NEW f \in F, NEW g \in F, f # g, Touching(f, u, w), Touching(g, u, w),
             \A h \in F : Touching(h, u, w) => h = f \/ h = g
      PROVE  TwoAt(F, u, w)
  <2>1. \A h \in F : Touching(h, u, w) <=> h = f \/ h = g
    BY <1>9
  <2>2. Cardinality(Sharing(F, <<u, w>>)) = 2 /\ Cardinality(Sharing(F, <<w, u>>)) = 2
    BY <1>9, <2>1, TwoSided
  <2> QED BY <2>2 DEF TwoAt
<1>10. ASSUME a \in B /\ c \in B /\ c \notin C PROVE TwoAt(F, u, w)
  BY <1>5, <1>6, <1>7, <1>9, <1>10
<1>11. ASSUME a \in B /\ c \notin B /\ c \in C PROVE TwoAt(F, u, w)
  BY <1>5, <1>6, <1>7, <1>9, <1>11
<1>12. ASSUME a \notin B /\ c \in B /\ c \in C PROVE TwoAt(F, u, w)
  BY <1>5, <1>6, <1>7, <1>9, <1>12
<1>13. TwoAt(F, u, w)
  BY <1>8, <1>10, <1>11, <1>12
<1> QED BY <1>13 DEF u, w

\* A sewn surface has no border.
LEMMA SewnIsClosed ==
    ASSUME NEW F, NEW n, NEW r, NEW B, NEW C, NEW G, NEW H, Sewn(F, n, r, B, C, G, H)
    PROVE  Watertight(F)
<1>1. n \in Nat /\ n >= 3 /\ r \in Nat /\ r >= 2 /\ B \subseteq 0 .. r - 1 /\ C \subseteq 0 .. r - 1
  BY DEF Sewn
<1>2. SUFFICES ASSUME NEW f \in F, NEW e \in Edges(f)
               PROVE  Cardinality(Sharing(F, e)) = 2
  BY DEF Watertight
<1>3. PICK u, w : e = <<u, w>>
  BY DEF Edges
<1>4. Touching(f, u, w)
  BY <1>3 DEF Touching
<1>5. ASSUME NEW x, NEW y, TwoAt(F, x, y), Meets(x, y, u, w) \/ Meets(y, x, u, w)
      PROVE  Cardinality(Sharing(F, e)) = 2
  BY <1>3, <1>5 DEF TwoAt, Meets
<1>6. ASSUME NEW b \in B, NEW k \in 0 .. n - 1, f = G[<<b, k>>]
      PROVE  Cardinality(Sharing(F, e)) = 2
  <2> DEFINE A == Around(r, b)
             K == Around(n, k)
  <2>1. A \in 0 .. r - 1 /\ K \in 0 .. n - 1
    BY <1>1, AroundIs
  <2>2. Touching(Quad(n, r, b, k), u, w)
    BY <1>4, <1>6 DEF Sewn, Bandlike
  <2>3. QuadMeets(Vertex(n, b, k), Vertex(n, A, k), Vertex(n, A, K), Vertex(n, b, K), u, w)
    BY <2>2, QuadTouches DEF Quad
  <2>4. /\ TwoAt(F, Vertex(n, b, k), Vertex(n, A, k)) /\ TwoAt(F, Vertex(n, b, K), Vertex(n, A, K))
    BY <2>1, SewnAlong
  <2>5. /\ TwoAt(F, Vertex(n, A, k), Vertex(n, A, K)) /\ TwoAt(F, Vertex(n, b, k), Vertex(n, b, K))
    BY <1>1, <2>1, SewnRound
  <2> HIDE DEF A, K
  <2> QED BY <1>5, <2>3, <2>4, <2>5 DEF QuadMeets
<1>7. ASSUME NEW c \in C, f = H[c]
      PROVE  Cardinality(Sharing(F, e)) = 2
  <2>1. PICK k \in 0 .. n - 1 : Meets(Vertex(n, c, k), Vertex(n, c, Around(n, k)), u, w)
    BY <1>4, <1>7 DEF Sewn, Caplike
  <2>2. TwoAt(F, Vertex(n, c, k), Vertex(n, c, Around(n, k)))
    BY <1>1, SewnRound
  <2> QED BY <1>5, <2>1, <2>2
<1> QED BY <1>6, <1>7 DEF Sewn

-----------------------------------------------------------------------------
(* The faces of the kinds of swept solids.                                 *)

\* A face around a ring, in either direction.
Ends(f, n, c, i, k) ==
    \/ f[i] = Vertex(n, c, k) /\ f[(i % n) + 1] = Vertex(n, c, Around(n, k))
    \/ f[(i % n) + 1] = Vertex(n, c, k) /\ f[i] = Vertex(n, c, Around(n, k))

\* A face whose sides are those of a ring is a cap of it.
LEMMA CapIs ==
    ASSUME NEW n, NEW c, NEW f, DOMAIN f = 1 .. n, Len(f) = n,
           \A i \in 1 .. n : \E k \in 0 .. n - 1 : Ends(f, n, c, i, k),
           \A k \in 0 .. n - 1 : \E i \in 1 .. n : Ends(f, n, c, i, k)
    PROVE  Caplike(f, n, c)
<1>1. SUFFICES ASSUME NEW u, NEW w
               PROVE  Touching(f, u, w) <=>
                        \E k \in 0 .. n - 1 :
                           Meets(Vertex(n, c, k), Vertex(n, c, Around(n, k)), u, w)
  BY DEF Caplike
<1>2. Edges(f) = {<<f[i], f[(i % n) + 1]>> : i \in 1 .. n}
  BY DEF Edges
<1>3. \A x, y : <<x, y>> \in Edges(f) <=> \E i \in 1 .. n : x = f[i] /\ y = f[(i % n) + 1]
  BY <1>2
<1>4. ASSUME Touching(f, u, w)
      PROVE  \E k \in 0 .. n - 1 : Meets(Vertex(n, c, k), Vertex(n, c, Around(n, k)), u, w)
  <2>1. PICK i \in 1 .. n : \/ u = f[i] /\ w = f[(i % n) + 1]
                            \/ w = f[i] /\ u = f[(i % n) + 1]
    <3>1. <<u, w>> \in Edges(f) \/ <<w, u>> \in Edges(f)
      BY <1>4 DEF Touching
    <3>2. CASE <<u, w>> \in Edges(f)
      BY <1>3, <3>2
    <3>3. CASE <<w, u>> \in Edges(f)
      BY <1>3, <3>3
    <3> QED BY <3>1, <3>2, <3>3
  <2>2. PICK k \in 0 .. n - 1 : Ends(f, n, c, i, k)
    OBVIOUS
  <2>3. Meets(Vertex(n, c, k), Vertex(n, c, Around(n, k)), u, w)
    BY <2>1, <2>2 DEF Ends, Meets
  <2> QED BY <2>3
<1>5. ASSUME NEW k \in 0 .. n - 1, Meets(Vertex(n, c, k), Vertex(n, c, Around(n, k)), u, w)
      PROVE  Touching(f, u, w)
  <2>1. PICK i \in 1 .. n : Ends(f, n, c, i, k)
    OBVIOUS
  <2>2. \/ u = f[i] /\ w = f[(i % n) + 1]
        \/ w = f[i] /\ u = f[(i % n) + 1]
    BY <1>5, <2>1 DEF Ends, Meets
  <2>3. <<f[i], f[(i % n) + 1]>> \in Edges(f)
    BY <1>3, Zenon
  <2>4. <<u, w>> \in Edges(f) \/ <<w, u>> \in Edges(f)
    BY <2>2, <2>3, Zenon
  <2> QED BY <2>4, Zenon DEF Touching
<1> QED BY <1>4, <1>5

\* A ring is its own cap.
LEMMA RingIsCap ==
    ASSUME NEW n \in Nat, n >= 3, NEW c \in Nat
    PROVE  Caplike(Ring(c * n, n), n, c)
<1> DEFINE f == Ring(c * n, n)
<1>1. f = [i \in 1 .. n |-> c * n + i - 1] /\ c * n \in Int
  BY DEF Ring
<1>2. DOMAIN f = 1 .. n /\ Len(f) = n
  BY <1>1
<1>3. ASSUME NEW i \in 1 .. n, NEW k \in 0 .. n - 1, i = k + 1
      PROVE  Ends(f, n, c, i, k)
  <2>1. f[i] = c * n + k
    BY <1>1, <1>3
  <2>2. i % n = Around(n, k) /\ Around(n, k) \in 0 .. n - 1
    BY <1>3, AroundIs DEF Around
  <2>3. (i % n) + 1 \in 1 .. n
    BY <2>2
  <2>4. f[(i % n) + 1] = c * n + Around(n, k)
    BY <1>1, <2>2, <2>3
  <2> HIDE DEF f
  <2> QED BY <2>1, <2>4 DEF Ends, Vertex
<1> HIDE DEF f
<1>4. ASSUME NEW i \in 1 .. n PROVE \E k \in 0 .. n - 1 : Ends(f, n, c, i, k)
  <2>1. i - 1 \in 0 .. n - 1 /\ i = (i - 1) + 1
    OBVIOUS
  <2> QED BY <1>3, <2>1
<1>5. ASSUME NEW k \in 0 .. n - 1 PROVE \E i \in 1 .. n : Ends(f, n, c, i, k)
  <2>1. k + 1 \in 1 .. n
    OBVIOUS
  <2> QED BY <1>3, <2>1
<1>6. Caplike(f, n, c)
  BY <1>2, <1>4, <1>5, CapIs
<1> QED BY <1>6 DEF f

\* The first ring turned over is its cap.
LEMMA ReverseIsCap ==
    ASSUME NEW n \in Nat, n >= 3
    PROVE  Caplike(Reverse(Ring(0, n)), n, 0)
<1> DEFINE f == Reverse(Ring(0, n))
<1>1. Ring(0, n) = [i \in 1 .. n |-> 0 + i - 1]
  BY DEF Ring
<1>2. Len(Ring(0, n)) = n
  BY <1>1
<1>3. f = [i \in 1 .. n |-> Ring(0, n)[(n - i) + 1]]
  BY <1>2 DEF Reverse
<1>4. ASSUME NEW i \in 1 .. n PROVE f[i] = n - i
  <2>1. f[i] = Ring(0, n)[(n - i) + 1]
    BY <1>3
  <2>2. (n - i) + 1 \in 1 .. n
    OBVIOUS
  <2> QED BY <1>1, <2>1, <2>2
<1>5. DOMAIN f = 1 .. n /\ Len(f) = n
  BY <1>3
<1> HIDE DEF f
<1>6. ASSUME NEW i \in 1 .. n, NEW k \in 0 .. n - 1, k = IF i = n THEN n - 1 ELSE n - 1 - i
      PROVE  Ends(f, n, 0, i, k)
  <2>1. i % n = IF i = n THEN 0 ELSE i
    OBVIOUS
  <2>2. (i % n) + 1 \in 1 .. n
    BY <2>1
  <2>3. f[i] = n - i /\ f[(i % n) + 1] = n - ((i % n) + 1)
    BY <1>4, <2>2
  <2>4. f[(i % n) + 1] = k
    BY <1>6, <2>1, <2>3
  <2>5. Around(n, k) = IF k = n - 1 THEN 0 ELSE k + 1
    BY AroundIs
  <2>6. f[i] = Around(n, k)
    BY <1>6, <2>3, <2>5
  <2>7. Vertex(n, 0, k) = k /\ Vertex(n, 0, Around(n, k)) = Around(n, k)
    <3>1. Around(n, k) \in Int /\ 0 * n = 0
      BY AroundIs
    <3> QED BY <3>1 DEF Vertex
  <2> QED BY <2>4, <2>6, <2>7 DEF Ends
<1>7. ASSUME NEW i \in 1 .. n PROVE \E k \in 0 .. n - 1 : Ends(f, n, 0, i, k)
  <2> DEFINE k == IF i = n THEN n - 1 ELSE n - 1 - i
  <2>1. k \in 0 .. n - 1
    OBVIOUS
  <2> QED BY <1>6, <2>1
<1>8. ASSUME NEW k \in 0 .. n - 1 PROVE \E i \in 1 .. n : Ends(f, n, 0, i, k)
  <2> DEFINE i == IF k = n - 1 THEN n ELSE n - 1 - k
  <2>1. i \in 1 .. n /\ k = IF i = n THEN n - 1 ELSE n - 1 - i
    OBVIOUS
  <2> QED BY <1>6, <2>1
<1>9. Caplike(f, n, 0)
  BY <1>5, <1>7, <1>8, CapIs
<1> QED BY <1>9 DEF f

\* A face for each place of m bands of r rings, and others.
Faced(F, G, n, r, m, others) ==
    /\ \A b \in 0 .. m - 1 : \A k \in 0 .. n - 1 : Bandlike(G[<<b, k>>], n, r, b, k)
    /\ \A f : f \in F <=> \/ \E b \in 0 .. m - 1 : \E k \in 0 .. n - 1 : f = G[<<b, k>>]
                          \/ f \in others

\* Faces along the bands of r rings, and one at each end.
LEMMA TubeIsClosed ==
    ASSUME NEW n \in Nat, n >= 3, NEW r \in Nat, r >= 2, NEW F, NEW G,
           Faced(F, G, n, r, r - 1, Caps(r, n))
    PROVE  Watertight(F)
<1> DEFINE B == 0 .. (r - 1) - 1
           C == {0, r - 1}
           H == [c \in C |-> IF c = 0 THEN Reverse(Ring(0, n)) ELSE Ring((r - 1) * n, n)]
<1>1. H[0] = Reverse(Ring(0, n)) /\ H[r - 1] = Ring((r - 1) * n, n)
  OBVIOUS
<1>2. Caps(r, n) = {H[0], H[r - 1]}
  BY <1>1 DEF Caps
<1>3. Caplike(H[0], n, 0) /\ Caplike(H[r - 1], n, r - 1)
  BY <1>1, RingIsCap, ReverseIsCap
<1> HIDE DEF H
<1>4. \A f \in F : \/ \E b \in B : \E k \in 0 .. n - 1 : f = G[<<b, k>>]
                   \/ \E c \in C : f = H[c]
  BY <1>2 DEF Faced
<1>5. \A b \in B : \A k \in 0 .. n - 1 : G[<<b, k>>] \in F /\ Bandlike(G[<<b, k>>], n, r, b, k)
  BY DEF Faced
<1>6. \A c \in C : H[c] \in F /\ Caplike(H[c], n, c)
  BY <1>2, <1>3 DEF Faced
<1>7. \A a \in 0 .. r - 1 : Around(r, a) = IF a = r - 1 THEN 0 ELSE a + 1
  BY AroundIs
<1>8. \A a, b \in B : ~(Around(r, a) = b /\ Around(r, b) = a)
  BY <1>7
<1>9. ASSUME NEW a \in 0 .. r - 1
      PROVE  LET c == Around(r, a) IN
             \/ a \in B /\ c \in B /\ c \notin C
             \/ a \in B /\ c \notin B /\ c \in C
             \/ a \notin B /\ c \in B /\ c \in C
  BY <1>7
<1>10. Sewn(F, n, r, B, C, G, H)
  BY <1>4, <1>5, <1>6, <1>8, <1>9 DEF Sewn
<1> HIDE DEF B, C
<1>11. Watertight(F)
  BY <1>10, SewnIsClosed
<1> QED BY <1>11

\* Faces along the bands of r rings of which the last is next to the first.
LEMMA TorusIsClosed ==
    ASSUME NEW n \in Nat, n >= 3, NEW r \in Nat, r >= 3, NEW F, NEW G,
           Faced(F, G, n, r, r, {})
    PROVE  Watertight(F)
<1> DEFINE B == 0 .. r - 1
           C == {}
<1>1. \A f \in F : \E b \in B : \E k \in 0 .. n - 1 : f = G[<<b, k>>]
  BY DEF Faced
<1>2. \A b \in B : \A k \in 0 .. n - 1 : G[<<b, k>>] \in F /\ Bandlike(G[<<b, k>>], n, r, b, k)
  BY DEF Faced
<1>3. \A a \in B : Around(r, a) \in B /\ Around(r, Around(r, a)) # a
  BY AroundIs, AroundTwice
<1>4. \A a, b \in B : ~(Around(r, a) = b /\ Around(r, b) = a)
  BY <1>3
<1>5. Sewn(F, n, r, B, C, G, <<>>)
  <2>1. B \subseteq 0 .. r - 1 /\ C \subseteq 0 .. r - 1
    OBVIOUS
  <2> HIDE DEF B
  <2>2. \A a \in B : Around(r, a) \in B /\ Around(r, a) \notin C
    BY <1>3
  <2>3. \A a \in 0 .. r - 1 : a \in B
    BY DEF B
  <2> QED BY <1>1, <1>2, <1>4, <2>1, <2>2, <2>3 DEF Sewn
<1> HIDE DEF B, C
<1>6. Watertight(F)
  BY <1>5, SewnIsClosed
<1> QED BY <1>6

\* An extrusion of a closed profile has no border (geometry_program_compiler.py _extrude).
LEMMA ExtrusionClosed ==
    ASSUME NEW n \in Nat, n >= 3
    PROVE  Watertight(ExtrudeFaces(n))
<1> DEFINE G == [x \in {0} \X (0 .. n - 1) |->
                   <<x[2], (x[2] + 1) % n, n + ((x[2] + 1) % n), n + x[2]>>]
<1>1. ASSUME NEW k \in 0 .. n - 1
      PROVE  G[<<0, k>>] = <<k, (k + 1) % n, n + ((k + 1) % n), n + k>>
  OBVIOUS
<1> HIDE DEF G
<1>2. ASSUME NEW k \in 0 .. n - 1 PROVE Bandlike(G[<<0, k>>], n, 2, 0, k)
  <2> DEFINE K == Around(n, k)
  <2>1. K \in 0 .. n - 1 /\ Around(2, 0) = 1
    BY AroundIs
  <2>2. G[<<0, k>>] = <<k, K, n + K, n + k>>
    BY <1>1 DEF Around
  <2>3. /\ Vertex(n, 0, k) = k /\ Vertex(n, 0, K) = K
        /\ Vertex(n, 1, k) = n + k /\ Vertex(n, 1, K) = n + K
    BY <2>1 DEF Vertex
  <2>4. Quad(n, 2, 0, k) = <<k, n + k, n + K, K>>
    BY <2>1, <2>3 DEF Quad
  <2> HIDE DEF K
  <2>5. ASSUME NEW u, NEW w
        PROVE  Touching(G[<<0, k>>], u, w) <=> Touching(Quad(n, 2, 0, k), u, w)
    <3> DEFINE a == n + k
               b == n + K
    <3>0. G[<<0, k>>] = <<k, K, b, a>> /\ Quad(n, 2, 0, k) = <<k, a, b, K>>
      BY <2>2, <2>4
    <3> HIDE DEF a, b
    <3>1. Touching(<<k, K, b, a>>, u, w) = QuadMeets(k, K, b, a, u, w)
      BY QuadTouches, Zenon
    <3>2. Touching(<<k, a, b, K>>, u, w) = QuadMeets(k, a, b, K, u, w)
      BY QuadTouches, Zenon
    <3>3. QuadMeets(k, K, b, a, u, w) <=> QuadMeets(k, a, b, K, u, w)
      BY DEF QuadMeets, Meets
    <3> QED BY <3>0, <3>1, <3>2, <3>3
  <2> QED BY <2>5 DEF Bandlike
<1>3. \A b \in 0 .. 1 - 1 : \A k \in 0 .. n - 1 : Bandlike(G[<<b, k>>], n, 2, b, k)
  <2>1. \A b \in 0 .. 1 - 1 : b = 0
    OBVIOUS
  <2> QED BY <1>2, <2>1
<1>4. \A f : f \in ExtrudeFaces(n) <=>
         \/ \E b \in 0 .. 1 - 1 : \E k \in 0 .. n - 1 : f = G[<<b, k>>]
         \/ f \in Caps(2, n)
  <2>1. \A b : b \in 0 .. 1 - 1 <=> b = 0
    OBVIOUS
  <2> DEFINE face(j) == <<j, (j + 1) % n, n + ((j + 1) % n), n + j>>
  <2>2. ExtrudeFaces(n) = Caps(2, n) \cup {face(j) : j \in 0 .. n - 1}
    BY DEF ExtrudeFaces
  <2>3. \A k \in 0 .. n - 1 : G[<<0, k>>] = face(k)
    BY <1>1
  <2> HIDE DEF face
  <2> QED BY <2>1, <2>2, <2>3
<1>5. Faced(ExtrudeFaces(n), G, n, 2, 1, Caps(2, n))
  BY <1>3, <1>4 DEF Faced
<1>6. 2 - 1 = 1
  OBVIOUS
<1> QED BY <1>5, <1>6, TubeIsClosed

\* The bands of a revolution or a sweep, face by face.
Quads(n, r) == [x \in (0 .. r - 1) \X (0 .. n - 1) |-> Quad(n, r, x[1], x[2])]

\* The quads by band and place.
LEMMA QuadsAre ==
    ASSUME NEW n \in Nat, NEW r \in Nat, NEW b \in 0 .. r - 1, NEW k \in 0 .. n - 1
    PROVE  Quads(n, r)[<<b, k>>] = Quad(n, r, b, k)
  BY DEF Quads

\* The bands are those quads.
LEMMA BandsAre ==
    ASSUME NEW n \in Nat, NEW r \in Nat, NEW m \in Nat, m <= r
    PROVE  \A f : f \in Bands(r, m, n, n) <=>
              \E b \in 0 .. m - 1 : \E k \in 0 .. n - 1 : f = Quads(n, r)[<<b, k>>]
<1>1. ASSUME NEW b \in 0 .. m - 1, NEW f
      PROVE  f \in Band(b, (b + 1) % r, n, n) <=> \E k \in 0 .. n - 1 : f = Quads(n, r)[<<b, k>>]
  <2>1. \A k \in 0 .. n - 1 :
           Quads(n, r)[<<b, k>>] = <<b * n + k, ((b + 1) % r) * n + k,
                                     ((b + 1) % r) * n + ((k + 1) % n), b * n + ((k + 1) % n)>>
    <3>1. \A k \in 0 .. n - 1 : Quads(n, r)[<<b, k>>] = Quad(n, r, b, k)
      BY QuadsAre
    <3> QED BY <3>1, Zenon DEF Quad, Vertex, Around
  <2> DEFINE face(k) == <<b * n + k, ((b + 1) % r) * n + k,
                          ((b + 1) % r) * n + ((k + 1) % n), b * n + ((k + 1) % n)>>
             Q == Quads(n, r)
  <2>2. Band(b, (b + 1) % r, n, n) = {face(k) : k \in 0 .. n - 1}
    BY DEF Band
  <2>3. \A k \in 0 .. n - 1 : Q[<<b, k>>] = face(k)
    BY <2>1
  <2> HIDE DEF face, Q
  <2>4. f \in {face(k) : k \in 0 .. n - 1} <=> \E k \in 0 .. n - 1 : f = Q[<<b, k>>]
    BY <2>3
  <2> QED BY <2>2, <2>4 DEF Q
<1>2. Bands(r, m, n, n) = UNION {Band(b, (b + 1) % r, n, n) : b \in 0 .. m - 1}
  BY DEF Bands
<1>3. \A f : f \in Bands(r, m, n, n) <=> \E b \in 0 .. m - 1 : f \in Band(b, (b + 1) % r, n, n)
  BY <1>2
<1>4. SUFFICES ASSUME NEW f
               PROVE  f \in Bands(r, m, n, n) <=>
                        \E b \in 0 .. m - 1 : \E k \in 0 .. n - 1 : f = Quads(n, r)[<<b, k>>]
  OBVIOUS
<1>5. f \in Bands(r, m, n, n) <=> \E b \in 0 .. m - 1 : f \in Band(b, (b + 1) % r, n, n)
  BY <1>3
<1>6. \A b \in 0 .. m - 1 : f \in Band(b, (b + 1) % r, n, n) <=>
                              \E k \in 0 .. n - 1 : f = Quads(n, r)[<<b, k>>]
  BY <1>1
<1> QED BY <1>5, <1>6, Zenon

\* Each is a quad of its band.
LEMMA QuadsBandlike ==
    ASSUME NEW n \in Nat, NEW r \in Nat, NEW b \in 0 .. r - 1, NEW k \in 0 .. n - 1
    PROVE  Bandlike(Quads(n, r)[<<b, k>>], n, r, b, k)
  BY QuadsAre DEF Bandlike

\* Bands between two caps are closed.
LEMMA OpenTube ==
    ASSUME NEW n \in Nat, n >= 3, NEW r \in Nat, r >= 2
    PROVE  Watertight(Bands(r, r - 1, n, n) \cup Caps(r, n))
<1> DEFINE Q == Quads(n, r)
           F == Bands(r, r - 1, n, n) \cup Caps(r, n)
<1>1. \A f : f \in Bands(r, r - 1, n, n) <=>
         \E b \in 0 .. (r - 1) - 1 : \E k \in 0 .. n - 1 : f = Q[<<b, k>>]
  <2>1. r - 1 \in Nat /\ r - 1 <= r
    OBVIOUS
  <2> QED BY <2>1, BandsAre, Zenon
<1>2. \A b \in 0 .. (r - 1) - 1 : \A k \in 0 .. n - 1 : Bandlike(Q[<<b, k>>], n, r, b, k)
  <2>1. \A b \in 0 .. r - 1 : \A k \in 0 .. n - 1 : Bandlike(Q[<<b, k>>], n, r, b, k)
    BY QuadsBandlike, Zenon
  <2> HIDE DEF Q
  <2>2. \A b \in 0 .. (r - 1) - 1 : b \in 0 .. r - 1
    OBVIOUS
  <2> QED BY <2>1, <2>2
<1> HIDE DEF Q
<1>3. Faced(F, Q, n, r, r - 1, Caps(r, n))
  BY <1>1, <1>2 DEF Faced
<1> HIDE DEF F
<1>4. Watertight(F)
  BY <1>3, TubeIsClosed
<1> QED BY <1>4 DEF F

\* Bands all around are closed.
LEMMA ClosedTorus ==
    ASSUME NEW n \in Nat, n >= 3, NEW r \in Nat, r >= 3
    PROVE  Watertight(Bands(r, r, n, n))
<1> DEFINE Q == Quads(n, r)
           F == Bands(r, r, n, n)
<1>1. \A f : f \in F <=> \E b \in 0 .. r - 1 : \E k \in 0 .. n - 1 : f = Q[<<b, k>>]
  <2>1. r <= r
    OBVIOUS
  <2> QED BY <2>1, BandsAre, Zenon
<1>2. \A b \in 0 .. r - 1 : \A k \in 0 .. n - 1 : Bandlike(Q[<<b, k>>], n, r, b, k)
  BY QuadsBandlike, Zenon
<1> HIDE DEF Q, F
<1>3. Faced(F, Q, n, r, r, {})
  BY <1>1, <1>2 DEF Faced
<1>4. Watertight(F)
  BY <1>3, TorusIsClosed
<1> QED BY <1>4 DEF F

\* A revolution of a closed profile has no border, whole or in part.
LEMMA RevolutionClosed ==
    ASSUME NEW n \in Nat, n >= 3, NEW segments \in Nat, segments >= 3, NEW full
    PROVE  Watertight(RevolveFaces(n, TRUE, segments, full))
<1>1. CASE full
  <2>1. RevolveFaces(n, TRUE, segments, full) = Bands(segments, segments, n, n)
    BY <1>1 DEF RevolveFaces
  <2> QED BY <2>1, ClosedTorus
<1>2. CASE ~full
  <2> DEFINE r == segments + 1
  <2>1. RevolveFaces(n, TRUE, segments, full) = Bands(r, r - 1, n, n) \cup Caps(r, n)
    BY <1>2 DEF RevolveFaces
  <2>2. r \in Nat /\ r >= 2
    OBVIOUS
  <2> HIDE DEF r
  <2> QED BY <2>1, <2>2, OpenTube
<1> QED BY <1>1, <1>2

\* A sweep of a closed profile has no border, along a path that closes or one that does not.
LEMMA SweepClosed ==
    ASSUME NEW n \in Nat, n >= 3, NEW r \in Nat, NEW cyclic, r >= (IF cyclic THEN 3 ELSE 2)
    PROVE  Watertight(SweepFaces(n, r, cyclic))
<1>1. CASE cyclic
  <2>1. SweepFaces(n, r, cyclic) = Bands(r, r, n, n)
    BY <1>1 DEF SweepFaces
  <2> QED BY <1>1, <2>1, ClosedTorus
<1>2. CASE ~cyclic
  <2>1. SweepFaces(n, r, cyclic) = Bands(r, r - 1, n, n) \cup Caps(r, n)
    BY <1>2 DEF SweepFaces
  <2> QED BY <1>2, <2>1, OpenTube
<1> QED BY <1>1, <1>2

\* What a closed profile sweeps is closed.
LEMMA ClosedSweeps ==
    ASSUME NEW x, IsNode(x), x.kind \in Swept, NEW y, IsNode(y), y.kind = "profile", y.closed
    PROVE  Watertight(FacesOf(x, y))
<1>1. y.points \in Nat /\ y.points >= 3 /\ x.count \in Nat
  BY DEF IsNode
<1>2. CASE x.kind = "extrude"
  BY <1>1, <1>2, ExtrusionClosed DEF FacesOf
<1>3. CASE x.kind = "revolve"
  <2>1. x.count >= 3 /\ y.closed = TRUE
    BY <1>3 DEF IsNode
  <2>2. FacesOf(x, y) = RevolveFaces(y.points, TRUE, x.count, x.loop)
    BY <1>3, <2>1 DEF FacesOf
  <2> QED BY <1>1, <2>1, <2>2, RevolutionClosed
<1>4. CASE x.kind = "sweep"
  <2>1. x.count >= (IF x.loop THEN 3 ELSE 2)
    BY <1>4 DEF IsNode
  <2>2. FacesOf(x, y) = SweepFaces(y.points, x.count, x.loop)
    BY <1>4 DEF FacesOf
  <2> QED BY <1>1, <2>1, <2>2, SweepClosed
<1> QED BY <1>2, <1>3, <1>4 DEF Swept

-----------------------------------------------------------------------------
(* What the worker makes of one node.                                      *)

\* What goes into a node goes into what is made of it.
LEMMA MadeIs ==
    ASSUME NEW x, NEW n \in Ids(x)
    PROVE  /\ n \in Made(x, n)
           /\ \A m \in Uses(Node(x, n)) : Made(x, m) \subseteq Made(x, n)
<1> DEFINE r == [m \in Ids(x) |-> Uses(Node(x, m))]
<1>1. DOMAIN r = Ids(x) /\ r[n] = Uses(Node(x, n))
  OBVIOUS
<1>2. \A m : Made(x, m) = Reached(r, m)
  BY DEF Made
<1> HIDE DEF r
<1>3. n \in Reached(r, n)
  BY <1>1, ReachedSelf
<1>4. \A m \in r[n] : Reached(r, m) \subseteq Reached(r, n)
  BY <1>1, ReachedOn
<1> QED BY <1>1, <1>2, <1>3, <1>4

\* A copy is of a mesh when its source is; nothing else is resolved further.
LEMMA MeshSourceIs ==
    ASSUME NEW x, IsReply(x), ReferencesKnown(x), NEW n \in Ids(x), MeshSource(x, n)
    PROVE  \/ Node(x, n).kind \in Solids \cup Swept \cup {"boolean"}
           \/ /\ Node(x, n).kind \in Copies /\ Node(x, n).uses[1] \in Uses(Node(x, n))
              /\ MeshSource(x, Node(x, n).uses[1])
<1> DEFINE r == [m \in Ids(x) |-> CopyOf(Node(x, m))]
           solid(m) == Node(x, m).kind \in Solids \cup Swept \cup {"boolean"}
<1>1. DOMAIN r = Ids(x) /\ \A m \in Ids(x) : r[m] = CopyOf(Node(x, m))
  OBVIOUS
<1>2. \A m : Originals(x, m) = Reached(r, m)
  BY DEF Originals
<1> HIDE DEF r
<1>3. \A m : MeshSource(x, m) <=> \E k \in Reached(r, m) : solid(k)
  BY <1>2 DEF MeshSource
<1>4. \A m \in Ids(x) : /\ CopyOf(Node(x, m)) \subseteq Uses(Node(x, m))
                        /\ Uses(Node(x, m)) \subseteq Ids(x)
  <2>1. SUFFICES ASSUME NEW m \in Ids(x)
                 PROVE  CopyOf(Node(x, m)) \subseteq Uses(Node(x, m))
    BY NeedsKnown
  <2>2. IsNode(Node(x, m))
    BY NodeIsOne
  <2> QED BY <2>2 DEF CopyOf, Uses, ToSet, IsNode, Arity
<1>5. \A j \in DOMAIN r : r[j] \subseteq DOMAIN r
  BY <1>1, <1>4
<1>6. PICK k \in Reached(r, n) : solid(k)
  BY <1>3
<1>7. CASE k = n
  BY <1>6, <1>7
<1>8. CASE k # n
  <2>1. PICK m \in r[n] : k \in Reached(r, m)
    BY <1>1, <1>5, <1>8, ReachedBack
  <2>2. Node(x, n).kind \in Copies /\ m = Node(x, n).uses[1] /\ m \in Uses(Node(x, n))
    BY <1>1, <1>4, <2>1 DEF CopyOf
  <2> QED BY <1>3, <1>6, <2>1, <2>2
<1> QED BY <1>7, <1>8

\* The fields of the worker's objects.
Fields == {"type", "low", "high", "frame", "hidden", "role", "hollow", "border"}

RawOK(x, n, o) ==
    /\ DOMAIN o = Fields
    /\ {o.hidden, o.role, o.hollow, o.border} \subseteq BOOLEAN
    /\ MeshSource(x, n) => o.type = "mesh"
    /\ Span(o) = Extent(x, n)
    /\ o.border => \E m \in Made(x, n) : Bordered(x, m)

\* Finishing an object puts it where its node stands, hides it or gives it a role.
LEMMA FinishIs ==
    ASSUME NEW x, Sound(x), NEW n \in Ids(x), NEW o, RawOK(x, n, o),
           NEW objs, ObjectsOK(x, objs), Needs(x, n) \subseteq DOMAIN objs
    PROVE  ObjectOK(x, n, Finish(x, n, o, objs))
<1> DEFINE q == Finish(x, n, o, objs)
           y == Node(x, n)
<1>5. q.frame = Frame(x, n)
  <2> DEFINE f == IF y.parent = None THEN Local(y) ELSE Compose(objs[y.parent].frame, Local(y))
  <2>1. q.frame = f
    <3> DEFINE u == o.hidden \/ n \in x.construction
               v == o.role \/ y.role
    <3>1. q = [o EXCEPT !.hidden = u, !.role = v, !.frame = f]
      BY DEF Finish
    <3>2. "frame" \in DOMAIN o
      BY DEF RawOK, Fields
    <3> HIDE DEF f, q, y, u, v
    <3> QED BY <3>1, <3>2
  <2>2. Frame(x, n) = FrameOf(y, Measures(x))
    <3>1. Measures(x)[n] = Measure(x, Measures(x), n)
      BY MeasuresUnfold DEF Sound
    <3> QED BY <3>1 DEF Measure, Frame
  <2>3. y.parent # None => objs[y.parent].frame = Frame(x, y.parent)
    BY DEF Needs, ObjectsOK, ObjectOK
  <2> QED BY <2>1, <2>2, <2>3 DEF FrameOf, Frame
<1>1. /\ DOMAIN q = Fields /\ q.type = o.type /\ q.low = o.low /\ q.high = o.high
      /\ q.hollow = o.hollow /\ q.border = o.border
      /\ q.hidden = (o.hidden \/ n \in x.construction) /\ q.role = (o.role \/ Node(x, n).role)
  BY DEF Finish, RawOK, Fields
<1> HIDE DEF q
<1>2. Span(q) = Span(o)
  BY <1>1 DEF Span
<1>3. {q.hidden, q.role, q.hollow, q.border} \subseteq BOOLEAN
  BY <1>1 DEF RawOK
<1>4. Node(x, n).role => q.role
  BY <1>1
<1> QED BY <1>1, <1>2, <1>3, <1>4, <1>5 DEF RawOK, ObjectOK, Fields, q

\* An object with its span, its type and its border.
LEMMA SpanIs ==
    ASSUME NEW x, Sound(x), NEW n \in Ids(x), NEW o,
           o.low = Extent(x, n)[1], o.high = Extent(x, n)[2]
    PROVE  Span(o) = Extent(x, n)
<1>1. Extent(x, n) \in Int \X Int
  BY MeasuresType DEF ExtentSet
<1> QED BY <1>1 DEF Span

\* The extent of a node unfolds.
LEMMA ExtentIs ==
    ASSUME NEW x, Sound(x), NEW n \in Ids(x)
    PROVE  Extent(x, n) = ExtentOf(x, Node(x, n), Measures(x))
<1>1. Measures(x)[n] = Measure(x, Measures(x), n)
  BY MeasuresUnfold DEF Sound
<1> QED BY <1>1 DEF Extent, Measure

\* The worker makes of a node what the contract measured, from what it made of its sources.
LEMMA RawIs ==
    ASSUME NEW x, IsReply(x), Admitted(x), x.exact = FALSE, NEW objs, ObjectsOK(x, objs),
           NEW n \in Ids(x), Uses(Node(x, n)) \subseteq DOMAIN objs, NEW hollow
    PROVE  RawOK(x, n, Raw(x, n, objs, hollow))
<1> DEFINE y == Node(x, n)
           e == Extent(x, n)
           o == Raw(x, n, objs, hollow)
<1>1. Sound(x) /\ IsNode(y) /\ Uses(y) \subseteq Ids(x) /\ ReferencesKnown(x)
  BY AdmittedSound, NodeIsOne, NeedsKnown DEF Sound
<1>2. e = ExtentOf(x, y, Measures(x))
  BY <1>1, ExtentIs
<1>3. \A m \in Uses(y) : m \in Ids(x) /\ ObjectOK(x, m, objs[m])
  BY <1>1 DEF ObjectsOK
<1>4. y.kind \in Kinds /\ y.kind # "exact_asset"
  <2>1. PICK i \in DOMAIN x.nodes : y = x.nodes[i]
    BY NodeIsOne
  <2> QED BY <1>1, <2>1 DEF Admitted, ExactIsolated, IsNode
<1>5. ASSUME MeshSource(x, n) => o.type = "mesh", DOMAIN o = Fields,
             o.low = e[1], o.high = e[2], o.role = FALSE,
             o.hidden \in BOOLEAN, o.hollow \in BOOLEAN, o.border \in BOOLEAN,
             o.border => \E m \in Made(x, n) : Bordered(x, m)
      PROVE  RawOK(x, n, o)
  <2> HIDE DEF o
  <2>1. Span(o) = e
    BY <1>1, <1>5, SpanIs
  <2> QED BY <1>5, <2>1 DEF RawOK
<1>6. n \in Made(x, n) /\ \A m \in Uses(y) : Made(x, m) \subseteq Made(x, n) /\ m \in Made(x, m)
  BY <1>3, MadeIs
<1>7. MeshSource(x, n) => \/ y.kind \in Solids \cup Swept \cup {"boolean"}
                          \/ y.kind \in Copies /\ MeshSource(x, y.uses[1])
  BY <1>1, MeshSourceIs
<1> HIDE DEF e
<1>8. CASE y.kind \in {"profile", "curve", "primitive"}
  <2> DEFINE type == CASE y.kind = "profile" -> "empty" [] y.kind = "curve" -> "curve"
                       [] OTHER -> "mesh"
  <2>1. MeshSource(x, n) => type = "mesh"
    BY <1>7, <1>8 DEF Solids, Swept, Copies
  <2>2. o = Object(type, e)
    <3>1. CASE y.kind = "profile"
      BY <1>2, <3>1 DEF Raw, ExtentOf, Swept
    <3>2. CASE y.kind = "curve"
      BY <1>2, <3>2 DEF Raw, ExtentOf, Swept
    <3>3. CASE y.kind = "primitive"
      BY <1>2, <3>3 DEF Raw, ExtentOf, Swept
    <3> QED BY <1>8, <3>1, <3>2, <3>3
  <2> HIDE DEF type, o
  <2>3. /\ DOMAIN o = Fields /\ o.type = type /\ o.low = e[1] /\ o.high = e[2]
        /\ o.hidden \in BOOLEAN /\ o.role = FALSE /\ o.hollow = FALSE /\ o.border = FALSE
    BY <2>2 DEF Object, Fields
  <2> QED BY <1>5, <2>1, <2>3 DEF o
<1>9. CASE y.kind = "terrain"
  <2> DEFINE open == ~Watertight(TerrainFaces(3, 2))
  <2>1. o = [Object("mesh", e) EXCEPT !.border = open]
    BY <1>2, <1>9 DEF Raw, ExtentOf, Swept
  <2>2. Bordered(x, n)
    BY <1>9 DEF Bordered
  <2>3. open \in BOOLEAN
    BY Zenon
  <2> HIDE DEF open, o
  <2>4. /\ DOMAIN o = Fields /\ o.type = "mesh" /\ o.low = e[1] /\ o.high = e[2]
        /\ o.hidden \in BOOLEAN /\ o.role = FALSE /\ o.hollow = FALSE /\ o.border = open
    BY <2>1 DEF Object, Fields
  <2> QED BY <1>5, <1>6, <2>2, <2>3, <2>4 DEF o
<1>10. CASE y.kind \in Swept
  <2> DEFINE z == Node(x, y.uses[1])
             open == ~Watertight(FacesOf(y, z))
  <2>1. PICK i \in DOMAIN x.nodes : y = x.nodes[i]
    BY NodeIsOne
  <2>2. y.uses[1] \in Profiles(x)
    <3>1. SourcesFit(x)
      BY DEF Admitted
    <3> HIDE DEF y
    <3> QED BY <1>10, <2>1, <3>1 DEF SourcesFit
  <2>3. y.uses[1] \in Ids(x) /\ z.kind = "profile" /\ IsNode(z) /\ y.uses[1] \in Uses(y)
    <3>1. DOMAIN y.uses = 1 .. 1
      BY <1>1, <1>10 DEF IsNode, Arity, Swept, Copies
    <3> QED BY <2>2, <3>1, NodeIsOne DEF Profiles, Uses, ToSet
  <2>4. open => Bordered(x, y.uses[1])
    <3>1. z.closed => ~open
      BY <1>1, <1>10, <2>3, ClosedSweeps
    <3> QED BY <2>2, <3>1 DEF Bordered
  <2>5. o = [Object("mesh", SweptExtent(y, z)) EXCEPT !.border = open]
    BY <1>10 DEF Raw, Swept
  <2>6. e = SweptExtent(y, z)
    BY <1>2, <1>10 DEF ExtentOf, Swept
  <2>7. open \in BOOLEAN
    BY Zenon
  <2> HIDE DEF open, o, z
  <2>8. /\ DOMAIN o = Fields /\ o.type = "mesh" /\ o.low = e[1] /\ o.high = e[2]
        /\ o.hidden \in BOOLEAN /\ o.role = FALSE /\ o.hollow = FALSE /\ o.border = open
    BY <2>5, <2>6 DEF Object, Fields
  <2> QED BY <1>5, <1>6, <2>3, <2>4, <2>7, <2>8 DEF o
<1>11. CASE y.kind = "boolean"
  <2> DEFINE Baked(m) == Map(objs[m].frame, Span(objs[m]))
             open == \E m \in Uses(y) : objs[m].border
             void == n \in hollow
  <2>1. {y.uses[1], y.uses[2]} \subseteq Uses(y)
    <3>1. DOMAIN y.uses = 1 .. 2
      BY <1>1, <1>11 DEF IsNode, Arity, Swept, Copies
    <3> QED BY <3>1 DEF Uses, ToSet
  <2>2. \A m \in Uses(y) : objs[m].frame = Frame(x, m) /\ Span(objs[m]) = Extent(x, m)
    BY <1>3 DEF ObjectOK
  <2>3. e = BooleanExtent(y.op, Baked(y.uses[1]), Baked(y.uses[2]))
    <3>1. e = BooleanExtent(y.op, Map(Measures(x)[y.uses[1]].frame, Measures(x)[y.uses[1]].extent),
                            Map(Measures(x)[y.uses[2]].frame, Measures(x)[y.uses[2]].extent))
      BY <1>2, <1>11 DEF ExtentOf, Swept
    <3> QED BY <2>1, <2>2, <3>1 DEF Frame, Extent
  <2>4. open => \E m \in Made(x, n) : Bordered(x, m)
    BY <1>3, <1>6 DEF ObjectOK
  <2>5. o = [Object("mesh", BooleanExtent(y.op, Baked(y.uses[1]), Baked(y.uses[2]))) EXCEPT
               !.hollow = void, !.border = open]
    BY <1>11 DEF Raw, Swept
  <2>6. open \in BOOLEAN /\ void \in BOOLEAN
    OBVIOUS
  <2> HIDE DEF open, void, o, Baked
  <2>7. /\ DOMAIN o = Fields /\ o.type = "mesh" /\ o.low = e[1] /\ o.high = e[2]
        /\ o.hidden \in BOOLEAN /\ o.role = FALSE /\ o.hollow = void /\ o.border = open
    BY <2>3, <2>5 DEF Object, Fields
  <2> QED BY <1>5, <2>4, <2>6, <2>7 DEF o
<1>12. CASE y.kind \in Copies
  <2> DEFINE source == objs[y.uses[1]]
             d == CASE y.kind = "array"    -> ArrayExtent(y, Span(source))
                    [] y.kind = "modifier" -> ModifiedExtent(y, Span(source))
                    [] OTHER               -> Span(source)
  <2>1. y.uses[1] \in Uses(y)
    <3>1. DOMAIN y.uses = 1 .. 1
      BY <1>1, <1>12 DEF IsNode, Arity, Swept, Copies
    <3> QED BY <3>1 DEF Uses, ToSet
  <2>2. ObjectOK(x, y.uses[1], source)
    BY <1>3, <2>1
  <2>3. Span(source) = Extent(x, y.uses[1])
    BY <2>2 DEF ObjectOK
  <2>4. d = e
    BY <1>2, <1>12, <2>3 DEF ExtentOf, Swept, Copies, Extent
  <2>5. o = [source EXCEPT !.low = d[1], !.high = d[2]]
    BY <1>12 DEF Raw, Swept, Copies
  <2> HIDE DEF source, d, o
  <2>6. /\ DOMAIN o = Fields /\ o.low = e[1] /\ o.high = e[2] /\ o.type = source.type
        /\ o.hidden = source.hidden /\ o.role = source.role /\ o.hollow = source.hollow
        /\ o.border = source.border
    BY <2>2, <2>4, <2>5 DEF ObjectOK, Fields
  <2>7. Span(o) = e
    BY <1>1, <2>6, SpanIs DEF e
  <2>8. MeshSource(x, n) => o.type = "mesh"
    BY <1>7, <1>12, <2>2, <2>6 DEF ObjectOK, Solids, Swept, Copies
  <2>9. o.border => \E m \in Made(x, n) : Bordered(x, m)
    BY <1>6, <2>1, <2>2, <2>6 DEF ObjectOK
  <2>10. {o.hidden, o.role, o.hollow, o.border} \subseteq BOOLEAN
    BY <2>2, <2>6 DEF ObjectOK
  <2>11. RawOK(x, n, o)
    BY <2>6, <2>7, <2>8, <2>9, <2>10 DEF RawOK, e
  <2> QED BY <2>11 DEF o
<1> QED BY <1>4, <1>8, <1>9, <1>10, <1>11, <1>12 DEF Kinds, Solids

-----------------------------------------------------------------------------
(* The worker's steps.                                                     *)

\* The least of some components.
LEMMA FirstIs ==
    ASSUME CognitiveInv, NEW S \in SUBSET Components(plan), S # {}
    PROVE  First(S) \in S
<1>1. S \subseteq Nat
  BY PlanIs
<1>2. \E c \in S : \A d \in S : c <= d
  BY <1>1, LeastIs
<1> QED BY <1>2 DEF First

\* Where the worker is.
LEMMA WorkerIs ==
    ASSUME CognitiveInv, phase = "worker"
    PROVE  /\ CompiledOK(scene, plan, catalogue) /\ BuiltOK(scene, built)
           /\ DOMAIN scene.programs = Chosen(plan, Generated) /\ Accepted(scene.programs, plan)
           /\ DOMAIN scene.exact = Catalogued(plan)
           /\ Unbuilt \subseteq Chosen(plan, Generated) /\ Unbuilt \subseteq Components(plan)
           /\ Unimported \subseteq Catalogued(plan) /\ Unimported \subseteq Components(plan)
           /\ turn = 1 /\ draft = None
<1>1. CompiledOK(scene, plan, catalogue) /\ BuiltOK(scene, built)
  BY DEF CognitiveInv, SceneOK
<1>2. DOMAIN scene.programs = Chosen(plan, Generated) /\ Accepted(scene.programs, plan)
  BY <1>1 DEF CompiledOK
<1>3. DOMAIN scene.exact = Catalogued(plan)
  BY <1>1, PlacesIs
<1>4. turn = 1 /\ draft = None
  BY DEF CognitiveInv, DraftingOK
<1> QED BY <1>1, <1>2, <1>3, <1>4 DEF Unbuilt, Unimported, Chosen, Catalogued

\* What every step of the worker keeps.
LEMMA WorkerKeeps ==
    ASSUME CognitiveInv, phase = "worker", BuiltOK(scene, built'),
           UNCHANGED <<plan, decided, catalogue, phase, ask, turn, draft, programs, placed, scene,
                       revising, served, revisions, fault>>
    PROVE  CognitiveInv'
<1> USE DEF CognitiveInv
<1>1. PlanningOK'
  BY DEF PlanningOK
<1>2. DraftingOK'
  BY DEF DraftingOK
<1>3. SceneOK'
  BY DEF SceneOK
<1>4. HistoryOK'
  BY DEF HistoryOK
<1>5. AcceptedCompiles'
  BY DEF AcceptedCompiles
<1> QED BY <1>1, <1>2, <1>3, <1>4, <1>5

\* An accepted program has a node to build as long as it is not complete, and the worker
\* follows it: only an empty operand can stop it.
LEMMA WaveIs ==
    ASSUME NEW p, IsReply(p), Admitted(p), NEW objs, ObjectsOK(p, objs), DOMAIN objs # Ids(p),
           NEW ready, ready = {n \in Ids(p) \ DOMAIN objs : Needs(p, n) \subseteq DOMAIN objs}
    PROVE  WaveFaults(p, ready, objs) \subseteq {"EMPTY_MESH"}
<1>1. Closed(p)
  BY DEF Admitted, Closed, ProfilesBare
<1>2. ReferencesKnown(p) /\ Acyclic(p) /\ SourcesFit(p)
  BY DEF Admitted
<1>3. ready # {}
  <2> DEFINE S == Ids(p) \ DOMAIN objs
  <2>1. S \in (SUBSET Ids(p)) \ {{}}
    BY DEF ObjectsOK
  <2>2. PICK n \in S : Needs(p, n) \cap S = {}
    BY <1>2, <2>1 DEF Acyclic
  <2>3. Needs(p, n) \subseteq Ids(p)
    BY <1>2, NeedsKnown
  <2> QED BY <2>2, <2>3
<1>4. ASSUME NEW n \in Modified(p, ready), NEW u \in Uses(Node(p, n))
      PROVE  objs[u].type = "mesh"
  <2>1. n \in Ids(p) /\ Node(p, n).kind \in {"array", "modifier", "boolean"} /\ u \in DOMAIN objs
    BY <1>4 DEF Modified, Needs
  <2>2. PICK i \in DOMAIN p.nodes : Node(p, n) = p.nodes[i]
    BY <2>1, NodeIsOne
  <2>3. MeshSource(p, u)
    BY <1>2, <1>4, <2>1, <2>2 DEF SourcesFit
  <2> QED BY <2>1, <2>3 DEF ObjectsOK, ObjectOK
<1>5. ~\E n \in Modified(p, ready) :
          \E o \in {objs[u] : u \in Uses(Node(p, n))} : o.type # "mesh"
  BY <1>4
<1> DEFINE void ==
             \E n \in Booleans(p, ready) : \E o \in {objs[u] : u \in Uses(Node(p, n))} : o.hollow
<1>6. WaveFaults(p, ready, objs) = IF void THEN {"EMPTY_MESH"} ELSE {}
  BY <1>1, <1>3, <1>5 DEF WaveFaults
<1> QED BY <1>6

\* A wave of nodes is built, or stops the run.
LEMMA CompileWaveKeeps == ASSUME CognitiveInv, CompileWave PROVE CognitiveInv'
<1> DEFINE c     == First(Unbuilt)
           p     == scene.programs[c]
           objs  == IF c \in DOMAIN built THEN built[c] ELSE <<>>
           ready == {n \in Ids(p) \ DOMAIN objs : Needs(p, n) \subseteq DOMAIN objs}
           made(hollow) == [n \in ready |-> Finish(p, n, Raw(p, n, objs, hollow), objs)]
<1>1. /\ phase = "worker" /\ Unbuilt # {}
      /\ UNCHANGED <<plan, decided, catalogue, programs, scene, placed, served, revisions>>
  BY DEF CompileWave, planning
<1>2. \/ /\ WaveFaults(p, ready, objs) # {}
         /\ FailRun(CHOOSE f \in WaveFaults(p, ready, objs) : TRUE) /\ UNCHANGED built
      \/ /\ \E hollow \in SUBSET Voidable(p, ready) : built' = Build(c, Over(made(hollow), objs))
         /\ UNCHANGED <<phase, ask, turn, draft, revising, fault>>
      \/ FailRun("MODIFIER_FAILED") /\ UNCHANGED built
  BY DEF CompileWave
<1>3. c \in Unbuilt /\ c \in DOMAIN scene.programs
  BY <1>1, FirstIs, WorkerIs
<1>4. AcceptedFor(p, plan, c)
  BY <1>1, <1>3, WorkerIs DEF Accepted
<1>5. IsReply(p) /\ Admitted(p) /\ p.exact = FALSE
  BY <1>4 DEF AcceptedFor, PinnedTo
<1>6. ObjectsOK(p, objs) /\ DOMAIN objs # Ids(p)
  <2>1. CASE c \in DOMAIN built
    <3>1. ObjectsOK(p, built[c])
      BY <1>1, <1>3, <2>1, WorkerIs DEF BuiltOK
    <3>2. DOMAIN built[c] # Ids(p)
      BY <1>3, <2>1 DEF Unbuilt
    <3> QED BY <2>1, <3>1, <3>2
  <2>2. CASE c \notin DOMAIN built
    <3>1. DOMAIN objs = {}
      BY <2>2
    <3>2. Ids(p) # {}
      <4>1. p.nodes # <<>> /\ p.nodes \in Seq(ToSet(p.nodes))
        BY <1>5 DEF Admitted, FieldsOK, IsReply
      <4>2. 1 \in DOMAIN p.nodes
        BY <4>1
      <4> QED BY <4>2 DEF Ids
    <3> QED BY <3>1, <3>2 DEF ObjectsOK
  <2> QED BY <2>1, <2>2
<1> HIDE DEF c, p, objs
<1>7. WaveFaults(p, ready, objs) \subseteq {"EMPTY_MESH"}
  BY <1>5, <1>6, WaveIs
<1>8. CASE /\ WaveFaults(p, ready, objs) # {}
           /\ FailRun(CHOOSE f \in WaveFaults(p, ready, objs) : TRUE) /\ UNCHANGED built
  <2>1. FailRun("EMPTY_MESH")
    <3> DEFINE W == WaveFaults(p, ready, objs)
    <3>1. W = {"EMPTY_MESH"}
      BY <1>7, <1>8
    <3> HIDE DEF W
    <3>2. (CHOOSE f \in W : TRUE) = "EMPTY_MESH"
      BY <3>1
    <3> QED BY <1>8, <3>2 DEF W
  <2> QED BY <1>1, <1>8, <2>1, FailKeeps DEF Reasons, Broken
<1>9. CASE FailRun("MODIFIER_FAILED") /\ UNCHANGED built
  BY <1>1, <1>9, FailKeeps DEF Reasons, Broken
<1>10. CASE /\ \E hollow \in SUBSET Voidable(p, ready) : built' = Build(c, Over(made(hollow), objs))
            /\ UNCHANGED <<phase, ask, turn, draft, revising, fault>>
  <2>1. PICK hollow : built' = Build(c, Over(made(hollow), objs))
    BY <1>10
  <2> DEFINE f == made(hollow)
             g == Over(f, objs)
  <2>2. /\ DOMAIN f = ready
        /\ \A n \in ready : f[n] = Finish(p, n, Raw(p, n, objs, hollow), objs)
    OBVIOUS
  <2>3. \A n \in ready : ObjectOK(p, n, f[n])
    <3> SUFFICES ASSUME NEW n \in ready PROVE ObjectOK(p, n, f[n])
      OBVIOUS
    <3>1. /\ n \in Ids(p) /\ Uses(Node(p, n)) \subseteq DOMAIN objs
          /\ Needs(p, n) \subseteq DOMAIN objs
      BY DEF Needs
    <3>2. RawOK(p, n, Raw(p, n, objs, hollow))
      BY <1>5, <1>6, <3>1, RawIs
    <3>3. ObjectOK(p, n, Finish(p, n, Raw(p, n, objs, hollow), objs))
      <4>1. Sound(p)
        BY <1>5, AdmittedSound
      <4> QED BY <1>6, <3>1, <3>2, <4>1, FinishIs
    <3> QED BY <2>2, <3>3
  <2> HIDE DEF f
  <2>4. /\ DOMAIN g = DOMAIN f \cup DOMAIN objs /\ \A n \in DOMAIN f : g[n] = f[n]
        /\ \A n \in DOMAIN objs \ DOMAIN f : g[n] = objs[n]
    BY OverIs
  <2> HIDE DEF g
  <2>5. ObjectsOK(p, g)
    BY <1>6, <2>2, <2>3, <2>4 DEF ObjectsOK
  <2>6. built' = Over([d \in {c} |-> g], built)
    BY <2>1 DEF Build, g, f
  <2> DEFINE h == [d \in {c} |-> g]
  <2>7. DOMAIN h = {c} /\ h[c] = g
    OBVIOUS
  <2> HIDE DEF h
  <2>8. /\ DOMAIN built' = {c} \cup DOMAIN built /\ built'[c] = g
        /\ \A d \in DOMAIN built \ {c} : built'[d] = built[d]
    BY <2>6, <2>7 DEF Over, h
  <2>9. BuiltOK(scene, built')
    BY <1>1, <2>5, <2>8, WorkerIs DEF BuiltOK, p
  <2> QED BY <1>1, <1>10, <2>9, WorkerKeeps
<1> QED BY <1>2, <1>8, <1>9, <1>10

\* A catalogued file is imported, or refused.
LEMMA ImportExactKeeps == ASSUME CognitiveInv, ImportExact PROVE CognitiveInv'
<1> DEFINE c == First(Unimported)
           g == [catalog_asset |-> [type |-> "group", place |-> scene.exact[c].place]]
<1>1. /\ phase = "worker" /\ Unimported # {}
      /\ UNCHANGED <<plan, decided, catalogue, programs, scene, placed, served, revisions>>
  BY DEF ImportExact, planning
<1>2. CASE FailRun("SOURCE_REFUSED") /\ UNCHANGED built
  BY <1>1, <1>2, FailKeeps DEF Reasons, Broken
<1>3. CASE built' = Build(c, g) /\ UNCHANGED <<phase, ask, turn, draft, revising, fault>>
  <2>1. c \in Unimported
    BY <1>1, FirstIs, WorkerIs
  <2>2. c \notin DOMAIN scene.programs
    BY <1>1, <2>1, WorkerIs, ChosenIs
  <2> HIDE DEF c, g
  <2> DEFINE h == [d \in {c} |-> g]
  <2>3. DOMAIN h = {c} /\ built' = Over(h, built)
    BY <1>3 DEF Build
  <2> HIDE DEF h
  <2>4. /\ DOMAIN built' = {c} \cup DOMAIN built
        /\ \A d \in DOMAIN built \ {c} : built'[d] = built[d]
    BY <2>3 DEF Over
  <2>5. BuiltOK(scene, built')
    BY <1>1, <2>2, <2>4, WorkerIs DEF BuiltOK
  <2> QED BY <1>1, <1>3, <2>5, WorkerKeeps
<1> QED BY <1>2, <1>3 DEF ImportExact

\* The scene is certified, or refused.
LEMMA InspectKeeps == ASSUME CognitiveInv, Inspect PROVE CognitiveInv'
<1>1. /\ phase = "worker" /\ Unbuilt = {}
      /\ UNCHANGED <<plan, decided, catalogue, programs, scene, placed, built, revisions>>
  BY DEF Inspect, planning, building
<1>2. CASE FailRun("MESH_QA") /\ UNCHANGED served
  BY <1>1, <1>2, FailKeeps DEF Reasons, Broken
<1>3. CASE /\ phase' = "certified" /\ served' = scene /\ revising' = None
           /\ UNCHANGED <<ask, turn, draft, fault>>
  <2> USE DEF CognitiveInv
  <2>1. /\ CompiledOK(scene, plan, catalogue) /\ turn = 1 /\ draft = None
    BY <1>1, WorkerIs
  <2>2. \A c \in DOMAIN scene.programs :
           c \in DOMAIN built /\ DOMAIN built[c] = Ids(scene.programs[c])
    BY <1>1 DEF Unbuilt
  <2>3. PlanningOK'
    BY <1>1, <1>3 DEF PlanningOK, Phases, Late, Ended
  <2>4. DraftingOK'
    BY <1>1, <1>3, <2>1 DEF DraftingOK, Early, Late, Stages
  <2>5. SceneOK'
    BY <1>1, <1>3 DEF SceneOK
  <2>6. None \notin Chosen(plan, Generated)
    BY PlanIs DEF Chosen
  <2>7. HistoryOK'
    BY <1>1, <1>3, <2>1, <2>2, <2>6 DEF HistoryOK
  <2>8. AcceptedCompiles'
    BY <1>3 DEF AcceptedCompiles
  <2> QED BY <2>3, <2>4, <2>5, <2>7, <2>8
<1> QED BY <1>2, <1>3 DEF Inspect

-----------------------------------------------------------------------------
(* The revision of a design, and the catalogue.                            *)

\* What a certified design is revised from.
LEMMA CertifiedIs ==
    ASSUME CognitiveInv, phase = "certified"
    PROVE  /\ CompiledOK(served, plan, catalogue) /\ turn = 1 /\ draft = None
           /\ DOMAIN served.programs = Chosen(plan, Generated) /\ Accepted(served.programs, plan)
           /\ GraphOK(plan) /\ ~plan.clarify /\ DOMAIN served.exact = Catalogued(plan)
<1>1. CompiledOK(served, plan, catalogue) /\ turn = 1 /\ draft = None
  BY DEF CognitiveInv, HistoryOK, DraftingOK
<1>2. DOMAIN served.exact = Catalogued(plan)
  BY <1>1, PlacesIs
<1> QED BY <1>1, <1>2 DEF CompiledOK

\* A revision that starts.
LEMMA ReviseKeeps ==
    ASSUME CognitiveInv, NEW c \in Components(plan), NEW revised, Revise(c, revised),
           \/ phase' = "geometry" /\ c \in Chosen(plan, Generated) /\ revised = served
           \/ phase' = "compose" /\ c \notin Chosen(plan, Generated)
    PROVE  CognitiveInv'
<1> USE DEF CognitiveInv
<1>1. /\ phase = "certified" /\ revisions < Revisions /\ revisions' = revisions + 1
      /\ revising' = c /\ programs' = served.programs /\ scene' = revised
      /\ placed' = <<>> /\ built' = <<>> /\ fault' = None
      /\ UNCHANGED <<plan, decided, catalogue, ask, turn, draft, served>>
  BY DEF Revise, planning
<1>2. /\ CompiledOK(served, plan, catalogue) /\ turn = 1 /\ draft = None
      /\ DOMAIN served.programs = Chosen(plan, Generated) /\ Accepted(served.programs, plan)
      /\ GraphOK(plan) /\ ~plan.clarify
  BY <1>1, CertifiedIs
<1>3. c # None /\ DOMAIN placed' = {} /\ DOMAIN built' = {}
  BY <1>1, PlanIs
<1>4. revisions' \in 0 .. Revisions
  BY <1>1, BoundsAssumption DEF PlanningOK
<1>5. PlanningOK'
  BY <1>1, <1>2, <1>4 DEF PlanningOK, Phases, Late
<1>6. DraftingOK'
  BY <1>1, <1>2, <1>3 DEF DraftingOK, Early, Late, Stages
<1>7. SceneOK'
  BY <1>1, <1>3 DEF SceneOK, BuiltOK
<1>8. HistoryOK'
  BY <1>1, <1>2, <1>3 DEF HistoryOK, Late
<1>9. AcceptedCompiles'
  BY <1>1, AbsentAssumption DEF AcceptedCompiles, Reasons
<1> QED BY <1>5, <1>6, <1>7, <1>8, <1>9

\* A generated component is revised.
LEMMA RebuildKeeps ==
    ASSUME CognitiveInv, NEW c \in Components(plan), Rebuild(c) PROVE CognitiveInv'
  BY ReviseKeeps DEF Rebuild

\* A reused component is moved.
LEMMA MoveKeeps ==
    ASSUME CognitiveInv, NEW c \in Components(plan), NEW place, Move(c, place)
    PROVE  CognitiveInv'
<1> DEFINE revised == [served EXCEPT !.exact = [@ EXCEPT ![c] = [@ EXCEPT !.place = place]]]
<1>1. Revise(c, revised) /\ phase = "certified" /\ phase' = "compose" /\ c \in DOMAIN served.exact
  BY DEF Move
<1>2. c \notin Chosen(plan, Generated)
  BY <1>1, CertifiedIs, ChosenIs
<1> HIDE DEF revised
<1> QED BY <1>1, <1>2, ReviseKeeps

\* The catalogue changes.
LEMMA RequalifyKeeps ==
    ASSUME CognitiveInv, NEW a \in Assets, Requalify(a) PROVE CognitiveInv'
<1> USE DEF CognitiveInv
<1>1. UNCHANGED <<plan, decided, phase, ask, turn, draft, programs, placed, scene, built,
                  revising, served, revisions, fault>>
  BY DEF Requalify, planning, drafting, building, history
<1>2. /\ catalogue.changes \in Nat /\ catalogue'.changes = catalogue.changes + 1
      /\ catalogue' = [files |-> catalogue'.files, changes |-> catalogue'.changes]
  BY DEF Requalify, PlanningOK
<1>3. \A s : CompiledOK(s, plan, catalogue) => CompiledOK(s, plan, catalogue')
  BY <1>2, CompiledAged
<1>4. PlanningOK'
  BY <1>1, <1>2 DEF PlanningOK
<1>5. DraftingOK'
  <2>1. (Attempts)' = Attempts /\ ToDraft' = ToDraft
    BY <1>1 DEF Attempts, ToDraft
  <2>2. \A reply, notes : Pinned(reply, turn, notes)' = Pinned(reply, turn, notes)
    BY <1>1 DEF Pinned
  <2>3. DraftOK => DraftOK'
    BY <1>1, <2>1 DEF DraftOK, Pinned
  <2> QED BY <1>1, <2>3 DEF DraftingOK
<1>6. SceneOK'
  BY <1>1, <1>3 DEF SceneOK
<1>7. HistoryOK'
  BY <1>1, <1>3 DEF HistoryOK
<1>8. AcceptedCompiles'
  BY <1>1 DEF AcceptedCompiles
<1> QED BY <1>4, <1>5, <1>6, <1>7, <1>8

\* Nothing happens.
LEMMA NothingKeeps == ASSUME CognitiveInv, UNCHANGED designVars PROVE CognitiveInv'
  BY DEF CognitiveInv, designVars, PlanningOK, DraftingOK, DraftOK, Attempts, ToDraft, Pinned,
         SceneOK, HistoryOK, AcceptedCompiles

\* A request starts consistent.
LEMMA CognitiveStarts == ASSUME DesignInit PROVE CognitiveInv
<1> USE DEF DesignInit
<1>1. IsPlan(plan) /\ plan.components \in Seq(ToSet(plan.components))
  BY PlansAssumption DEF IsPlan
<1>2. DOMAIN programs = {} /\ DOMAIN placed = {} /\ DOMAIN built = {}
  OBVIOUS
<1>3. PlanningOK
  BY BoundsAssumption DEF PlanningOK, NoAsk, Phases, Early, Late, Ended, Stages
<1>4. DraftingOK
  BY <1>1, <1>2 DEF DraftingOK, Accepted, Early, Late, Stages
<1>5. SceneOK
  BY <1>2 DEF SceneOK, BuiltOK
<1>6. HistoryOK
  <2>1. None \notin Chosen(plan, Generated)
    <3>1. Components(plan) \subseteq Int
      BY <1>1 DEF Components
    <3> QED BY <3>1, AbsentAssumption DEF Chosen
  <2> QED BY <2>1 DEF HistoryOK, Late
<1>7. AcceptedCompiles
  BY AbsentAssumption DEF AcceptedCompiles, Reasons
<1> QED BY <1>3, <1>4, <1>5, <1>6, <1>7 DEF CognitiveInv

\* Every step keeps the design consistent.
LEMMA CognitiveSteps == ASSUME CognitiveInv, [DesignNext]_designVars PROVE CognitiveInv'
<1>1. CASE Work
  <2>1. CASE \/ RouteDomain \/ AskStage \/ JudgeGraph \/ JudgeDecisions \/ RouteSpecialists
             \/ \E c \in Components(plan) : DecideComponent(c)
    BY <2>1, RouteDomainKeeps, AskStageKeeps, JudgeGraphKeeps, JudgeDecisionsKeeps,
       RouteSpecialistsKeeps, DecideComponentKeeps
  <2>2. CASE SkipComponent \/ AskProgram \/ JudgeProgram \/ RepairProgram \/ AllDrafted
    BY <2>2, SkipComponentKeeps, AskProgramKeeps, JudgeProgramKeeps, RepairProgramKeeps,
       AllDraftedKeeps
  <2>3. CASE CheckComposition \/ PlaceWave \/ CompileScene
    BY <2>3, CheckCompositionKeeps, PlaceWaveKeeps, CompileSceneKeeps
  <2>4. CASE CompileWave \/ ImportExact \/ Inspect
    BY <2>4, CompileWaveKeeps, ImportExactKeeps, InspectKeeps
  <2> QED BY <1>1, <2>1, <2>2, <2>3, <2>4 DEF Work
<1>2. CASE Rest \/ UNCHANGED designVars
  BY <1>2, NothingKeeps DEF Rest
<1>3. CASE \E c \in Components(plan) : Rebuild(c)
  BY <1>3, RebuildKeeps
<1>4. CASE \E c \in Components(plan) : \E place \in {1, 3} : Move(c, place)
  BY <1>4, MoveKeeps
<1>5. CASE \E a \in Assets : Requalify(a)
  BY <1>5, RequalifyKeeps
<1> QED BY <1>1, <1>2, <1>3, <1>4, <1>5 DEF DesignNext

\* A design is always consistent, from its plan to what is built of it.
THEOREM DesignConsistent == DesignSpec => []CognitiveInv
<1>1. DesignInit => CognitiveInv
  BY CognitiveStarts
<1>2. CognitiveInv /\ [DesignNext]_designVars => CognitiveInv'
  BY CognitiveSteps
<1> QED BY <1>1, <1>2, PTL DEF DesignSpec

-----------------------------------------------------------------------------
(* What the invariant says of the runs' properties.                        *)

\* The built nodes of a complete component stand where the contract measured them.
LEMMA BuiltStands ==
    ASSUME CognitiveInv, phase = "worker"
    PROVE  EnvelopeContains
<1> SUFFICES ASSUME NEW c \in DOMAIN scene.programs, scene.programs[c].limit # None, Complete(c),
                    NEW m \in Visible(scene.programs[c]), NEW n \in Visible(scene.programs[c])
             PROVE  InWorld(c, m)[2] - InWorld(c, n)[1] <= scene.programs[c].limit
  BY DEF EnvelopeContains
<1> DEFINE p == scene.programs[c]
<1>1. AcceptedFor(p, plan, c) /\ BuiltOK(scene, built) /\ c \in Components(plan)
  BY WorkerIs DEF Accepted, Chosen
<1>2. IsReply(p) /\ Admitted(p) /\ p.limit = plan.components[c].limit /\ Sound(p)
  BY <1>1, AdmittedSound DEF AcceptedFor, PinnedTo
<1>3. p.limit \in Nat
  BY <1>1, <1>2, PlanIs, AbsentAssumption DEF IsPlan
<1>4. DOMAIN built[c] = Ids(p) /\ ObjectsOK(p, built[c])
  BY <1>1 DEF Complete, BuiltOK
<1>5. \A k \in Visible(p) : InWorld(c, k) = Standing(p, k)
  BY <1>4 DEF ObjectsOK, ObjectOK, InWorld, Standing, Visible
<1>6. Height(p) <= p.limit
  BY <1>2 DEF Admitted, WithinLimit
<1> HIDE DEF p
<1>7. /\ Envelope(p) \in ExtentSet /\ Envelope(p)[1] <= Standing(p, n)[1]
      /\ Standing(p, m)[2] <= Envelope(p)[2]
  BY <1>2, EnvelopeIs DEF p
<1>8. Standing(p, n) \in ExtentSet /\ Standing(p, m) \in ExtentSet
  BY <1>2, MeasuresType DEF Visible, p
<1>9. Standing(p, m)[2] - Standing(p, n)[1] <= p.limit
  BY <1>3, <1>6, <1>7, <1>8 DEF Height, ExtentSet
<1> QED BY <1>5, <1>9 DEF p

\* A border comes from a terrain or an open profile.
LEMMA BuiltClosed ==
    ASSUME CognitiveInv
    PROVE  SurfacesClosed
<1> SUFFICES ASSUME phase = "worker", NEW c \in DOMAIN built \cap DOMAIN scene.programs,
                    NEW n \in DOMAIN built[c], built[c][n].border
             PROVE  \E m \in Made(scene.programs[c], n) : Bordered(scene.programs[c], m)
  BY DEF SurfacesClosed
<1>1. ObjectsOK(scene.programs[c], built[c])
  BY WorkerIs DEF BuiltOK
<1> QED BY <1>1 DEF ObjectsOK, ObjectOK

\* The invariant says what the run checks of a built component.
LEMMA BuiltIsJudged ==
    ASSUME CognitiveInv
    PROVE  BuiltAsJudged
<1>1. DesignTypeOK
  <2>1. \A c \in DOMAIN built :
           c \in DOMAIN scene.programs => DOMAIN built[c] \subseteq Ids(scene.programs[c])
    BY DEF CognitiveInv, SceneOK, BuiltOK, ObjectsOK
  <2>2. phase \in Phases /\ plan \in Plans /\ decided \subseteq Components(plan)
        /\ ask \in [format : {"strict", "object"}, retries : 0 .. 2, repairs : 0 .. MaxRepairs]
        /\ revisions \in 0 .. Revisions /\ fault \in Reasons \cup {None}
    BY DEF CognitiveInv, PlanningOK
  <2>3. turn \in 1 .. Len(plan.components) + 1 /\ DOMAIN programs \subseteq Chosen(plan, Generated)
    BY DEF CognitiveInv, DraftingOK
  <2>4. DOMAIN placed \subseteq Catalogued(plan) /\ revising \in Components(plan) \cup {None}
    BY DEF CognitiveInv, SceneOK, HistoryOK
  <2> QED BY <2>1, <2>2, <2>3, <2>4 DEF DesignTypeOK, Phases, Early, Late
<1>2. StandsOnGround
  BY DEF CognitiveInv, DraftingOK, Accepted, AcceptedFor, GroundKept, StandsOnGround
<1>3. EnvelopeContains
  BY BuiltStands DEF EnvelopeContains
<1> QED BY <1>1, <1>2, <1>3, BuiltClosed DEF BuiltAsJudged, CognitiveInv

\* The worker refuses no program the contract admits, and builds it within the measured envelope,
\* without a border and on the ground but for what a lift turns down
\* (core/contracts/geometry_program.py, core/agents/geometry_program_planner.py,
\* apps/blender_worker/geometry_program_compiler.py).
THEOREM WorkerBuildsAsJudged == DesignSpec => []BuiltAsJudged
  BY DesignConsistent, BuiltIsJudged, PTL


\* Every catalogued place of a compiled scene is a number.
LEMMA PlacedIsNumber ==
    ASSUME NEW s, NEW K, IsPlan(plan), CompiledOK(s, plan, K), Linking(plan) # {}
    PROVE  \A c \in Catalogued(plan) : Places(s)[c] \in Int
<1> DEFINE places == Places(s)
           S == {c \in Linking(plan) : places[c] \notin Int}
<1>1. DOMAIN places = Catalogued(plan) /\ Standings(places, plan)
  BY PlacesIs
<1>2. Composes(plan)
  BY DEF CompiledOK
<1>3. \A c \in Reusing(plan) : places[c] \in Int
  <2> SUFFICES ASSUME NEW c \in Reusing(plan) PROVE places[c] \in Int
    OBVIOUS
  <2>1. places[c] = plan.decisions[c].placement /\ c \in Components(plan)
    BY <1>1 DEF Standings, Reusing, Chosen
  <2>2. plan.decisions[c].placement # Nothing
    BY <1>2 DEF Composes, CompositionFaults, Linking, Reusing
  <2> QED BY <2>1, <2>2 DEF IsPlan
<1>4. \A c \in Linking(plan) : Driver(plan, c).offset \in Int
  <2> SUFFICES ASSUME NEW c \in Linking(plan) PROVE Driver(plan, c).offset \in Int
    OBVIOUS
  <2>1. Drivers(plan, c) # {} /\ \A i \in Binding(plan) : Aligns(plan, i)
    BY <1>2 DEF Composes, CompositionFaults, Linking
  <2>2. PICK i \in Drivers(plan, c) : Driver(plan, c) = plan.relations[i]
    BY <2>1 DEF Driver
  <2>3. i \in Binding(plan) /\ i \in DOMAIN plan.relations
    BY <2>2 DEF Drivers, Binding
  <2>4. plan.relations[i].offset # Nothing
    BY <2>1, <2>3 DEF Aligns
  <2> QED BY <2>2, <2>3, <2>4 DEF IsPlan
<1>5. S = {}
  <2> SUFFICES ASSUME S # {} PROVE FALSE
    OBVIOUS
  <2>1. S \in SUBSET (DOMAIN places \cap Linking(plan))
    BY <1>1, ChosenIs
  <2>2. PICK c \in S : TargetOf(plan, c) \notin S
    BY <1>1, <2>1 DEF Standings
  <2>3. TargetOf(plan, c) \in Catalogued(plan)
        /\ places[c] = places[TargetOf(plan, c)] + Driver(plan, c).offset
    BY <1>1, <2>1, <2>2 DEF Standings
  <2>4. places[TargetOf(plan, c)] \in Int
    BY <1>3, <2>2, <2>3, ChosenIs
  <2> QED BY <1>4, <2>2, <2>3, <2>4
<1> QED BY <1>3, <1>5, ChosenIs

\* One required alignment decides where a component of a compiled scene stands.
LEMMA AlignedStands ==
    ASSUME CognitiveInv, phase = "worker"
    PROVE  PlacementsHold
<1> SUFFICES ASSUME NEW i \in DOMAIN plan.relations, plan.relations[i].required,
                    plan.relations[i].kind = "aligned_with",
                    {Component(plan, plan.relations[i].source),
                     Component(plan, plan.relations[i].target)} \subseteq DOMAIN scene.exact
             PROVE  scene.exact[Component(plan, plan.relations[i].source)].place
                      - scene.exact[Component(plan, plan.relations[i].target)].place
                      = plan.relations[i].offset
  BY DEF PlacementsHold
<1> DEFINE r == plan.relations[i]
           s == Component(plan, r.source)
           t == Component(plan, r.target)
           places == Places(scene)
<1>1. /\ CompiledOK(scene, plan, catalogue) /\ IsPlan(plan)
      /\ s \in Catalogued(plan) /\ t \in Catalogued(plan)
      /\ places[s] = scene.exact[s].place /\ places[t] = scene.exact[t].place
      /\ Standings(places, plan) /\ DOMAIN places = Catalogued(plan)
  BY WorkerIs, PlanIs, PlacesIs
<1>2. GraphOK(plan) /\ Composes(plan) /\ Related(plan)
  BY <1>1 DEF CompiledOK
<1>3. plan.components[s].id = r.source /\ s \in Components(plan)
  BY <1>2, SMTT(30) DEF GraphOK, Keys, Component, Components
<1>4. i \in Binding(plan)
  BY <1>1, <1>3, ChosenIs DEF Binding, Touches
<1>5. Linking(plan) # {}
  BY <1>2, <1>4 DEF Related
<1>6. Aligns(plan, i) /\ s \in Linking(plan) /\ ~(Cardinality(Drivers(plan, s)) > 1)
  BY <1>2, <1>4, <1>5 DEF Composes, CompositionFaults, Aligns, Linking
<1>7. i \in Drivers(plan, s)
  BY <1>3, <1>4 DEF Drivers
<1>8. Drivers(plan, s) = {i}
  <2> DEFINE D == Drivers(plan, s)
  <2>1. IsFiniteSet(D)
    <3>1. DOMAIN plan.relations = 1 .. Len(plan.relations) /\ Len(plan.relations) \in Nat
      BY <1>1 DEF IsPlan
    <3>2. IsFiniteSet(DOMAIN plan.relations)
      BY <3>1, FS_Interval
    <3> QED BY <3>2, FS_Subset DEF Drivers, Binding
  <2> HIDE DEF D
  <2>2. Cardinality(D) \in Nat /\ Cardinality(D \ {i}) = Cardinality(D) - 1
        /\ IsFiniteSet(D \ {i})
    BY <1>7, <2>1, FS_CardinalityType, FS_RemoveElement DEF D
  <2>3. Cardinality(D \ {i}) = 0
    BY <1>6, <2>2, FS_CardinalityType DEF D
  <2>4. D \ {i} = {}
    BY <2>2, <2>3, FS_EmptySet
  <2> QED BY <1>7, <2>4 DEF D
<1>9. Driver(plan, s) = r /\ TargetOf(plan, s) = t
  BY <1>8 DEF Driver, TargetOf
<1>10. places[s] = places[t] + r.offset
  BY <1>1, <1>6, <1>9 DEF Standings
<1>11. places[t] \in Int /\ r.offset \in Int
  <2>1. r.offset # Nothing
    BY <1>6 DEF Aligns
  <2> QED BY <1>1, <1>5, <2>1, PlacedIsNumber DEF IsPlan
<1> HIDE DEF places
<1> QED BY <1>1, <1>10, <1>11

\* Every component of a compiled scene is generated or catalogued.
LEMMA EveryChosen ==
    ASSUME NEW s, NEW p, NEW K, IsPlan(p), CompiledOK(s, p, K)
    PROVE  Chosen(p, Generated) \cup Catalogued(p) = Components(p)
<1>1. Chosen(p, Blocked) = {} /\ Chosen(p, {"adapt"}) = {}
  BY DEF CompiledOK, SceneFaults
<1>2. \A c \in Components(p) : p.decisions[c].strategy \in Strategies
  BY DEF IsPlan
<1>3. \A s1 \in Strategies :
         s1 \in Generated \/ s1 \in Exact \/ s1 \in {"adapt"} \/ s1 \in Blocked
  BY DEF Strategies, Sourced, Generated, Exact
<1>4. \A c \in Components(p) : c \in Chosen(p, Generated) \/ c \in Chosen(p, Exact)
  BY <1>1, <1>2, <1>3, Zenon DEF Chosen
<1> QED BY <1>4 DEF Chosen, Catalogued

\* A certified scene has every component of the plan, in its role and number.
LEMMA CertifiedCovers ==
    ASSUME CognitiveInv
    PROVE  ServedCoversPlan
<1> SUFFICES ASSUME phase = "certified", fault = None
             PROVE  /\ DOMAIN served.programs \cup DOMAIN served.exact = Components(plan)
                    /\ \A c \in DOMAIN served.programs :
                         /\ served.programs[c].role = plan.components[c].role
                         /\ Cardinality({n \in DOMAIN built[c] : built[c][n].role})
                              >= plan.components[c].quantity
  BY DEF ServedCoversPlan
<1>1. /\ CompiledOK(served, plan, catalogue) /\ DOMAIN served.programs = Chosen(plan, Generated)
      /\ DOMAIN served.exact = Catalogued(plan) /\ Accepted(served.programs, plan)
  BY CertifiedIs
<1>2. /\ scene = served /\ BuiltOK(scene, built)
      /\ \A c \in DOMAIN scene.programs :
            c \in DOMAIN built /\ DOMAIN built[c] = Ids(scene.programs[c])
  BY DEF CognitiveInv, HistoryOK, SceneOK
<1>3. Chosen(plan, Generated) \cup Catalogued(plan) = Components(plan)
  BY <1>1, PlanIs, EveryChosen
<1>4. ASSUME NEW c \in DOMAIN served.programs
      PROVE  /\ served.programs[c].role = plan.components[c].role
             /\ Cardinality({n \in DOMAIN built[c] : built[c][n].role})
                  >= plan.components[c].quantity
  <2> DEFINE p == served.programs[c]
             A == Carriers(p)
             B == {n \in DOMAIN built[c] : built[c][n].role}
             f == [i \in A |-> p.nodes[i].id]
  <2>1. IsReply(p) /\ Admitted(p) /\ PinnedTo(p, plan, c)
    BY <1>1 DEF Accepted, AcceptedFor
  <2>2. ObjectsOK(p, built[c]) /\ DOMAIN built[c] = Ids(p)
    BY <1>2 DEF BuiltOK
  <2>3. UniqueIds(p) /\ Cardinality(A) = plan.components[c].quantity
    BY <2>1 DEF Admitted, RoleCarried, PinnedTo
  <2> HIDE DEF p
  <2>4. \A i \in A : i \in DOMAIN p.nodes /\ p.nodes[i].role
    BY DEF Carriers
  <2>5. \A i \in A : f[i] \in B
    <3> SUFFICES ASSUME NEW i \in A PROVE p.nodes[i].id \in B
      OBVIOUS
    <3>1. Node(p, p.nodes[i].id) = p.nodes[i] /\ p.nodes[i].id \in Ids(p)
      BY <2>1, <2>3, <2>4, NodeIs DEF Ids
    <3>2. built[c][p.nodes[i].id].role
      BY <2>2, <2>4, <3>1 DEF ObjectsOK, ObjectOK
    <3> QED BY <2>2, <3>1, <3>2
  <2>6. \A i, j \in A : f[i] = f[j] => i = j
    BY <2>1, <2>3, <2>4, NodeIs
  <2>7. IsFiniteSet(A) /\ IsFiniteSet(B)
    <3>1. IsFiniteSet(Ids(p)) /\ IsFiniteSet(DOMAIN p.nodes)
      BY <2>1, FiniteIds
    <3> QED BY <2>2, <3>1, FS_Subset DEF Carriers
  <2>8. Cardinality(A) <= Cardinality(B)
    <3>1. f \in Injection(A, B)
      BY <2>5, <2>6 DEF Injection, IsInjective
    <3> HIDE DEF f, A, B
    <3> QED BY <2>7, <3>1, FS_Injection
  <2>9. Cardinality(B) \in Nat /\ Cardinality(A) \in Nat
    BY <2>7, FS_CardinalityType
  <2> QED BY <2>1, <2>3, <2>8, <2>9 DEF PinnedTo, p
<1> QED BY <1>1, <1>3, <1>4

\* A certified scene has every component of the plan in its role and number, and what is aligned
\* stands where its relation says (core/services/cognitive_composition.py,
\* core/services/cognitive_scene_compiler.py).
THEOREM ServedIsPlanned == DesignSpec => []ServedAsPlanned
<1>1. CognitiveInv => ServedAsPlanned
  BY AlignedStands, CertifiedCovers DEF ServedAsPlanned, PlacementsHold
<1> QED BY <1>1, DesignConsistent, PTL


-----------------------------------------------------------------------------
(* What an accepted program changes, it tells.                             *)

\* Only the judgement of a draft accepts a program, the one it has adjusted.
LEMMA AcceptedByJudge ==
    ASSUME CognitiveInv, [DesignNext]_designVars, Accepting
    PROVE  /\ phase = "geometry" /\ ~draft.judged
           /\ programs'[turn] = Final(draft.program, ask.repairs = MaxRepairs)
<1>1. phase = "geometry" /\ turn \in Nat \ {0}
  <2>1. turn \in 1 .. Len(plan.components) + 1 /\ Len(plan.components) \in Nat
    BY PlanIs DEF CognitiveInv, DraftingOK
  <2> QED BY <2>1 DEF Accepting, CognitiveInv, DraftingOK
<1>2. ~\E why \in Reasons : FailRun(why)
  BY <1>1 DEF FailRun, Accepting
<1>3. turn' # turn
  BY <1>1 DEF Accepting
<1>4. JudgeProgram
  <2>1. Work
    BY <1>1, <1>3 DEF DesignNext, designVars, Rest, Ended, Rebuild, Move, Revise, Requalify,
       drafting
  <2>2. JudgeProgram \/ RepairProgram
    BY <1>1, <1>3, <2>1 DEF Work, RouteDomain, AskStage, Stages, JudgeGraph, DecideComponent,
       JudgeDecisions, RouteSpecialists, SkipComponent, AskProgram, AllDrafted, CheckComposition,
       PlaceWave, CompileScene, CompileWave, ImportExact, Inspect, Accepting
  <2>3. ~RepairProgram
    <3> SUFFICES ASSUME RepairProgram PROVE FALSE
      OBVIOUS
    <3>1. FailRun("GEOMETRY_REQUEST")
      BY <1>3 DEF RepairProgram
    <3> QED BY <1>2, <3>1 DEF Reasons
  <2> QED BY <2>2, <2>3
<1> DEFINE last  == ask.repairs = MaxRepairs
           final == Final(draft.program, last)
<1>5. \/ FailRun("GEOMETRY_INVALID")
      \/ AcceptProgram(final)
      \/ turn' = turn
  BY <1>4 DEF JudgeProgram, Final
<1> HIDE DEF final
<1>6. AcceptProgram(final)
  BY <1>2, <1>3, <1>5 DEF Reasons
<1>7. programs'[turn] = final
  BY <1>6 DEF AcceptProgram, Over
<1>8. ~draft.judged
  BY <1>4 DEF JudgeProgram
<1> QED BY <1>1, <1>7, <1>8 DEF final

\* What an adjusted program changes of its nodes, it tells.
LEMMA FollowingTells ==
    ASSUME NEW p, NEW q, NEW r, NEW k, Follows(p, r, k), r.nodes = q.nodes,
           NEW kinds, NEW f \in NodeFields, NEW words,
           \A kind \in kinds : Telling(kind, f) \subseteq words, Changed(p, q, kinds, f)
    PROVE  Tells(p, words)
<1>1. DOMAIN p.nodes = DOMAIN r.nodes /\ Disclosed(p, r)
  BY DEF Follows, Owned
<1>2. PICK i \in DOMAIN p.nodes : r.nodes[i].kind \in kinds /\ p.nodes[i][f] # r.nodes[i][f]
  BY DEF Changed
<1>3. Range(p.notes) \cap Telling(r.nodes[i].kind, f) # {}
  BY <1>1, <1>2 DEF Disclosed
<1> QED BY <1>2, <1>3 DEF Tells

\* What an accepted program changes of the reply it comes from, its adjustments tell
\* (core/agents/geometry_program_planner.py).
THEOREM AdjustmentsAreTold == DesignSpec => ChangesAreDisclosed
<1>1. ASSUME CognitiveInv, [DesignNext]_designVars
      PROVE  Disclosing
  <2> SUFFICES ASSUME Accepting PROVE Disclosing
    BY DEF Disclosing
  <2> DEFINE p == programs'[turn]
             q == draft.reply
             r == draft.program
             last == ask.repairs = MaxRepairs
  <2>1. phase = "geometry" /\ draft # None /\ ~draft.judged /\ p = Final(r, last)
    BY <1>1, AcceptedByJudge DEF Accepting
  <2>2. /\ IsReply(r) /\ Notes(r) /\ Len(r.notes) <= 12 /\ r.nodes = q.nodes
        /\ r.construction = q.construction /\ r.limit \in (Nat \ {0}) \cup {None}
    BY <1>1, <2>1, DraftIs
  <2> HIDE DEF last
  <2>3. Follows(p, r, 4)
    BY <2>1, <2>2, FinalIs
  <2> DEFINE shapes == Kinds \ {"profile"}
             profile == {"profile"}
  <2> HIDE DEF p, q, r
  <2>4. /\ \A k \in shapes : /\ Telling(k, "at") \subseteq {"ground", "fit"}
                            /\ Telling(k, "scale") \subseteq {"fit"}
        /\ \A k \in Kinds : Telling(k, "gaps") \subseteq {"points"}
        /\ \A k \in profile : \A f \in {"at", "scale"} : Telling(k, f) \subseteq {"profiles"}
        /\ \A k \in Kinds : \A f \in {"turned", "role", "clad", "parent"} :
              Telling(k, f) \subseteq {"profiles"}
    BY DEF Telling
  <2>5. {"at", "scale", "gaps", "turned", "role", "clad", "parent"} \subseteq NodeFields
    BY DEF NodeFields
  <2> HIDE DEF shapes, profile
  <2>6. Changed(p, q, shapes, "at") => Tells(p, {"ground", "fit"})
    BY <2>2, <2>3, <2>4, <2>5, FollowingTells
  <2>7. Changed(p, q, shapes, "scale") => Tells(p, {"fit"})
    BY <2>2, <2>3, <2>4, <2>5, FollowingTells
  <2>8. Changed(p, q, Kinds, "gaps") => Tells(p, {"points"})
    BY <2>2, <2>3, <2>4, <2>5, FollowingTells
  <2>9. ASSUME NEW f \in {"at", "scale"}, Changed(p, q, profile, f)
        PROVE  Tells(p, {"profiles"})
    BY <2>2, <2>3, <2>4, <2>5, <2>9, FollowingTells
  <2>10. ASSUME NEW f \in {"turned", "role", "clad", "parent"}, Changed(p, q, Kinds, f)
         PROVE  Tells(p, {"profiles"})
    BY <2>2, <2>3, <2>4, <2>5, <2>10, FollowingTells
  <2>11. p.construction # q.construction => Tells(p, {"profiles"})
    BY <2>2, <2>3 DEF Follows, Disclosed, Tells
  <2> QED
    BY <2>6, <2>7, <2>8, <2>9, <2>10, <2>11 DEF Disclosing, p, q, shapes, profile
<1>2. CognitiveInv /\ [DesignNext]_designVars => [Disclosing]_designVars
  BY <1>1
<1> QED BY <1>2, DesignConsistent, PTL DEF DesignSpec, ChangesAreDisclosed


-----------------------------------------------------------------------------
(* What was certified compiles again.                                      *)

\* The faults of a scene are those of the roles and numbers of its programs.
LEMMA SceneFaultsSame ==
    ASSUME NEW p, NEW f, NEW g, DOMAIN f = DOMAIN g,
           \A c \in DOMAIN f : f[c].role = g[c].role /\ f[c].quantity = g[c].quantity,
           SceneFaults(p, f) = {}
    PROVE  SceneFaults(p, g) = {}
<1> DEFINE R(h) == {h[c].role : c \in DOMAIN h}
           W == {p.components[c].role : c \in Chosen(p, Generated)}
           M(h) == \E c \in Chosen(p, Generated) : \E x \in Range(h) :
                      x.role = p.components[c].role /\ x.quantity # p.components[c].quantity
<1>1. R(f) = R(g)
  OBVIOUS
<1>2. M(g) => M(f)
  <2> SUFFICES ASSUME NEW c \in Chosen(p, Generated), NEW d \in DOMAIN g,
                      g[d].role = p.components[c].role, g[d].quantity # p.components[c].quantity
               PROVE  M(f)
    BY DEF Range
  <2>1. f[d] \in Range(f) /\ f[d].role = p.components[c].role
        /\ f[d].quantity # p.components[c].quantity
    BY DEF Range
  <2> QED BY <2>1
<1>3. \A h : SceneFaults(p, h) = {} <=>
        /\ ~p.clarify /\ Chosen(p, Blocked) = {} /\ Chosen(p, {"adapt"}) = {}
        /\ ~(Cardinality(R(h)) < Cardinality(DOMAIN h))
        /\ W \subseteq R(h) /\ R(h) \subseteq W /\ ~M(h)
  BY DEF SceneFaults
<1> HIDE DEF R, W, M
<1> QED BY <1>1, <1>2, <1>3

\* What is refused for the scene is refused where the scene is compiled.
LEMMA RefusedAtScene ==
    ASSUME CognitiveInv, [DesignNext]_designVars, SceneRefused
    PROVE  \/ /\ phase = "compose"
              /\ SceneFaults(plan, programs) \cup CompositionFaults(plan) # {}
           \/ phase = "placing" /\ Pending # {} /\ Placeable = {}
           \/ /\ phase = "placing" /\ Pending = {}
              /\ \/ Differs
                 \/ \E c \in Catalogued(plan) :
                       ReuseFaults(catalogue.files, plan, c, placed[c]) # {}
<1> DEFINE Names == {"SCENE_REFUSED", "COMPOSITION_CYCLE", "DIFFERS"}
<1>1. fault' # fault /\ fault' \in Names
  BY AbsentAssumption DEF SceneRefused, Reasons
<1>2. ~UNCHANGED fault
  BY <1>1
<1>3. \A why \in Reasons \ Names : ~FailRun(why)
  BY <1>1 DEF FailRun
<1>4. Work
  <2>1. CASE Rest \/ UNCHANGED designVars \/ \E a \in Assets : Requalify(a)
    BY <1>2, <2>1 DEF Rest, Requalify, designVars
  <2>2. ASSUME NEW c, NEW s, Revise(c, s) PROVE FALSE
    BY <1>1, <2>2, AbsentAssumption DEF Revise, Reasons
  <2> QED BY <2>1, <2>2 DEF DesignNext, Rebuild, Move
<1>5. ~(RouteDomain \/ AskStage \/ JudgeGraph \/ JudgeDecisions \/ RouteSpecialists)
  BY <1>2, <1>3 DEF RouteDomain, AskStage, JudgeGraph, JudgeDecisions, RouteSpecialists, Reasons
<1>6. ~(SkipComponent \/ AskProgram \/ RepairProgram \/ AllDrafted \/ Inspect \/ ImportExact
        \/ \E c \in Components(plan) : DecideComponent(c))
  BY <1>2, <1>3 DEF SkipComponent, AskProgram, RepairProgram, AllDrafted, Inspect, ImportExact,
     DecideComponent, Reasons
<1>7. ~JudgeProgram
  BY <1>2, <1>3 DEF JudgeProgram, AcceptProgram, Reasons
<1>8. ~CompileWave
  <2> SUFFICES ASSUME CompileWave PROVE FALSE
    OBVIOUS
  <2>1. ASSUME NEW p, NEW ns, NEW objs, WaveFaults(p, ns, objs) # {}
        PROVE  (CHOOSE f \in WaveFaults(p, ns, objs) : TRUE) \in Reasons \ Names
    <3>1. WaveFaults(p, ns, objs) \subseteq Reasons \ Names
      BY DEF WaveFaults, Reasons
    <3> QED BY <2>1, <3>1
  <2> QED BY <1>2, <1>3, <2>1 DEF CompileWave, Reasons
<1>9. CheckComposition \/ PlaceWave \/ CompileScene
  BY <1>4, <1>5, <1>6, <1>7, <1>8 DEF Work
<1> QED BY <1>2, <1>9 DEF CheckComposition, PlaceWave, CompileScene

\* While a generated component is revised and the catalogue has not changed, nothing of the scene
\* is refused.
LEMMA GeneratedCompilesAgain ==
    ASSUME CognitiveInv, [DesignNext]_designVars
    PROVE  Reproducing
<1> SUFFICES ASSUME served # None, SceneRefused, ~(catalogue.changes > served.at),
                    revising \notin Catalogued(plan)
             PROVE  FALSE
  BY DEF Reproducing
<1>1. phase \in {"compose", "placing"}
  BY RefusedAtScene
<1>2. IsPlan(plan) /\ None \notin Components(plan)
  BY PlanIs
<1>3. revising # None /\ CompiledOK(served, plan, catalogue)
  BY <1>1 DEF CognitiveInv, HistoryOK
<1>4. revising \in Chosen(plan, Generated)
  BY <1>2, <1>3, EveryChosen DEF CognitiveInv, HistoryOK
<1>5. /\ scene = served
      /\ phase = "placing" => \A c \in DOMAIN placed : placed[c] = served.exact[c].place
  BY <1>1, <1>4 DEF CognitiveInv, HistoryOK, Late
<1>6. Current(served, plan, catalogue.files)
  BY <1>3 DEF CompiledOK, CognitiveInv, PlanningOK
<1>7. DOMAIN programs = Chosen(plan, Generated) /\ Accepted(programs, plan)
  BY <1>1 DEF CognitiveInv, DraftingOK, Late
<1>8. SceneFaults(plan, programs) = {} /\ CompositionFaults(plan) = {}
  <2>1. /\ DOMAIN served.programs = Chosen(plan, Generated) /\ Accepted(served.programs, plan)
        /\ SceneFaults(plan, served.programs) = {} /\ Composes(plan)
    BY <1>3 DEF CompiledOK
  <2>2. \A c \in DOMAIN programs : /\ served.programs[c].role = programs[c].role
                                   /\ served.programs[c].quantity = programs[c].quantity
    BY <1>7, <2>1 DEF Accepted, AcceptedFor, PinnedTo
  <2> QED BY <1>7, <2>1, <2>2, SceneFaultsSame DEF Composes
<1>9. phase = "placing" => Standings(placed, plan)
  BY DEF CognitiveInv, SceneOK
<1>10. phase = "placing" /\ Pending # {} => Placeable # {}
  <2> SUFFICES ASSUME phase = "placing", Pending # {} PROVE Placeable # {}
    OBVIOUS
  <2>1. /\ DOMAIN Places(served) = Catalogued(plan) /\ Standings(Places(served), plan)
    BY <1>3, PlacesIs
  <2>2. Pending \in SUBSET (DOMAIN Places(served) \cap Linking(plan))
    BY <2>1, ChosenIs DEF Pending
  <2>3. PICK c \in Pending : TargetOf(plan, c) \notin Pending
    BY <2>1, <2>2 DEF Standings
  <2>4. TargetOf(plan, c) \in Catalogued(plan)
    BY <2>1, <2>2 DEF Standings
  <2>5. TargetOf(plan, c) \in DOMAIN placed
    BY <1>9, <2>3, <2>4, ChosenIs DEF Pending, Standings
  <2> QED BY <2>3, <2>5, TargetIs DEF Placeable
<1>11. ASSUME phase = "placing", Pending = {}
       PROVE  /\ ~Differs
              /\ \A c \in Catalogued(plan) :
                    ReuseFaults(catalogue.files, plan, c, placed[c]) = {}
  <2>1. DOMAIN placed = Catalogued(plan)
    BY <1>9, <1>11, AllPlaced
  <2>2. \A c \in Catalogued(plan) : placed[c] = served.exact[c].place
    BY <1>5, <1>11, <2>1
  <2>3. \A c \in Catalogued(plan) : ReuseFaults(catalogue.files, plan, c, placed[c]) = {}
    BY <1>6, <2>2 DEF Current
  <2>4. served.exact = [c \in Catalogued(plan) |-> served.exact[c]]
    BY <1>3 DEF CompiledOK
  <2>5. Compiled = served.exact
    BY <1>6, <2>2, <2>4 DEF Compiled, Current
  <2> QED BY <1>5, <2>3, <2>5 DEF Differs
<1> QED BY <1>8, <1>10, <1>11, RefusedAtScene

\* The revision of a generated component compiles again what the catalogue has not changed
\* (core/agents/scene_edit_agent.py, core/services/cognitive_scene_compiler.py).
THEOREM RevisionsReproduce == DesignSpec => RevisionReproduces
<1>1. CognitiveInv /\ [DesignNext]_designVars => [Reproducing]_designVars
  BY GeneratedCompilesAgain
<1> QED BY <1>1, DesignConsistent, PTL DEF DesignSpec, RevisionReproduces
================================================================================
