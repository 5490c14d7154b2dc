---------------------------- MODULE PushDispatch ----------------------------
(***************************************************************************)
(* The push outbox of one user: notification_events, the Expo tickets in   *)
(* notification_deliveries, and the push-dispatch invocations that claim   *)
(* events and send them.  An invocation processes its claimed events side  *)
(* by side; a task <<d, e>> is invocation d at work on event e, and it     *)
(* takes one action per awaited call.  A call may fail, and the answer of  *)
(* a call that took effect may be lost.                                    *)
(***************************************************************************)
EXTENDS Naturals, FiniteSets

CONSTANTS Events,       \* notification_events ids
          Tokens,       \* push_tokens rows of the user
          Dispatchers,  \* concurrent push-dispatch invocations
          ReplayIds,    \* client_request_ids of operators' replays
          ChunkSize,    \* MAX_MESSAGES_PER_REQUEST (100)
          BatchSize,    \* requested_batch_size (20, at most 25)
          HttpTries,    \* attempts of fetchExpoJsonWithRetry (3)
          MaxAttempts,  \* claims of an event (5)
          MaxSends,     \* bound: times Expo accepts one event for one token
          Overlap       \* may an event be claimed while a task works on it?

ASSUME DispatchConstants ==
    /\ {ChunkSize, BatchSize, HttpTries, MaxAttempts} \subseteq Nat \ {0}
    /\ MaxSends \in Nat
    /\ Overlap \in BOOLEAN

VARIABLES
    active,    \* tokens with disabled_at null and token_expires_at ahead
    estatus,   \* event: delivery_status, "none" before it is enqueued
    attempts,  \* event: attempt_count
    due,       \* event: next_attempt_at <= now
    stale,     \* event: processing_started_at older than 10 minutes
    status,    \* delivery: status, "none" while there is no row
    ticket,    \* delivery: expo_ticket_id, 0 for null
    receipt,   \* delivery: receipt_status, "none" for null
    checks,    \* delivery: receipt_attempt_count
    audit,     \* replay ids consumed by notification_delivery_replay_audit
    at,        \* what each task awaits next
    loc,       \* its local variables
    accepted   \* how often Expo has taken a delivery (not stored anywhere)

events   == <<estatus, attempts, due, stale>>
rows     == <<status, ticket, receipt, checks>>
outbox   == <<active, estatus, attempts, due, stale, status, ticket, receipt,
              checks, audit, at, loc, accepted>>

-----------------------------------------------------------------------------
Deliveries == Events \X Tokens
Tasks == Dispatchers \X Events

EventStatuses == {"none", "pending", "processing", "sent", "failed", "cancelled"}
ReceiptStatuses == {"none", "pending", "retryable",
                    "delivered", "invalid_token", "permanent_failure"}

\* Ticket of one message: accepted, DeviceNotRegistered, one of
\* RETRYABLE_EXPO_TICKET_ERRORS, any other error.
TicketKinds == {"ok", "gone", "transient", "permanent"}

Labels == {"idle", "read", "send", "upsert", "disable", "finish", "done", "fail"}

Locals == [todo     : SUBSET Tokens,   \* pendingTokens not yet in a chunk
           chunk    : SUBSET Tokens,   \* tokenBatch
           tries    : 0..HttpTries,    \* POSTs of this chunk
           got      : [Tokens -> TicketKinds], \* tickets
           id       : [Tokens -> 0..MaxSends], \* their ids
           anyOk    : BOOLEAN,         \* successCount > 0
           anyRetry : BOOLEAN,         \* retryableTicketFailureCount > 0
           verdict  : {"failed", "cancelled"}] \* failureStatus

NoLocals == [todo |-> {}, chunk |-> {}, tries |-> 0,
             got |-> [t \in Tokens |-> "permanent"], id |-> [t \in Tokens |-> 0],
             anyOk |-> FALSE, anyRetry |-> FALSE, verdict |-> "failed"]

InFlight(e) == {d \in Dispatchers : at[<<d, e>>] # "idle"}

OutboxTypeOK ==
    /\ active \in SUBSET Tokens
    /\ estatus \in [Events -> EventStatuses]
    /\ attempts \in [Events -> 0..MaxAttempts]
    /\ due \in [Events -> BOOLEAN]
    /\ stale \in [Events -> BOOLEAN]
    /\ status \in [Deliveries -> {"none", "sent", "failed"}]
    /\ ticket \in [Deliveries -> 0..MaxSends]
    /\ receipt \in [Deliveries -> ReceiptStatuses]
    /\ checks \in [Deliveries -> Nat]
    /\ audit \in SUBSET ReplayIds
    /\ at \in [Tasks -> Labels]
    /\ loc \in [Tasks -> Locals]
    /\ accepted \in [Deliveries -> 0..MaxSends]

OutboxInit ==
    /\ active \in SUBSET Tokens
    /\ estatus = [e \in Events |-> "none"]
    /\ attempts = [e \in Events |-> 0]
    /\ due = [e \in Events |-> FALSE]
    /\ stale = [e \in Events |-> FALSE]
    /\ status = [x \in Deliveries |-> "none"]
    /\ ticket = [x \in Deliveries |-> 0]
    /\ receipt = [x \in Deliveries |-> "none"]
    /\ checks = [x \in Deliveries |-> 0]
    /\ audit = {}
    /\ at = [k \in Tasks |-> "idle"]
    /\ loc = [k \in Tasks |-> NoLocals]
    /\ accepted = [x \in Deliveries |-> 0]

-----------------------------------------------------------------------------
(* The surroundings: triggers, devices, clock *)

\* private.enqueue_notification, once per dedupe_key.
Enqueue(e) ==
    /\ estatus[e] = "none"
    /\ estatus' = [estatus EXCEPT ![e] = "pending"]
    /\ due' = [due EXCEPT ![e] = TRUE]
    /\ UNCHANGED <<active, attempts, stale, rows, audit, at, loc, accepted>>

\* A device registers, or its token is revoked, rotated away or expires.
TokenRegistered(t) ==
    /\ t \notin active
    /\ active' = active \cup {t}
    /\ UNCHANGED <<events, rows, audit, at, loc, accepted>>

TokenDropped(t) ==
    /\ t \in active
    /\ active' = active \ {t}
    /\ UNCHANGED <<events, rows, audit, at, loc, accepted>>

\* Without Overlap an invocation is over (Edge Functions are stopped after
\* minutes) before the backoff it has written ends and before its claim is
\* ten minutes old.
BackoffElapses(e) ==
    /\ estatus[e] = "failed"
    /\ ~due[e]
    /\ Overlap \/ InFlight(e) = {}
    /\ due' = [due EXCEPT ![e] = TRUE]
    /\ UNCHANGED <<active, estatus, attempts, stale, rows, audit, at, loc, accepted>>

GoesStale(e) ==
    /\ estatus[e] = "processing"
    /\ ~stale[e]
    /\ Overlap \/ InFlight(e) = {}
    /\ stale' = [stale EXCEPT ![e] = TRUE]
    /\ UNCHANGED <<active, estatus, attempts, due, rows, audit, at, loc, accepted>>

-----------------------------------------------------------------------------
(* Claims *)

\* Mutant: a claim takes a processing event however young it is.
ClaimableYoung(e) ==
    /\ attempts[e] < MaxAttempts
    /\ \/ estatus[e] \in {"pending", "failed"} /\ due[e]
       \/ estatus[e] = "processing"


Claimable(e) ==
    /\ attempts[e] < MaxAttempts
    /\ \/ estatus[e] \in {"pending", "failed"} /\ due[e]
       \/ estatus[e] = "processing" /\ stale[e]

\* Mutant: the sweep waits for an attempt that the claim never makes.
ExhaustedLate == {e \in Events : /\ estatus[e] \in {"pending", "failed", "processing"}
                                 /\ attempts[e] > MaxAttempts}

Exhausted == {e \in Events : /\ estatus[e] \in {"pending", "failed", "processing"}
                             /\ attempts[e] >= MaxAttempts}

\* Invocation d takes the events S, after cancelling those of swept.
Take(d, S, swept) ==
    /\ \A e \in Events : at[<<d, e>>] = "idle"
    /\ estatus' = [e \in Events |->
                     IF e \in S /\ active # {} THEN "processing"
                     ELSE IF e \in S \cup swept THEN "cancelled" ELSE estatus[e]]
    /\ attempts' = [e \in Events |-> IF e \in S THEN attempts[e] + 1 ELSE attempts[e]]
    /\ stale' = [e \in Events |-> stale[e] /\ e \notin S \cup swept]
    /\ at' = [k \in Tasks |-> IF k[1] = d /\ k[2] \in S /\ active # {} THEN "read" ELSE at[k]]
    /\ loc' = [k \in Tasks |-> IF k[1] = d /\ k[2] \in S
                               THEN [NoLocals EXCEPT !.todo = active] ELSE loc[k]]
    /\ UNCHANGED <<active, due, rows, audit, accepted>>

\* claim_notification_event: the call made by the insert trigger.
ClaimOne(d, e) == Claimable(e) /\ Take(d, {e}, {})

\* claim_notification_events: the drain.  Which due events make the limit is
\* left open (they are ordered by creation, and locked ones are skipped).
Drain(d) ==
    \E S \in SUBSET {e \in Events : Claimable(e)} :
        /\ Cardinality(S) <= BatchSize
        /\ S = {} => \A e \in Events : ~Claimable(e)
        /\ S \cup Exhausted # {}
        /\ Take(d, S, Exhausted)

-----------------------------------------------------------------------------
(* processClaimedNotification *)

Chunks(left) == {c \in SUBSET left :
                   /\ c # {}
                   /\ Cardinality(c) <= ChunkSize
                   /\ Cardinality(c) = ChunkSize \/ c = left}

Goto(k, label) == at' = [at EXCEPT ![k] = label]

FailWith(k, verdict) ==
    /\ Goto(k, "fail")
    /\ loc' = [loc EXCEPT ![k].verdict = verdict]

\* The loop over the chunks: the next one, or the final event update.
NextChunk(k, left) ==
    \/ /\ left = {}
       /\ Goto(k, "finish")
       /\ UNCHANGED loc
    \/ \E c \in Chunks(left) :
          /\ Goto(k, "send")
          /\ loc' = [loc EXCEPT ![k].todo = left \ c, ![k].chunk = c, ![k].tries = 0]

\* Mutant: deliveries that already have a ticket are not filtered out.
ReadAll(k) ==
    /\ at[k] = "read"
    /\ NextChunk(k, loc[k].todo)
    /\ UNCHANGED <<active, events, rows, audit, accepted>>

\* The deliveries that already have a ticket are left out.
Read(k) ==
    LET left == {t \in loc[k].todo : status[<<k[2], t>>] # "sent"} IN
    /\ at[k] = "read"
    /\ \/ /\ left = {}
          /\ Goto(k, "done")
          /\ UNCHANGED loc
       \/ left # {} /\ NextChunk(k, left)
       \/ FailWith(k, "failed")
    /\ UNCHANGED <<active, events, rows, audit, accepted>>

\* One POST to Expo, which accepts the messages to ok.  Lost or transient
\* answers are retried; the last one is retryable for the outbox, whereas a
\* rejected request or an answer that makes no sense is not.
Post(k) ==
    \E ok \in SUBSET loc[k].chunk :
        /\ at[k] = "send"
        /\ \A t \in ok : accepted[<<k[2], t>>] < MaxSends
        /\ accepted' = [x \in Deliveries |->
                          IF x[1] = k[2] /\ x[2] \in ok THEN accepted[x] + 1 ELSE accepted[x]]
        /\ \/ \E got \in [Tokens -> TicketKinds] :
                 /\ ok = {t \in loc[k].chunk : got[t] = "ok"}
                 /\ \A t \in Tokens \ loc[k].chunk : got[t] = "permanent"
                 /\ Goto(k, "upsert")
                 /\ loc' = [loc EXCEPT
                      ![k].got = got,
                      ![k].id = [t \in Tokens |-> IF t \in ok THEN accepted'[<<k[2], t>>] ELSE 0],
                      ![k].anyOk = @ \/ ok # {},
                      ![k].anyRetry = @ \/ \E t \in Tokens : got[t] = "transient"]
           \/ /\ loc[k].tries + 1 < HttpTries
              /\ loc' = [loc EXCEPT ![k].tries = @ + 1]
              /\ UNCHANGED at
           \/ loc[k].tries + 1 = HttpTries /\ FailWith(k, "failed")
           \/ FailWith(k, "cancelled")
        /\ UNCHANGED <<active, events, rows, audit>>

\* The upsert of a chunk overwrites whatever its rows held.
WriteRows(k) ==
    LET hit(x) == x[1] = k[2] /\ x[2] \in loc[k].chunk
        ok(x)  == loc[k].got[x[2]] = "ok"
    IN /\ status' = [x \in Deliveries |->
                       IF hit(x) THEN IF ok(x) THEN "sent" ELSE "failed" ELSE status[x]]
       /\ ticket' = [x \in Deliveries |-> IF hit(x) THEN loc[k].id[x[2]] ELSE ticket[x]]
       /\ receipt' = [x \in Deliveries |->
                        IF hit(x) THEN IF ok(x) THEN "pending" ELSE "none" ELSE receipt[x]]
       /\ checks' = [x \in Deliveries |-> IF hit(x) THEN 0 ELSE checks[x]]

Gone(k) == {t \in loc[k].chunk : loc[k].got[t] = "gone"}

Upsert(k) ==
    /\ at[k] = "upsert"
    /\ \/ /\ WriteRows(k)
          /\ IF Gone(k) # {} THEN Goto(k, "disable") /\ UNCHANGED loc
                             ELSE NextChunk(k, loc[k].todo)
       \/ WriteRows(k) /\ FailWith(k, "failed")
       \/ UNCHANGED rows /\ FailWith(k, "failed")
    /\ UNCHANGED <<active, events, audit, accepted>>

\* The tokens Expo calls DeviceNotRegistered are disabled.
Disable(k) ==
    /\ at[k] = "disable"
    /\ \/ active' = active \ Gone(k) /\ NextChunk(k, loc[k].todo)
       \/ active' \in {active, active \ Gone(k)} /\ FailWith(k, "failed")
    /\ UNCHANGED <<events, rows, audit, accepted>>

\* An update of the event by its id alone.
WriteEvent(e, s) ==
    /\ estatus' = [estatus EXCEPT ![e] = s]
    /\ due' = [due EXCEPT ![e] = s # "failed"]
    /\ stale' = [stale EXCEPT ![e] = FALSE]
    /\ UNCHANGED attempts

\* Mutant: any accepted message settles the event, retryable ones or not.
NextStatusHasty(k) == IF loc[k].anyOk \/ ~loc[k].anyRetry THEN "sent" ELSE "failed"

NextStatus(k) == IF loc[k].anyRetry THEN "failed"
                 ELSE IF loc[k].anyOk THEN "sent" ELSE "cancelled"

\* A saved update ends the task; an error, even of a saved one, is caught.
Settle(k, s) ==
    /\ \/ WriteEvent(k[2], s) /\ Goto(k, "idle") /\ loc' = [loc EXCEPT ![k] = NoLocals]
       \/ WriteEvent(k[2], s) /\ FailWith(k, "failed")
       \/ UNCHANGED events /\ FailWith(k, "failed")
    /\ UNCHANGED <<active, rows, audit, accepted>>

Finish(k) == at[k] = "finish" /\ Settle(k, NextStatus(k))

\* All tokens had a ticket before this attempt.
Done(k) == at[k] = "done" /\ Settle(k, "sent")

\* The catch block; when its update fails too the event stays as it is.
Fail(k) ==
    /\ at[k] = "fail"
    /\ WriteEvent(k[2], loc[k].verdict) \/ UNCHANGED events
    /\ Goto(k, "idle")
    /\ loc' = [loc EXCEPT ![k] = NoLocals]
    /\ UNCHANGED <<active, rows, audit, accepted>>

TaskStep(k) == Read(k) \/ Post(k) \/ Upsert(k) \/ Disable(k) \/ Finish(k) \/ Done(k) \/ Fail(k)

\* The invocation is killed with all its tasks.
Crash(d) ==
    /\ \E e \in Events : at[<<d, e>>] # "idle"
    /\ at' = [k \in Tasks |-> IF k[1] = d THEN "idle" ELSE at[k]]
    /\ loc' = [k \in Tasks |-> IF k[1] = d THEN NoLocals ELSE loc[k]]
    /\ UNCHANGED <<active, events, rows, audit, accepted>>

-----------------------------------------------------------------------------
(* replay_terminal_notification_delivery *)

Terminal(e) == \/ estatus[e] = "cancelled"
               \/ attempts[e] >= MaxAttempts
               \/ \E t \in Tokens : receipt[<<e, t>>] \in {"invalid_token", "permanent_failure"}

\* An id that has been used only gets its stored answer again.
Replay(q, e) ==
    LET reset(x) == /\ x[1] = e
                    /\ \/ status[x] = "failed"
                       \/ receipt[x] \in {"invalid_token", "permanent_failure"}
    IN /\ q \notin audit
       /\ Terminal(e)
       /\ Overlap \/ InFlight(e) = {}
       /\ audit' = audit \cup {q}
       /\ status' = [x \in Deliveries |-> IF reset(x) THEN "failed" ELSE status[x]]
       /\ ticket' = [x \in Deliveries |-> IF reset(x) THEN 0 ELSE ticket[x]]
       /\ receipt' = [x \in Deliveries |-> IF reset(x) THEN "none" ELSE receipt[x]]
       /\ checks' = [x \in Deliveries |-> IF reset(x) THEN 0 ELSE checks[x]]
       /\ estatus' = [estatus EXCEPT ![e] = "failed"]
       /\ attempts' = [attempts EXCEPT ![e] = 0]
       /\ due' = [due EXCEPT ![e] = TRUE]
       /\ stale' = [stale EXCEPT ![e] = FALSE]
       /\ UNCHANGED <<active, at, loc, accepted>>

-----------------------------------------------------------------------------
OutboxNext ==
    \/ \E e \in Events : \/ Enqueue(e) \/ BackoffElapses(e) \/ GoesStale(e)
                         \/ \E q \in ReplayIds : Replay(q, e)
                         \/ \E d \in Dispatchers : ClaimOne(d, e)
    \/ \E t \in Tokens : TokenRegistered(t) \/ TokenDropped(t)
    \/ \E d \in Dispatchers : Drain(d) \/ Crash(d)
    \/ \E k \in Tasks : TaskStep(k)

OutboxSpec == OutboxInit /\ [][OutboxNext]_outbox

\* Cron keeps draining, a running task proceeds unless it is killed, and time
\* passes.
OutboxFairness ==
    /\ \A d \in Dispatchers : WF_outbox(Drain(d))
    /\ \A k \in Tasks : WF_outbox(TaskStep(k))
    /\ \A e \in Events : WF_outbox(BackoffElapses(e)) /\ WF_outbox(GoesStale(e))

-----------------------------------------------------------------------------
(* Properties *)

\* Claims, the sweep that cancels exhausted events under a running worker,
\* and crashes never give one event two tasks at once.
OneTaskPerEvent ==
    Overlap \/ \A e \in Events : Cardinality(InFlight(e)) <= 1

\* An event is reported sent only if some device has a ticket for it: no
\* retry, lost answer or replay leaves "sent" without one.
SentHasTicket ==
    Overlap \/ \A e \in Events :
        estatus[e] = "sent" => \E t \in Tokens : status[<<e, t>>] = "sent"

\* Once a ticket is stored the device is not sent the event again, whatever
\* becomes of the attempts of its other devices, unless the ticket is reset.
TicketedNotResent ==
    [][Overlap \/ \A x \in Deliveries : status[x] = "sent" => accepted'[x] = accepted[x]]_outbox

\* Every enqueued event is eventually sent or cancelled, in spite of crashes.
EventSettles ==
    \A e \in Events : estatus[e] = "pending" ~> estatus[e] \in {"sent", "cancelled"}
=============================================================================
