---------------------------- MODULE PushReceipts ----------------------------
(***************************************************************************)
(* The push-receipts invocations of the cron job on top of the outbox:     *)
(* they lease deliveries that have a ticket, ask Expo what became of it,   *)
(* and record the verdict by compare-and-set.  A lease lapses after two    *)
(* minutes, when the delivery becomes due again; the holder may then still *)
(* be at work.                                                             *)
(***************************************************************************)
EXTENDS PushDispatch

CONSTANTS Checkers,     \* concurrent push-receipts invocations
          MaxChecks,    \* receipt attempts (5)
          CheckBatch    \* MAX_RECEIPTS_PER_REQUEST (300)

ASSUME ReceiptConstants == {MaxChecks, CheckBatch} \subseteq Nat \ {0}

VARIABLES
    rdue,      \* delivery: receipt_next_attempt_at <= now
    rlease,    \* delivery: receipt_lease_id, named after the claiming invocation
    rat,       \* what each invocation awaits next
    jobs,      \* the claimed deliveries it has still to record
    verdict    \* the receipts Expo gave it

receipts == <<rdue, rlease, rat, jobs, verdict>>
vars == <<outbox, receipts>>

-----------------------------------------------------------------------------
Verdicts == {"delivered", "invalid_token", "retryable", "permanent_failure"}

Jobs == [of : Deliveries, count : 0..MaxChecks, ticket : 0..MaxSends]

ReceiptTypeOK ==
    /\ checks \in [Deliveries -> 0..MaxChecks]
    /\ rdue \in [Deliveries -> BOOLEAN]
    /\ rlease \in [Deliveries -> Checkers \cup {"none"}]
    /\ rat \in [Checkers -> {"idle", "fetch", "persist"}]
    /\ jobs \in [Checkers -> SUBSET Jobs]
    /\ verdict \in [Checkers -> [Deliveries -> Verdicts]]

NoVerdict == [x \in Deliveries |-> "retryable"]

Init ==
    /\ OutboxInit
    /\ rdue = [x \in Deliveries |-> FALSE]
    /\ rlease = [x \in Deliveries |-> "none"]
    /\ rat = [w \in Checkers |-> "idle"]
    /\ jobs = [w \in Checkers |-> {}]
    /\ verdict = [w \in Checkers |-> NoVerdict]

\* Mutant: a delivery is asked about only once.
UncheckedOnce(x) == status[x] = "sent" /\ receipt[x] = "pending"

\* A delivery the worker may still ask about.  receipt_checked_at is null
\* exactly as long as receipt_status is pending or retryable.
Unchecked(x) == status[x] = "sent" /\ receipt[x] \in {"pending", "retryable"}

-----------------------------------------------------------------------------
\* A step of the outbox.  A row that gets a ticket is due 15 minutes later;
\* neither the upsert nor the replay touches receipt_lease_id.
OutboxStep ==
    /\ OutboxNext
    /\ rdue' = [x \in Deliveries |-> rdue[x] /\ ticket'[x] = ticket[x] /\ receipt'[x] # "none"]
    /\ UNCHANGED <<rlease, rat, jobs, verdict>>

\* The first 15 minutes, a backoff or a lease pass.
ReceiptDue(x) ==
    /\ Unchecked(x)
    /\ ~rdue[x]
    /\ rdue' = [rdue EXCEPT ![x] = TRUE]
    /\ UNCHANGED <<outbox, rlease, rat, jobs, verdict>>

\* claim_pending_push_receipts, with its repair of exhausted rows.
CheckClaim(w) ==
    LET spent == {x \in Deliveries : Unchecked(x) /\ checks[x] >= MaxChecks}
        ready == {x \in Deliveries : Unchecked(x) /\ checks[x] < MaxChecks /\ rdue[x]}
    IN /\ rat[w] = "idle"
       /\ \E S \in SUBSET ready :
             /\ Cardinality(S) <= CheckBatch
             /\ S = {} => ready = {}
             /\ S \cup spent # {}
             /\ receipt' = [x \in Deliveries |->
                              IF x \in spent THEN "permanent_failure" ELSE receipt[x]]
             /\ rdue' = [x \in Deliveries |-> rdue[x] /\ x \notin S \cup spent]
             /\ rlease' = [x \in Deliveries |-> IF x \in S THEN w
                                                ELSE IF x \in spent THEN "none" ELSE rlease[x]]
             /\ jobs' = [jobs EXCEPT ![w] =
                           {[of |-> x, count |-> checks[x], ticket |-> ticket[x]] : x \in S}]
             /\ rat' = [rat EXCEPT ![w] = IF S = {} THEN "idle" ELSE "fetch"]
       /\ UNCHANGED <<active, events, status, ticket, checks, audit, at, loc, accepted, verdict>>

\* Mutant: a receipt that is missing from the answer gets no verdict.
FetchMissing(w) ==
    /\ rat[w] = "fetch"
    /\ \E S \in SUBSET jobs[w] : \E v \in [{j.of : j \in S} -> Verdicts] :
          verdict' = [verdict EXCEPT ![w] =
                        [x \in Deliveries |-> IF x \in DOMAIN v THEN v[x] ELSE "none"]]
    /\ rat' = [rat EXCEPT ![w] = "persist"]
    /\ UNCHANGED <<outbox, rdue, rlease, jobs>>

\* The receipts of the claimed tickets; one that is missing counts as
\* retryable, a failed request gives the same verdict to all of them.
Fetch(w) ==
    /\ rat[w] = "fetch"
    /\ \E v \in [{j.of : j \in jobs[w]} -> Verdicts] :
          verdict' = [verdict EXCEPT ![w] =
                        [x \in Deliveries |-> IF x \in DOMAIN v THEN v[x] ELSE "retryable"]]
    /\ rat' = [rat EXCEPT ![w] = "persist"]
    /\ UNCHANGED <<outbox, rdue, rlease, jobs>>

\* Mutant: the lease is not part of the comparison.
AttemptMatches(j, w) == Unchecked(j.of) /\ checks[j.of] = j.count

\* The compare-and-set of persist_push_receipt_result.
LeaseMatches(j, w) == Unchecked(j.of) /\ checks[j.of] = j.count /\ rlease[j.of] = w

\* Mutant: the last retryable answer leaves the receipt open.
RecordOpen(j, w) ==
    LET x == j.of
    IN /\ receipt' = [receipt EXCEPT ![x] = verdict[w][x]]
       /\ checks' = [checks EXCEPT ![x] = j.count + 1]
       /\ rdue' = [rdue EXCEPT ![x] = FALSE]
       /\ rlease' = [rlease EXCEPT ![x] = "none"]
       /\ active' = IF verdict[w][x] = "invalid_token" THEN active \ {x[2]} ELSE active

Record(j, w) ==
    LET x    == j.of
        last == verdict[w][x] = "retryable" /\ j.count + 1 >= MaxChecks
        v    == IF last THEN "permanent_failure" ELSE verdict[w][x]
    IN /\ receipt' = [receipt EXCEPT ![x] = v]
       /\ checks' = [checks EXCEPT ![x] = j.count + 1]
       /\ rdue' = [rdue EXCEPT ![x] = FALSE]
       /\ rlease' = [rlease EXCEPT ![x] = "none"]
       /\ active' = IF v = "invalid_token" THEN active \ {x[2]} ELSE active

\* The invocation ends at the first result that is refused or whose answer
\* is lost, with the rest of its batch unrecorded.
Persist(w) ==
    /\ rat[w] = "persist"
    /\ \E j \in jobs[w] :
          LET rest == jobs[w] \ {j} IN
          \/ /\ LeaseMatches(j, w)
             /\ Record(j, w)
             /\ \/ /\ jobs' = [jobs EXCEPT ![w] = rest]
                   /\ rat' = [rat EXCEPT ![w] = IF rest = {} THEN "idle" ELSE "persist"]
                \/ /\ jobs' = [jobs EXCEPT ![w] = {}]
                   /\ rat' = [rat EXCEPT ![w] = "idle"]
          \/ /\ jobs' = [jobs EXCEPT ![w] = {}]
             /\ rat' = [rat EXCEPT ![w] = "idle"]
             /\ UNCHANGED <<receipt, checks, rdue, rlease, active>>
    /\ verdict' = IF rat'[w] = "idle" THEN [verdict EXCEPT ![w] = NoVerdict] ELSE verdict
    /\ UNCHANGED <<events, status, ticket, audit, at, loc, accepted>>

CheckCrash(w) ==
    /\ rat[w] # "idle"
    /\ rat' = [rat EXCEPT ![w] = "idle"]
    /\ jobs' = [jobs EXCEPT ![w] = {}]
    /\ verdict' = [verdict EXCEPT ![w] = NoVerdict]
    /\ UNCHANGED <<outbox, rdue, rlease>>

Next ==
    \/ OutboxStep
    \/ \E x \in Deliveries : ReceiptDue(x)
    \/ \E w \in Checkers : CheckClaim(w) \/ Fetch(w) \/ Persist(w) \/ CheckCrash(w)

Spec == Init /\ [][Next]_vars

\* A delivery that is due is claimed again and again, and not every
\* invocation that gets as far as Expo's answer, or as recording it, is
\* killed or cut off there.
Recorded(w, x) == Persist(w) /\ checks'[x] # checks[x]

Fairness ==
    /\ \A x \in Deliveries : WF_vars(ReceiptDue(x))
    /\ \A w \in Checkers : WF_vars(CheckClaim(w)) /\ SF_vars(Fetch(w))
                            /\ \A x \in Deliveries : SF_vars(Recorded(w, x))

FairSpec == Spec /\ OutboxFairness /\ Fairness

-----------------------------------------------------------------------------
(* Properties *)

\* Invocation w records a result for delivery x in this step.
Records(w, x) == /\ \E j \in jobs[w] : j.of = x
                 /\ jobs'[w] # jobs[w]
                 /\ checks'[x] # checks[x]

\* The comment in persist_push_receipt_result: a late worker never overwrites
\* a newer lease or a terminal receipt.
LateWorkerRejected ==
    [][\A w \in Checkers, x \in Deliveries :
          Records(w, x) => rlease[x] = w /\ receipt[x] \in {"pending", "retryable"}]_vars

\* Every ticket eventually gets a verdict.
ReceiptSettles ==
    \A x \in Deliveries : receipt[x] = "pending" ~> receipt[x] \notin {"pending", "retryable"}

\* The dispatchers, checkers and operators together keep the ledger, and a
\* worker whose lease has passed on changes nothing in it.
Ledger == INSTANCE ReceiptLedger
            WITH Events <- Events, Tokens <- Tokens, MaxChecks <- MaxChecks,
                 receipt <- receipt, checks <- checks
KeepsLedger == Ledger!Spec /\ LateWorkerRejected
=============================================================================
