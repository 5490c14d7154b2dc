---------------------------- MODULE ReceiptLedger ----------------------------
(***************************************************************************)
(* What the outbox promises of the receipts of its deliveries, whoever     *)
(* works on them: a receipt is asked for once a ticket is stored, every    *)
(* check uses up one of a limited number, a verdict is final, and only an  *)
(* operator's replay takes one back, never that of a delivered message.    *)
(***************************************************************************)
EXTENDS Naturals

CONSTANTS Events, Tokens,
          MaxChecks     \* receipt checks before a verdict is due (5)

VARIABLES receipt,      \* receipt_status of each delivery
          checks        \* receipt_attempt_count

vars == <<receipt, checks>>

Deliveries == Events \X Tokens

Open == {"pending", "retryable"}
Failures == {"invalid_token", "permanent_failure"}

Init == /\ receipt = [x \in Deliveries |-> "none"]
        /\ checks = [x \in Deliveries |-> 0]

\* The deliveries X get tickets.
Issue(X) == /\ \A x \in X : receipt[x] = "none"
            /\ receipt' = [x \in Deliveries |-> IF x \in X THEN "pending" ELSE receipt[x]]
            /\ UNCHANGED checks

Check(x, verdict) ==
    /\ receipt[x] \in Open
    /\ verdict = "retryable" => checks[x] + 1 < MaxChecks
    /\ receipt' = [receipt EXCEPT ![x] = verdict]
    /\ checks' = [checks EXCEPT ![x] = @ + 1]

Withdraw(X) ==
    /\ \A x \in X : receipt[x] \in Failures
    /\ receipt' = [x \in Deliveries |-> IF x \in X THEN "none" ELSE receipt[x]]
    /\ checks' = [x \in Deliveries |-> IF x \in X THEN 0 ELSE checks[x]]

Next == \/ \E X \in SUBSET Deliveries : Issue(X) \/ Withdraw(X)
        \/ \E x \in Deliveries, verdict \in {"retryable", "delivered"} \cup Failures :
              Check(x, verdict)

Spec == Init /\ [][Next]_vars
=============================================================================
