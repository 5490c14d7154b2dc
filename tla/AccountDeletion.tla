--------------------------- MODULE AccountDeletion ---------------------------
(***************************************************************************)
(* Deletion of one account: the delete-account Edge Function, called by    *)
(* the owner's devices (handlers) and by the minutely cron job (workers),  *)
(* over the private.account_deletion_requests rows, the Auth user and the  *)
(* profile-photos bucket.  One action per awaited call: between two of     *)
(* them any other invocation may run, the invocation may be killed, and    *)
(* the response of a call that took effect may be lost.                    *)
(*                                                                         *)
(* Time is kept only as what the SQL compares with clock_timestamp(): a    *)
(* lease is none, live or expired, and a next_attempt_at lies in the       *)
(* future (waiting) or not.                                                *)
(***************************************************************************)
EXTENDS Naturals, FiniteSets

CONSTANTS Requests,       \* client_request_ids of the account
          Handlers,       \* concurrent invocations on behalf of the owner
          Workers,        \* concurrent invocations by the cron job
          MaxPhoto,       \* object names are 1..MaxPhoto, in name order
          PageSize,       \* STORAGE_LIST_PAGE_SIZE (100)
          HandlerBudget,  \* MAX_STORAGE_OBJECTS_PER_INVOCATION (5000)
          WorkerBudget,   \* MAX_STORAGE_OBJECTS_PER_CLAIM (500)
          BatchSize,      \* requested_batch_size (5)
          MaxAttempts     \* continuation attempts before terminal (8)

ASSUME DeletionConstants ==
    /\ Handlers \cap Workers = {}
    /\ {MaxPhoto, PageSize, HandlerBudget, WorkerBudget} \subseteq Nat
    /\ BatchSize \in Nat \ {0}
    /\ MaxAttempts \in Nat \ {0}

VARIABLES
    authExists,  \* auth.users still has the account
    photos,      \* the account's objects in the profile-photos bucket
    phase,       \* row: phase, "none" while there is no row
    attempts,    \* row: continuation_attempt_count
    waiting,     \* row: continuation_next_attempt_at lies in the future
    lease,       \* row: continuation_lease_until is null, ahead, or past
    terminal,    \* row: continuation_terminal_at is not null
    pc,          \* what each invocation awaits next
    job,         \* its local variables
    batch,       \* claims a worker has still to process
    holder       \* history: the worker that made the latest claim of a row

account == <<authExists, photos>>
claim   == <<attempts, waiting, lease, terminal, holder>>
vars    == <<authExists, photos, phase, attempts, waiting, lease, terminal,
             pc, job, batch, holder>>

-----------------------------------------------------------------------------
Agents == Handlers \cup Workers
Photos == 1..MaxPhoto
Phases == {"none", "requested", "auth_deleted", "storage_deleting", "completed"}

PhaseRank == [none |-> 0, requested |-> 1, auth_deleted |-> 2,
              storage_deleting |-> 3, completed |-> 4]

NextPhase == [requested |-> "auth_deleted", auth_deleted |-> "storage_deleting",
              storage_deleting |-> "completed"]

\* Past the point where only the continuation worker is needed.
Active(r) == phase[r] \in {"auth_deleted", "storage_deleting"}

Labels == {"idle", "read", "authorize", "begin", "deleteAuth", "recheck",
           "advance", "recover", "list", "remove", "next", "release"}
Outcomes == {"none", "completed", "resumable", "failed"}

Jobs == [target : Requests \cup {"none"}, \* request worked on
         seen   : Phases,                 \* state.phase as last read
         cursor : Nat,                    \* afterStoragePath
         page   : SUBSET Photos,          \* storagePaths
         removed : Nat,                   \* removedCount
         held   : 0..MaxAttempts,         \* attemptCount of the claim
         outcome : Outcomes]              \* how processClaim ended

NoJob == [target |-> "none", seen |-> "none", cursor |-> 0, page |-> {},
          removed |-> 0, held |-> 0, outcome |-> "none"]

\* The label says what has been read: a request, and state.phase with it.
LocalsOK ==
    /\ pc \in [Agents -> Labels]
    /\ job \in [Agents -> Jobs]
    /\ \A a \in Agents :
          /\ pc[a] \notin {"idle", "next"} => job[a].target \in Requests
          /\ pc[a] = "authorize" => job[a].seen \in {"none", "requested"}
          /\ pc[a] \in {"deleteAuth", "recheck"} => job[a].seen = "requested"
          /\ pc[a] \in {"advance", "recover"} => job[a].seen \in DOMAIN NextPhase
          /\ pc[a] \in {"list", "remove"} => job[a].seen = "storage_deleting"

RowsOK ==
    /\ authExists \in BOOLEAN
    /\ photos \in SUBSET Photos
    /\ phase \in [Requests -> Phases]
    /\ attempts \in [Requests -> 0..MaxAttempts]
    /\ waiting \in [Requests -> BOOLEAN]
    /\ lease \in [Requests -> {"none", "live", "expired"}]
    /\ terminal \in [Requests -> BOOLEAN]
    /\ batch \in [Workers -> SUBSET (Requests \X (1..MaxAttempts))]
    /\ holder \in [Requests -> Workers \cup {"none"}]

TypeOK == RowsOK /\ LocalsOK

Init ==
    /\ authExists = TRUE
    /\ photos \in SUBSET Photos
    /\ phase = [r \in Requests |-> "none"]
    /\ attempts = [r \in Requests |-> 0]
    /\ waiting = [r \in Requests |-> FALSE]
    /\ lease = [r \in Requests |-> "none"]
    /\ terminal = [r \in Requests |-> FALSE]
    /\ pc = [a \in Agents |-> "idle"]
    /\ job = [a \in Agents |-> NoJob]
    /\ batch = [w \in Workers |-> {}]
    /\ holder = [r \in Requests |-> "none"]

-----------------------------------------------------------------------------
(* The owner and the clock *)

\* Mutant: the insert policy does not look at the deletion requests.
UploadAnyTime ==
    /\ \E p \in Photos : photos' = photos \cup {p}
    /\ UNCHANGED <<authExists, phase, claim, pc, job, batch>>

\* storage.objects insert policy: no deletion request row of this user.
Upload ==
    /\ \A r \in Requests : phase[r] = "none"
    /\ \E p \in Photos : photos' = photos \cup {p}
    /\ UNCHANGED <<authExists, phase, claim, pc, job, batch>>

OwnerDelete ==
    /\ \E p \in photos : photos' = photos \ {p}
    /\ UNCHANGED <<authExists, phase, claim, pc, job, batch>>

LeaseExpires(r) ==
    /\ lease[r] = "live"
    /\ lease' = [lease EXCEPT ![r] = "expired"]
    /\ UNCHANGED <<account, phase, attempts, waiting, terminal, holder, pc, job, batch>>

BackoffElapses(r) ==
    /\ waiting[r]
    /\ waiting' = [waiting EXCEPT ![r] = FALSE]
    /\ UNCHANGED <<account, phase, attempts, lease, terminal, holder, pc, job, batch>>

-----------------------------------------------------------------------------
(* Control of an invocation *)

Goto(a, label) == pc' = [pc EXCEPT ![a] = label]

\* The handler answers its caller; a worker goes on to release its claim.
Finish(a, outcome) ==
    IF a \in Workers
    THEN /\ Goto(a, "release")
         /\ job' = [job EXCEPT ![a].outcome = outcome]
    ELSE /\ Goto(a, "idle")
         /\ job' = [job EXCEPT ![a] = NoJob]

\* The saga goes on from phase p, which the invocation has just read.
Proceed(a, p) ==
    IF p = "completed"
    THEN Finish(a, "completed")
    ELSE /\ Goto(a, IF p = "storage_deleting" THEN "list" ELSE "advance")
         /\ job' = [job EXCEPT ![a].seen = p]

-----------------------------------------------------------------------------
(* The handler: POST delete-account with the owner's token *)

HandlerStart(h, r) ==
    /\ pc[h] = "idle"
    /\ Goto(h, "read")
    /\ job' = [job EXCEPT ![h] = [NoJob EXCEPT !.target = r]]
    /\ UNCHANGED <<account, phase, claim, batch>>

\* getRequest
HandlerRead(h) ==
    LET p == phase[job[h].target] IN
    /\ pc[h] = "read"
    /\ IF p \in {"none", "requested"}
       THEN /\ Goto(h, "authorize")
            /\ job' = [job EXCEPT ![h].seen = p]
       ELSE Proceed(h, p)
    /\ UNCHANGED <<account, phase, claim, batch>>

\* getAuthState; a stale login (403) is one of the ends of Abandon.
HandlerAuthorize(h) ==
    /\ pc[h] = "authorize"
    /\ \/ /\ authExists
          /\ Goto(h, IF job[h].seen = "none" THEN "begin" ELSE "deleteAuth")
          /\ UNCHANGED job
       \/ /\ ~authExists
          /\ job[h].seen = "none"
          /\ Finish(h, "failed")
       \/ /\ ~authExists
          /\ job[h].seen = "requested"
          /\ Goto(h, "advance")
          /\ UNCHANGED job
    /\ UNCHANGED <<account, phase, claim, batch>>

\* beginRequest: insert on conflict do nothing, then read the row.  The Auth
\* state is not read again: it is the one HandlerAuthorize saw.
HandlerBegin(h) ==
    LET r == job[h].target
        p == IF phase[r] = "none" THEN "requested" ELSE phase[r]
    IN /\ pc[h] = "begin"
       /\ phase' = [phase EXCEPT ![r] = p]
       /\ IF p = "requested"
          THEN Goto(h, "deleteAuth") /\ job' = [job EXCEPT ![h].seen = p]
          ELSE Proceed(h, p)
       /\ UNCHANGED <<account, claim, batch>>

\* deleteAuthUser: its error is ignored, the next read decides.
HandlerDeleteAuth(h) ==
    /\ pc[h] = "deleteAuth"
    /\ authExists' \in {authExists, FALSE}
    /\ Goto(h, "recheck")
    /\ UNCHANGED <<photos, phase, claim, job, batch>>

\* Mutant: a failed deleteAuthUser is taken for a successful one.
RecheckSkipped(h) ==
    /\ pc[h] = "recheck"
    /\ Goto(h, "advance") /\ UNCHANGED job
    /\ UNCHANGED <<account, phase, claim, batch>>

HandlerRecheck(h) ==
    /\ pc[h] = "recheck"
    /\ IF authExists
       THEN Finish(h, "failed")
       ELSE Goto(h, "advance") /\ UNCHANGED job
    /\ UNCHANGED <<account, phase, claim, batch>>

\* Killed, or any answer of an error that writes nothing the model keeps.
Abandon(h) ==
    /\ pc[h] # "idle"
    /\ Goto(h, "idle")
    /\ job' = [job EXCEPT ![h] = NoJob]
    /\ UNCHANGED <<account, phase, claim, batch>>

-----------------------------------------------------------------------------
(* Steps the handler and the worker share *)

\* Mutant: the update does not compare the phase.
PlainPhase(r, from, to) == phase' = [phase EXCEPT ![r] = to]

\* advance_account_deletion_request: compare-and-set on the phase.
CasPhase(r, from, to) ==
    IF phase[r] = from THEN phase' = [phase EXCEPT ![r] = to] ELSE UNCHANGED phase

\* advanceWithConcurrentRecovery / advancePhase: the call returns the new
\* row, or its conflict, failure or lost response sends it to Recover.
Advance(a) ==
    LET r  == job[a].target
        to == NextPhase[job[a].seen]
    IN /\ pc[a] = "advance"
       /\ \/ /\ phase[r] = job[a].seen
             /\ CasPhase(r, job[a].seen, to)
             /\ Proceed(a, to)
          \/ /\ CasPhase(r, job[a].seen, to)
             /\ Goto(a, "recover")
             /\ UNCHANGED job
          \/ /\ UNCHANGED phase
             /\ Goto(a, "recover")
             /\ UNCHANGED job
       /\ UNCHANGED <<account, claim, batch>>

Recover(a) ==
    LET p == phase[job[a].target] IN
    /\ pc[a] = "recover"
    /\ IF PhaseRank[p] >= PhaseRank[NextPhase[job[a].seen]]
       THEN Proceed(a, p)
       ELSE Finish(a, "failed")
    /\ UNCHANGED <<account, phase, claim, batch>>

\* A page is the first PageSize names after the cursor.
IsPage(S, cursor, last) ==
    /\ S = {p \in photos : cursor < p /\ p <= last}
    /\ Cardinality(S) <= PageSize
    /\ Cardinality(S) = PageSize \/ \A p \in photos : p <= last

\* list_account_deletion_storage_paths.  The cursor is moved here: it is
\* not read again before the page has been removed.
List(a) ==
    LET later == {p \in photos : job[a].cursor < p} IN
    /\ pc[a] = "list"
    /\ \/ /\ ~Active(job[a].target)
          /\ Finish(a, "failed")
       \/ /\ Active(job[a].target)
          /\ later = {}
          /\ Goto(a, "advance")
          /\ UNCHANGED job
       \/ /\ Active(job[a].target)
          /\ \E last \in later, S \in SUBSET later :
                /\ IsPage(S, job[a].cursor, last)
                /\ job' = [job EXCEPT ![a].cursor = last, ![a].page = S]
          /\ Goto(a, "remove")
    /\ UNCHANGED <<account, phase, claim, batch>>

Budget(a) == IF a \in Workers THEN WorkerBudget ELSE HandlerBudget

\* removeStoragePaths: all of the page, or an error after part of it.
Remove(a) ==
    LET count == job[a].removed + Cardinality(job[a].page) IN
    /\ pc[a] = "remove"
    /\ \/ /\ photos' = photos \ job[a].page
          /\ IF count >= Budget(a)
             THEN Finish(a, "resumable")
             ELSE /\ Goto(a, "list")
                  /\ job' = [job EXCEPT ![a].removed = count, ![a].page = {}]
       \/ /\ \E part \in SUBSET job[a].page : photos' = photos \ part
          /\ Finish(a, "failed")
    /\ UNCHANGED <<authExists, phase, claim, batch>>

SharedStep(a) == Advance(a) \/ Recover(a) \/ List(a) \/ Remove(a)

-----------------------------------------------------------------------------
(* The continuation worker *)

\* Mutant: the sweep waits for one attempt more than the claim allows.
ExhaustedLate == {r \in Requests : /\ Active(r)
                                   /\ ~terminal[r]
                                   /\ attempts[r] > MaxAttempts
                                   /\ lease[r] = "expired"}

\* private.terminalize_expired_account_deletion_claims
Exhausted == {r \in Requests : /\ Active(r)
                               /\ ~terminal[r]
                               /\ attempts[r] >= MaxAttempts
                               /\ lease[r] = "expired"}

Claimable == {r \in Requests : /\ Active(r)
                               /\ ~terminal[r]
                               /\ attempts[r] < MaxAttempts
                               /\ ~waiting[r]
                               /\ lease[r] # "live"}

\* claim_account_deletion_continuations; which due rows make the limit is
\* left open (their order is by time, and locked rows are skipped).
WorkerClaim(w) ==
    /\ pc[w] = "idle"
    /\ \E S \in SUBSET Claimable :
          /\ Cardinality(S) <= BatchSize
          /\ S = {} => Claimable = {}
          /\ terminal' = [r \in Requests |-> terminal[r] \/ r \in Exhausted]
          /\ attempts' = [r \in Requests |-> IF r \in S THEN attempts[r] + 1 ELSE attempts[r]]
          /\ waiting' = [r \in Requests |-> waiting[r] /\ r \notin S \cup Exhausted]
          /\ lease' = [r \in Requests |-> IF r \in S THEN "live"
                                          ELSE IF r \in Exhausted THEN "none" ELSE lease[r]]
          /\ holder' = [r \in Requests |-> IF r \in S THEN w ELSE holder[r]]
          /\ batch' = [batch EXCEPT ![w] = {<<r, attempts[r] + 1>> : r \in S}]
          /\ Goto(w, IF S = {} THEN "idle" ELSE "next")
    /\ UNCHANGED <<account, phase, job>>

\* list_terminal_account_deletion_continuations runs the same sweep.
ListTerminal ==
    /\ Exhausted # {}
    /\ terminal' = [r \in Requests |-> terminal[r] \/ r \in Exhausted]
    /\ waiting' = [r \in Requests |-> waiting[r] /\ r \notin Exhausted]
    /\ lease' = [r \in Requests |-> IF r \in Exhausted THEN "none" ELSE lease[r]]
    /\ UNCHANGED <<account, phase, attempts, holder, pc, job, batch>>

WorkerNext(w) ==
    /\ pc[w] = "next"
    /\ \/ /\ batch[w] = {}
          /\ Goto(w, "idle")
          /\ job' = [job EXCEPT ![w] = NoJob]
          /\ UNCHANGED batch
       \/ \E c \in batch[w] :
             /\ batch' = [batch EXCEPT ![w] = @ \ {c}]
             /\ Goto(w, "read")
             /\ job' = [job EXCEPT ![w] = [NoJob EXCEPT !.target = c[1], !.held = c[2]]]
    /\ UNCHANGED <<account, phase, claim>>

\* currentState at the start of processClaim
WorkerRead(w) ==
    LET p == phase[job[w].target] IN
    /\ pc[w] = "read"
    /\ IF p \in {"none", "requested"} THEN Finish(w, "failed") ELSE Proceed(w, p)
    /\ UNCHANGED <<account, phase, claim, batch>>

\* A call of processClaim threw.
WorkerFail(w) ==
    /\ pc[w] \in {"read", "recover", "list"}
    /\ Finish(w, "failed")
    /\ UNCHANGED <<account, phase, claim, batch>>

\* Mutant: the release forgets continuation_terminal_at is null.
ReleaseReopening(r, n, outcome) ==
    /\ attempts[r] = n
    /\ \/ outcome = "completed" /\ phase[r] = "completed"
       \/ outcome = "resumable" /\ phase[r] = "storage_deleting" /\ lease[r] # "none"
       \/ outcome = "failed" /\ Active(r) /\ lease[r] # "none"

\* The where clause of release_account_deletion_continuation_claim.
ReleaseAccepted(r, n, outcome) ==
    /\ attempts[r] = n
    /\ ~terminal[r]
    /\ \/ outcome = "completed" /\ phase[r] = "completed"
       \/ outcome = "resumable" /\ phase[r] = "storage_deleting" /\ lease[r] # "none"
       \/ outcome = "failed" /\ Active(r) /\ lease[r] # "none"

\* Mutant: the last failed attempt is not the terminal one.
ReleaseNeverTerminal(r, n, outcome) ==
    /\ attempts' = [attempts EXCEPT ![r] = IF outcome = "resumable" THEN 0 ELSE @]
    /\ lease' = [lease EXCEPT ![r] = "none"]
    /\ waiting' = [waiting EXCEPT ![r] = outcome # "completed"]
    /\ terminal' = [terminal EXCEPT ![r] = outcome = "failed" /\ n > MaxAttempts]

ReleaseWrite(r, n, outcome) ==
    /\ attempts' = [attempts EXCEPT ![r] = IF outcome = "resumable" THEN 0 ELSE @]
    /\ lease' = [lease EXCEPT ![r] = "none"]
    /\ waiting' = [waiting EXCEPT ![r] = \/ outcome = "resumable"
                                         \/ outcome = "failed" /\ n < MaxAttempts]
    /\ terminal' = [terminal EXCEPT ![r] = outcome = "failed" /\ n >= MaxAttempts]

\* A rejected release or a lost response ends the invocation (500) and leaves
\* the rest of its batch to the expiry of their leases.
WorkerRelease(w) ==
    LET r == job[w].target
        n == job[w].held
        outcome == job[w].outcome
        accepted == ReleaseAccepted(r, n, outcome)
    IN /\ pc[w] = "release"
       /\ IF accepted THEN ReleaseWrite(r, n, outcome)
                      ELSE UNCHANGED <<attempts, lease, waiting, terminal>>
       /\ \/ accepted /\ Goto(w, "next") /\ UNCHANGED batch
          \/ Goto(w, "idle") /\ batch' = [batch EXCEPT ![w] = {}]
       /\ job' = [job EXCEPT ![w] = NoJob]
       /\ UNCHANGED <<account, phase, holder>>

\* The invocation is killed or loses a call it cannot recover from.
Crash(w) ==
    /\ pc[w] # "idle"
    /\ Goto(w, "idle")
    /\ job' = [job EXCEPT ![w] = NoJob]
    /\ batch' = [batch EXCEPT ![w] = {}]
    /\ UNCHANGED <<account, phase, claim>>

-----------------------------------------------------------------------------
HandlerStep(h) ==
    \/ HandlerRead(h) \/ HandlerAuthorize(h) \/ HandlerBegin(h)
    \/ HandlerDeleteAuth(h) \/ HandlerRecheck(h) \/ SharedStep(h)

WorkerStep(w) ==
    \/ WorkerNext(w) \/ WorkerRead(w) \/ WorkerFail(w) \/ WorkerRelease(w)
    \/ SharedStep(w)

Next ==
    \/ Upload \/ OwnerDelete \/ ListTerminal
    \/ \E r \in Requests : LeaseExpires(r) \/ BackoffElapses(r)
    \/ \E h \in Handlers : \/ HandlerStep(h) \/ Abandon(h)
                           \/ \E r \in Requests : HandlerStart(h, r)
    \/ \E w \in Workers : WorkerClaim(w) \/ WorkerStep(w) \/ Crash(w)

Spec == Init /\ [][Next]_vars

\* Cron keeps invoking the worker, a running invocation proceeds unless it is
\* killed, and time passes.  Nobody has to press "delete" or to retry.
Fairness ==
    /\ \A w \in Workers : WF_vars(WorkerClaim(w)) /\ WF_vars(WorkerStep(w))
    /\ \A h \in Handlers : WF_vars(HandlerStep(h))
    /\ \A r \in Requests : WF_vars(LeaseExpires(r)) /\ WF_vars(BackoffElapses(r))

FairSpec == Spec /\ Fairness

-----------------------------------------------------------------------------
(* Properties *)

\* The row of a request is completed only when the Auth user and every photo
\* are gone, and no upload can slip in afterwards (the upload policy and the
\* list-until-empty loop work together).
CompletedMeansErased ==
    \A r \in Requests : phase[r] = "completed" => photos = {} /\ ~authExists

\* No request is left where neither a claim nor the sweep can reach it: with
\* its attempts used up and no terminal mark, it still has a lease that will
\* expire (release and terminalize share this duty).
NeverStranded ==
    \A r \in Requests :
        Active(r) /\ ~terminal[r] /\ attempts[r] = MaxAttempts => lease[r] # "none"

\* Invocations that raced, stalled or recovered never move a request
\* backwards, and no step skips a phase.
PhaseStepsForward ==
    [][\A r \in Requests :
          PhaseRank[phase'[r]] \in {PhaseRank[phase[r]], PhaseRank[phase[r]] + 1}]_vars

\* A terminal request stays terminal: a worker that outlived its last lease
\* cannot reopen what the sweep has closed.
TerminalIsFinal == [][\A r \in Requests : terminal[r] => terminal'[r]]_vars

\* Once the Auth user is recorded as deleted, the request is completed or
\* ends in the operators' terminal list, whatever crashes happen.
ContinuationSettles ==
    \A r \in Requests : Active(r) ~> (phase[r] = "completed" \/ terminal[r])

\* Stated by docs/account-deletion-operations.md:3: after the Auth user is
\* gone the request no longer depends on a client session.
DeletionOutlivesTheSession ==
    ~authExists ~> \E r \in Requests : phase[r] = "completed" \/ terminal[r]

\* Stated by docs/account-deletion-operations.md:23: a lease belongs to one
\* owner.  A live lease may then be given up only by its holder.
LeaseReleasedByHolder ==
    [][\A r \in Requests, w \in Workers :
          lease[r] = "live" /\ lease'[r] = "none"
            /\ pc[w] = "release" /\ pc'[w] # "release" => holder[r] = w]_vars

-----------------------------------------------------------------------------
(* The inductive invariant behind CompletedMeansErased and NeverStranded *)

\* What an invocation knows between two awaits: the row has reached at least
\* the phase it saw, and every photo up to its cursor is gone or on the page
\* it is about to remove.
KnowledgeInv(a) ==
    LET r == job[a].target
        fresh == \/ pc[a] \in {"read", "authorize", "begin", "deleteAuth", "recheck"}
                 \/ pc[a] \in {"advance", "recover"} /\ job[a].seen # "storage_deleting"
    IN /\ fresh => job[a].cursor = 0
       /\ pc[a] \in {"authorize", "deleteAuth", "recheck", "advance", "recover", "list", "remove"}
             => PhaseRank[phase[r]] >= PhaseRank[job[a].seen]
       /\ pc[a] \in {"advance", "recover"} => ~authExists
       /\ pc[a] \in {"advance", "recover"} /\ job[a].seen = "storage_deleting" => photos = {}
       /\ pc[a] = "list" => \A p \in photos : job[a].cursor < p
       /\ pc[a] = "remove" => \A p \in photos : p <= job[a].cursor => p \in job[a].page

ErasureInv ==
    /\ \A r \in Requests : PhaseRank[phase[r]] >= 2 => ~authExists
    /\ \A r \in Requests : phase[r] = "completed" => photos = {}
    /\ \A a \in Agents : KnowledgeInv(a)

ReachInv ==
    /\ \A r \in Requests : phase[r] \in {"none", "requested"} => attempts[r] = 0
    /\ NeverStranded

DeletionInv == TypeOK /\ ErasureInv /\ ReachInv

\* The saga implements what it promises.
Erasure == INSTANCE AccountErasure
             WITH Requests <- Requests, MaxPhoto <- MaxPhoto,
                  authExists <- authExists, photos <- photos, phase <- phase
ImplementsErasure == Erasure!Spec
=============================================================================
