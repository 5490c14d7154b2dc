----------------------- MODULE AccountDeletion_proofs -----------------------
(***************************************************************************)
(* Proofs about AccountDeletion for any number of devices, invocations,    *)
(* photos, attempts and any page size and budget.                          *)
(***************************************************************************)
EXTENDS AccountDeletion, FiniteSetTheorems, TLAPS

LEMMA PageFinite == ASSUME NEW S \in SUBSET Photos
                    PROVE  Cardinality(S) \in Nat
  <1>1. IsFiniteSet(Photos)
    BY FS_Interval, DeletionConstants DEF Photos
  <1>2. QED
    BY <1>1, FS_Subset, FS_CardinalityType

LEMMA NoJobType == NoJob \in Jobs
  BY DeletionConstants DEF NoJob, Jobs, Phases, Outcomes, Photos

-----------------------------------------------------------------------------
(* How an invocation's control moves: one lemma per form of move *)

LEMMA SetLocals ==
    ASSUME LocalsOK, NEW a \in Agents, NEW l \in Labels, NEW j \in Jobs,
           l \notin {"idle", "next"} => j.target \in Requests,
           l = "authorize" => j.seen \in {"none", "requested"},
           l \in {"deleteAuth", "recheck"} => j.seen = "requested",
           l \in {"advance", "recover"} => j.seen \in DOMAIN NextPhase,
           l \in {"list", "remove"} => j.seen = "storage_deleting",
           Goto(a, l), job' = [job EXCEPT ![a] = j]
    PROVE  LocalsOK'
  BY DEF LocalsOK, Goto

LEMMA GotoLocals ==
    ASSUME LocalsOK, NEW a \in Agents, NEW l \in Labels,
           pc[a] \notin {"idle", "next"},
           l = "authorize" => job[a].seen \in {"none", "requested"},
           l \in {"deleteAuth", "recheck"} => job[a].seen = "requested",
           l \in {"advance", "recover"} => job[a].seen \in DOMAIN NextPhase,
           l \in {"list", "remove"} => job[a].seen = "storage_deleting",
           Goto(a, l), UNCHANGED job
    PROVE  LocalsOK'
  BY DEF LocalsOK, Goto

LEMMA ResetLocals ==
    ASSUME LocalsOK, NEW a \in Agents, NEW l \in {"idle", "next"},
           Goto(a, l), job' = [job EXCEPT ![a] = NoJob]
    PROVE  LocalsOK'
  BY SetLocals, NoJobType DEF Labels

LEMMA FinishLocals ==
    ASSUME LocalsOK, NEW a \in Agents, NEW o \in Outcomes,
           pc[a] \notin {"idle", "next"}, Finish(a, o)
    PROVE  LocalsOK'
  <1>1. CASE a \in Workers
    <2> DEFINE j == [job[a] EXCEPT !.outcome = o]
    <2>1. j \in Jobs /\ j.target \in Requests
      BY DEF LocalsOK, Jobs
    <2>2. Goto(a, "release") /\ job' = [job EXCEPT ![a] = j]
      BY <1>1 DEF Finish
    <2>3. QED
      BY <2>1, <2>2, SetLocals DEF Labels
  <1>2. CASE a \notin Workers
    BY <1>2, ResetLocals DEF Finish
  <1>3. QED
    BY <1>1, <1>2

LEMMA SeenLocals ==
    ASSUME LocalsOK, NEW a \in Agents, NEW l \in Labels, NEW p \in Phases,
           pc[a] \notin {"idle", "next"}, l # "remove",
           l = "authorize" => p \in {"none", "requested"},
           l \in {"deleteAuth", "recheck"} => p = "requested",
           l \in {"advance", "recover"} => p \in DOMAIN NextPhase,
           l = "list" => p = "storage_deleting",
           Goto(a, l), job' = [job EXCEPT ![a].seen = p]
    PROVE  LocalsOK'
  <1> DEFINE j == [job[a] EXCEPT !.seen = p]
  <1>1. j \in Jobs /\ j.target \in Requests /\ j.seen = p
    BY DEF LocalsOK, Jobs
  <1>2. job' = [job EXCEPT ![a] = j]
    OBVIOUS
  <1>3. QED
    BY <1>1, <1>2, SetLocals

LEMMA ProceedLocals ==
    ASSUME LocalsOK, NEW a \in Agents, NEW p \in Phases \ {"none"},
           pc[a] \notin {"idle", "next"}, Proceed(a, p)
    PROVE  LocalsOK'
  <1>1. CASE p = "completed"
    BY <1>1, FinishLocals DEF Proceed, Outcomes
  <1>2. CASE p = "storage_deleting"
    BY <1>2, SeenLocals DEF Proceed, Labels
  <1>3. CASE p \in {"requested", "auth_deleted"}
    BY <1>3, SeenLocals DEF Proceed, Labels, NextPhase
  <1>4. QED
    BY <1>1, <1>2, <1>3 DEF Phases

-----------------------------------------------------------------------------
(* Type correctness *)

LEMMA LocalsStep == TypeOK /\ [Next]_vars => LocalsOK'
  <1> SUFFICES ASSUME TypeOK, [Next]_vars PROVE LocalsOK'
    OBVIOUS
  <1>0. LocalsOK /\ phase \in [Requests -> Phases] /\ Handlers \subseteq Agents /\ Workers \subseteq Agents
    BY DEF TypeOK, RowsOK, Agents
  <1>1. ASSUME UNCHANGED <<pc, job>> PROVE LocalsOK'
    BY <1>0, <1>1 DEF LocalsOK
  <1>2. ASSUME NEW h \in Handlers, NEW r \in Requests, HandlerStart(h, r) PROVE LocalsOK'
    <2>1. [NoJob EXCEPT !.target = r] \in Jobs /\ [NoJob EXCEPT !.target = r].target \in Requests
      BY NoJobType DEF Jobs, NoJob
    <2>2. QED
      BY <1>0, <1>2, <2>1, SetLocals DEF HandlerStart, Labels
  <1>3. ASSUME NEW h \in Handlers, HandlerRead(h) PROVE LocalsOK'
    <2>1. phase[job[h].target] \in Phases /\ pc[h] = "read"
      BY <1>0, <1>3 DEF HandlerRead, LocalsOK
    <2>2. CASE phase[job[h].target] \in {"none", "requested"}
      BY <1>0, <1>3, <2>1, <2>2, SeenLocals DEF HandlerRead, Labels
    <2>3. CASE phase[job[h].target] \notin {"none", "requested"}
      BY <1>0, <1>3, <2>1, <2>3, ProceedLocals DEF HandlerRead
    <2>4. QED
      BY <2>2, <2>3
  <1>4. ASSUME NEW h \in Handlers, HandlerAuthorize(h) PROVE LocalsOK'
    <2>1. CASE Finish(h, "failed")
      BY <1>0, <1>4, <2>1, FinishLocals DEF HandlerAuthorize, Outcomes
    <2>2. CASE Goto(h, "begin") /\ UNCHANGED job
      BY <1>0, <1>4, <2>2, GotoLocals DEF HandlerAuthorize, Labels
    <2>3. CASE Goto(h, "deleteAuth") /\ UNCHANGED job /\ job[h].seen # "none"
      <3>1. job[h].seen = "requested"
        BY <1>0, <1>4, <2>3 DEF HandlerAuthorize, LocalsOK
      <3>2. QED
        BY <1>0, <1>4, <2>3, <3>1, GotoLocals DEF HandlerAuthorize, Labels
    <2>4. CASE Goto(h, "advance") /\ UNCHANGED job /\ job[h].seen = "requested"
      BY <1>0, <1>4, <2>4, GotoLocals DEF HandlerAuthorize, Labels, NextPhase
    <2>5. QED
      BY <1>4, <2>1, <2>2, <2>3, <2>4 DEF HandlerAuthorize
  <1>5. ASSUME NEW h \in Handlers, HandlerBegin(h) PROVE LocalsOK'
    <2> DEFINE p == IF phase[job[h].target] = "none" THEN "requested" ELSE phase[job[h].target]
    <2>1. p \in Phases \ {"none"} /\ pc[h] = "begin"
      BY <1>0, <1>5 DEF HandlerBegin, LocalsOK, Phases
    <2>2. CASE p = "requested"
      <3>1. Goto(h, "deleteAuth") /\ job' = [job EXCEPT ![h].seen = p]
        BY <1>5, <2>2 DEF HandlerBegin
      <3>2. QED
        BY <1>0, <2>1, <2>2, <3>1, SeenLocals DEF Labels
    <2>3. CASE p # "requested"
      <3>1. Proceed(h, p)
        BY <1>5, <2>3 DEF HandlerBegin
      <3>2. QED
        BY <1>0, <2>1, <3>1, ProceedLocals
    <2>4. QED
      BY <2>2, <2>3
  <1>6. ASSUME NEW h \in Handlers, HandlerDeleteAuth(h) PROVE LocalsOK'
    <2>1. job[h].seen = "requested"
      BY <1>0, <1>6 DEF HandlerDeleteAuth, LocalsOK
    <2>2. QED
      BY <1>0, <1>6, <2>1, GotoLocals DEF HandlerDeleteAuth, Labels
  <1>7. ASSUME NEW h \in Handlers, HandlerRecheck(h) PROVE LocalsOK'
    <2>1. job[h].seen = "requested"
      BY <1>0, <1>7 DEF HandlerRecheck, LocalsOK
    <2>2. QED
      BY <1>0, <1>7, <2>1, GotoLocals, FinishLocals DEF HandlerRecheck, Labels, Outcomes, NextPhase
  <1>8. ASSUME NEW h \in Handlers, Abandon(h) PROVE LocalsOK'
    BY <1>0, <1>8, ResetLocals DEF Abandon
  <1>9. ASSUME NEW a \in Agents, Advance(a) PROVE LocalsOK'
    <2>1. pc[a] = "advance" /\ job[a].seen \in DOMAIN NextPhase
      BY <1>0, <1>9 DEF Advance, LocalsOK
    <2>2. NextPhase[job[a].seen] \in Phases \ {"none"}
      BY <2>1 DEF NextPhase, Phases
    <2>3. CASE Proceed(a, NextPhase[job[a].seen])
      BY <1>0, <2>1, <2>2, <2>3, ProceedLocals
    <2>4. CASE Goto(a, "recover") /\ UNCHANGED job
      BY <1>0, <2>1, <2>4, GotoLocals DEF Labels
    <2>5. QED
      BY <1>9, <2>3, <2>4 DEF Advance
  <1>10. ASSUME NEW a \in Agents, Recover(a) PROVE LocalsOK'
    <2> DEFINE p == phase[job[a].target]
    <2>1. pc[a] = "recover" /\ job[a].seen \in DOMAIN NextPhase /\ p \in Phases
      BY <1>0, <1>10 DEF Recover, LocalsOK
    <2>2. CASE Finish(a, "failed")
      BY <1>0, <2>1, <2>2, FinishLocals DEF Outcomes
    <2>3. CASE Proceed(a, p) /\ PhaseRank[p] >= PhaseRank[NextPhase[job[a].seen]]
      <3>1. p # "none"
        BY <2>1, <2>3 DEF NextPhase, PhaseRank
      <3>2. QED
        BY <1>0, <2>1, <2>3, <3>1, ProceedLocals
    <2>4. QED
      BY <1>10, <2>2, <2>3 DEF Recover
  <1>11. ASSUME NEW a \in Agents, List(a) PROVE LocalsOK'
    <2> DEFINE later == {p \in photos : job[a].cursor < p}
    <2>1. pc[a] = "list" /\ job[a].seen = "storage_deleting" /\ job[a] \in Jobs /\ job[a].target \in Requests
      BY <1>0, <1>11 DEF List, LocalsOK
    <2>2. CASE Finish(a, "failed")
      BY <1>0, <2>1, <2>2, FinishLocals DEF Outcomes
    <2>3. CASE Goto(a, "advance") /\ UNCHANGED job
      BY <1>0, <2>1, <2>3, GotoLocals DEF Labels, NextPhase
    <2>4. ASSUME Goto(a, "remove"), NEW last \in later, NEW S \in SUBSET later,
                 job' = [job EXCEPT ![a].cursor = last, ![a].page = S]
          PROVE  LocalsOK'
      <3> DEFINE j == [job[a] EXCEPT !.cursor = last, !.page = S]
      <3>1. last \in Nat /\ S \in SUBSET Photos
        BY DeletionConstants DEF TypeOK, RowsOK, Photos
      <3>2. j \in Jobs /\ j.target \in Requests /\ j.seen = "storage_deleting"
        BY <2>1, <3>1 DEF Jobs
      <3>3. job' = [job EXCEPT ![a] = j]
        BY <2>4, <1>0 DEF LocalsOK
      <3>4. QED
        BY <1>0, <2>4, <3>2, <3>3, SetLocals DEF Labels
    <2>5. QED
      BY <1>11, <2>2, <2>3, <2>4 DEF List
  <1>12. ASSUME NEW a \in Agents, Remove(a) PROVE LocalsOK'
    <2> DEFINE count == job[a].removed + Cardinality(job[a].page)
    <2>1. pc[a] = "remove" /\ job[a].seen = "storage_deleting" /\ job[a] \in Jobs /\ job[a].target \in Requests
      BY <1>0, <1>12 DEF Remove, LocalsOK
    <2>2. CASE Finish(a, "failed") \/ Finish(a, "resumable")
      BY <1>0, <2>1, <2>2, FinishLocals DEF Outcomes
    <2>3. CASE Goto(a, "list") /\ job' = [job EXCEPT ![a].removed = count, ![a].page = {}]
      <3> DEFINE j == [job[a] EXCEPT !.removed = count, !.page = {}]
      <3>1. count \in Nat
        BY <2>1, PageFinite DEF Jobs
      <3>2. j \in Jobs /\ j.target \in Requests /\ j.seen = "storage_deleting"
        BY <2>1, <3>1 DEF Jobs
      <3>3. job' = [job EXCEPT ![a] = j]
        BY <2>3, <1>0 DEF LocalsOK
      <3>4. QED
        BY <1>0, <2>3, <3>2, <3>3, SetLocals DEF Labels
    <2>4. QED
      BY <1>12, <2>2, <2>3 DEF Remove
  <1>13. ASSUME NEW w \in Workers, WorkerClaim(w) PROVE LocalsOK'
    <2>1. pc[w] = "idle" /\ UNCHANGED job /\ (Goto(w, "idle") \/ Goto(w, "next"))
      BY <1>13 DEF WorkerClaim
    <2>2. QED
      BY <1>0, <2>1 DEF LocalsOK, Goto, Labels
  <1>14. ASSUME NEW w \in Workers, WorkerNext(w) PROVE LocalsOK'
    <2>1. CASE Goto(w, "idle") /\ job' = [job EXCEPT ![w] = NoJob]
      BY <1>0, <2>1, ResetLocals
    <2>2. ASSUME NEW c \in batch[w], Goto(w, "read"),
                 job' = [job EXCEPT ![w] = [NoJob EXCEPT !.target = c[1], !.held = c[2]]]
          PROVE  LocalsOK'
      <3> DEFINE j == [NoJob EXCEPT !.target = c[1], !.held = c[2]]
      <3>1. c[1] \in Requests /\ c[2] \in 0..MaxAttempts
        BY DeletionConstants DEF TypeOK, RowsOK
      <3>2. j \in Jobs /\ j.target \in Requests
        BY <3>1, NoJobType DEF Jobs, NoJob
      <3>3. QED
        BY <1>0, <2>2, <3>2, SetLocals DEF Labels
    <2>3. QED
      BY <1>14, <2>1, <2>2 DEF WorkerNext
  <1>15. ASSUME NEW w \in Workers, WorkerRead(w) PROVE LocalsOK'
    <2>1. pc[w] = "read" /\ phase[job[w].target] \in Phases
      BY <1>0, <1>15 DEF WorkerRead, LocalsOK
    <2>2. QED
      BY <1>0, <1>15, <2>1, FinishLocals, ProceedLocals DEF WorkerRead, Outcomes
  <1>16. ASSUME NEW w \in Workers, WorkerFail(w) PROVE LocalsOK'
    BY <1>0, <1>16, FinishLocals DEF WorkerFail, Outcomes
  <1>17. ASSUME NEW w \in Workers, WorkerRelease(w) PROVE LocalsOK'
    BY <1>0, <1>17, ResetLocals DEF WorkerRelease
  <1>18. ASSUME NEW w \in Workers, Crash(w) PROVE LocalsOK'
    BY <1>0, <1>18, ResetLocals DEF Crash
  <1>19. CASE Upload \/ OwnerDelete \/ ListTerminal \/ UNCHANGED vars
    BY <1>1, <1>19 DEF Upload, OwnerDelete, ListTerminal, vars
  <1>20. ASSUME NEW r \in Requests, LeaseExpires(r) \/ BackoffElapses(r) PROVE LocalsOK'
    BY <1>1, <1>20 DEF LeaseExpires, BackoffElapses
  <1>21. QED
    BY <1>2, <1>3, <1>4, <1>5, <1>6, <1>7, <1>8, <1>9, <1>10, <1>11, <1>12, <1>13,
       <1>14, <1>15, <1>16, <1>17, <1>18, <1>19, <1>20
       DEF Next, HandlerStep, WorkerStep, SharedStep, Agents

LEMMA RowsStep == TypeOK /\ [Next]_vars => RowsOK'
  <1> SUFFICES ASSUME TypeOK, [Next]_vars PROVE RowsOK'
    OBVIOUS
  <1> USE DEF RowsOK
  <1>0. RowsOK /\ LocalsOK /\ Handlers \subseteq Agents /\ Workers \subseteq Agents
    BY DEF TypeOK, Agents
  <1>1. CASE Upload \/ OwnerDelete
    BY <1>0, <1>1 DEF Upload, OwnerDelete, claim
  <1>2. CASE ListTerminal
    BY <1>0, <1>2 DEF ListTerminal, account
  <1>3. ASSUME NEW r \in Requests, LeaseExpires(r) \/ BackoffElapses(r) PROVE RowsOK'
    BY <1>0, <1>3 DEF LeaseExpires, BackoffElapses, account
  <1>4. ASSUME UNCHANGED <<account, phase, claim, batch>> PROVE RowsOK'
    BY <1>0, <1>4 DEF account, claim
  <1>5. ASSUME NEW h \in Handlers,
               \/ \E r \in Requests : HandlerStart(h, r)
               \/ HandlerRead(h) \/ HandlerAuthorize(h) \/ HandlerRecheck(h) \/ Abandon(h)
        PROVE  RowsOK'
    BY <1>4, <1>5 DEF HandlerStart, HandlerRead, HandlerAuthorize, HandlerRecheck, Abandon
  <1>6. ASSUME NEW h \in Handlers, HandlerBegin(h) PROVE RowsOK'
    BY <1>0, <1>6 DEF HandlerBegin, account, claim, Phases
  <1>7. ASSUME NEW h \in Handlers, HandlerDeleteAuth(h) PROVE RowsOK'
    BY <1>0, <1>7 DEF HandlerDeleteAuth, claim
  <1>8. ASSUME NEW a \in Agents, Advance(a) PROVE RowsOK'
    <2>1. NextPhase[job[a].seen] \in Phases
      BY <1>0, <1>8 DEF Advance, LocalsOK, NextPhase, Phases
    <2>2. phase' \in [Requests -> Phases]
      BY <1>0, <1>8, <2>1 DEF Advance, CasPhase
    <2>3. QED
      BY <1>0, <1>8, <2>2 DEF Advance, account, claim
  <1>9. ASSUME NEW a \in Agents, Recover(a) \/ List(a) PROVE RowsOK'
    BY <1>4, <1>9 DEF Recover, List
  <1>10. ASSUME NEW a \in Agents, Remove(a) PROVE RowsOK'
    BY <1>0, <1>10 DEF Remove, claim
  <1>11. ASSUME NEW w \in Workers, WorkerClaim(w) PROVE RowsOK'
    <2> PICK S \in SUBSET Claimable :
          /\ terminal' = [r \in Requests |-> terminal[r] \/ r \in Exhausted]
          /\ attempts' = [r \in Requests |-> IF r \in S THEN attempts[r] + 1 ELSE attempts[r]]
          /\ waiting' = [r \in Requests |-> waiting[r] /\ r \notin S \cup Exhausted]
          /\ lease' = [r \in Requests |-> IF r \in S THEN "live"
                                          ELSE IF r \in Exhausted THEN "none" ELSE lease[r]]
          /\ holder' = [r \in Requests |-> IF r \in S THEN w ELSE holder[r]]
          /\ batch' = [batch EXCEPT ![w] = {<<r, attempts[r] + 1>> : r \in S}]
      BY <1>11 DEF WorkerClaim
    <2>1. \A r \in S : r \in Requests /\ attempts[r] + 1 \in 1..MaxAttempts
      BY <1>0, DeletionConstants DEF Claimable
    <2>2. attempts' \in [Requests -> 0..MaxAttempts]
      BY <1>0, <2>1, DeletionConstants
    <2>3. batch' \in [Workers -> SUBSET (Requests \X (1..MaxAttempts))]
      BY <1>0, <2>1
    <2>4. UNCHANGED <<account, phase>>
      BY <1>11 DEF WorkerClaim
    <2>5. QED
      BY <1>0, <2>2, <2>3, <2>4 DEF account
  <1>12. ASSUME NEW w \in Workers, WorkerNext(w) PROVE RowsOK'
    BY <1>0, <1>12 DEF WorkerNext, account, claim
  <1>13. ASSUME NEW w \in Workers, WorkerRead(w) \/ WorkerFail(w) PROVE RowsOK'
    BY <1>4, <1>13 DEF WorkerRead, WorkerFail
  <1>14. ASSUME NEW w \in Workers, WorkerRelease(w) PROVE RowsOK'
    <2>1. UNCHANGED <<account, phase, holder>> /\ batch' \in [Workers -> SUBSET (Requests \X (1..MaxAttempts))]
      BY <1>0, <1>14 DEF WorkerRelease
    <2>2. CASE UNCHANGED <<attempts, lease, waiting, terminal>>
      BY <1>0, <2>1, <2>2 DEF account
    <2>3. CASE ReleaseWrite(job[w].target, job[w].held, job[w].outcome)
      <3> DEFINE r == job[w].target
                 left == IF job[w].outcome = "resumable" THEN 0 ELSE attempts[r]
      <3>0. r \in Requests
        BY <1>0, <1>14 DEF WorkerRelease, LocalsOK
      <3>1a. left \in 0..MaxAttempts /\ attempts' = [attempts EXCEPT ![r] = left]
        BY <1>0, <2>3, <3>0, DeletionConstants DEF ReleaseWrite
      <3>1. attempts' \in [Requests -> 0..MaxAttempts]
        BY <1>0, <3>1a
      <3>1b. lease' \in [Requests -> {"none", "live", "expired"}]
        BY <1>0, <2>3 DEF ReleaseWrite
      <3>2. waiting' \in [Requests -> BOOLEAN] /\ terminal' \in [Requests -> BOOLEAN]
        BY <1>0, <2>3 DEF ReleaseWrite
      <3>3. QED
        BY <1>0, <2>1, <3>1, <3>1b, <3>2 DEF account
    <2>4. QED
      BY <1>14, <2>2, <2>3 DEF WorkerRelease
  <1>15. ASSUME NEW w \in Workers, Crash(w) PROVE RowsOK'
    BY <1>0, <1>15 DEF Crash, account, claim
  <1>16. CASE UNCHANGED vars
    BY <1>0, <1>16 DEF vars
  <1>17. QED
    BY <1>1, <1>2, <1>3, <1>5, <1>6, <1>7, <1>8, <1>9, <1>10, <1>11, <1>12, <1>13,
       <1>14, <1>15, <1>16
       DEF Next, HandlerStep, WorkerStep, SharedStep, Agents

\* Every invocation stays in a state the code can be in, and every row in the
\* ranges its check constraints demand (continuation_attempt_count <= 8).
THEOREM TypeCorrect == Spec => []TypeOK
<1>1. Init => TypeOK
  BY NoJobType, DeletionConstants DEF Init, TypeOK, RowsOK, LocalsOK, Phases, Labels
<1>2. TypeOK /\ [Next]_vars => TypeOK'
  BY LocalsStep, RowsStep DEF TypeOK
<1>3. QED
  BY <1>1, <1>2, PTL DEF Spec
-----------------------------------------------------------------------------
(* The erasure invariant *)

Others(a) == \A b \in Agents : b # a => pc'[b] = pc[b] /\ job'[b] = job[b]

\* A step that changes only one invocation's locals.
LEMMA LocalMove ==
    ASSUME ErasureInv, NEW a \in Agents, UNCHANGED <<account, phase>>,
           Others(a), KnowledgeInv(a)'
    PROVE  ErasureInv'
  <1>1. \A b \in Agents : b # a => KnowledgeInv(b)'
    BY DEF ErasureInv, Others, KnowledgeInv, account
  <1>2. QED
    BY <1>1 DEF ErasureInv, account

LEMMA OnlyHimGoto == ASSUME TypeOK, NEW a \in Agents, NEW l \in Labels, Goto(a, l), UNCHANGED job
                     PROVE  Others(a) /\ pc'[a] = l /\ job'[a] = job[a]
  BY DEF TypeOK, LocalsOK, Others, Goto

LEMMA OnlyHimSet == ASSUME TypeOK, NEW a \in Agents, NEW l \in Labels, NEW j,
                           Goto(a, l), job' = [job EXCEPT ![a] = j]
                    PROVE  Others(a) /\ pc'[a] = l /\ job'[a] = j
  BY DEF TypeOK, LocalsOK, Others, Goto

LEMMA FinishMove == ASSUME TypeOK, NEW a \in Agents, NEW o \in Outcomes, Finish(a, o)
                    PROVE  Others(a) /\ pc'[a] \in {"idle", "release"}
  <1>1. CASE a \in Workers
    <2>1. Goto(a, "release") /\ job' = [job EXCEPT ![a] = [job[a] EXCEPT !.outcome = o]]
      BY <1>1 DEF Finish
    <2>2. QED
      BY <2>1, OnlyHimSet DEF Labels
  <1>2. CASE a \notin Workers
    <2>1. Goto(a, "idle") /\ job' = [job EXCEPT ![a] = NoJob]
      BY <1>2 DEF Finish
    <2>2. QED
      BY <2>1, OnlyHimSet DEF Labels
  <1>3. QED
    BY <1>1, <1>2

\* Nothing is claimed of an invocation that has finished or not started.
LEMMA QuietKnowledge == ASSUME NEW a \in Agents, pc'[a] \in {"idle", "next", "release"}
                        PROVE  KnowledgeInv(a)'
  BY DEF KnowledgeInv

LEMMA ProceedMove ==
    ASSUME TypeOK, ErasureInv, NEW a \in Agents, NEW p \in Phases \ {"none"}, Proceed(a, p),
           UNCHANGED photos, job[a].target \in Requests,
           job[a].cursor = 0 \/ p = "completed",
           PhaseRank[phase'[job[a].target]] >= PhaseRank[p],
           p # "completed" => ~authExists'
    PROVE  Others(a) /\ KnowledgeInv(a)'
  <1>1. CASE p = "completed"
    BY <1>1, FinishMove, QuietKnowledge DEF Proceed, Outcomes
  <1>2. CASE p # "completed"
    <2> DEFINE l == IF p = "storage_deleting" THEN "list" ELSE "advance"
               j == [job[a] EXCEPT !.seen = p]
    <2>1. l \in Labels /\ Goto(a, l) /\ job' = [job EXCEPT ![a] = j]
      BY <1>2 DEF Proceed, Labels
    <2>2. Others(a) /\ pc'[a] = l /\ job'[a] = j
      BY <2>1, OnlyHimSet
    <2>3. j.seen = p /\ j.cursor = 0 /\ j.target = job[a].target
      BY <1>2 DEF TypeOK, LocalsOK, Jobs
    <2>4. \A q \in photos : 0 < q
      BY DeletionConstants DEF TypeOK, RowsOK, Photos
    <2>5. QED
      BY <1>2, <2>2, <2>3, <2>4 DEF KnowledgeInv, Phases
  <1>3. QED
    BY <1>1, <1>2

\* The rank of a phase, as the proofs use it.
LEMMA Ranks ==
    ASSUME NEW p \in Phases, NEW q \in Phases
    PROVE  /\ PhaseRank[p] \in 0..4
           /\ PhaseRank[p] = PhaseRank[q] => p = q
           /\ (PhaseRank[p] >= 2) <=> p \in {"auth_deleted", "storage_deleting", "completed"}
           /\ (PhaseRank[p] >= 1) <=> p # "none"
           /\ (PhaseRank[p] >= 4) <=> p = "completed"
           /\ q \in DOMAIN NextPhase => /\ NextPhase[q] \in Phases \ {"none", "requested"}
                                        /\ PhaseRank[NextPhase[q]] = PhaseRank[q] + 1
  BY DEF PhaseRank, Phases, NextPhase

LEMMA ErasureStep == TypeOK /\ ErasureInv /\ [Next]_vars => ErasureInv'
  <1> SUFFICES ASSUME TypeOK, ErasureInv, [Next]_vars PROVE ErasureInv'
    OBVIOUS
  <1>0. /\ RowsOK /\ LocalsOK /\ Handlers \subseteq Agents /\ Workers \subseteq Agents
        /\ \A r \in Requests : phase[r] \in Phases
        /\ \A a \in Agents : KnowledgeInv(a)
        /\ \A r \in Requests : phase[r] \in {"auth_deleted", "storage_deleting", "completed"} => ~authExists
    BY Ranks DEF TypeOK, RowsOK, Agents, ErasureInv
  <1>1. ASSUME UNCHANGED <<account, phase, pc, job>> PROVE ErasureInv'
    BY <1>1 DEF ErasureInv, KnowledgeInv, account
  <1>2. CASE Upload
    <2>1. \A a \in Agents : pc[a] \notin {"list", "remove"} /\ ~(pc[a] \in {"advance", "recover"})
      <3> SUFFICES ASSUME NEW a \in Agents, pc[a] \in {"list", "remove", "advance", "recover"} PROVE FALSE
        OBVIOUS
      <3>1. job[a].target \in Requests /\ job[a].seen \in {"requested", "auth_deleted", "storage_deleting"}
        BY <1>0 DEF LocalsOK, NextPhase
      <3>2. phase[job[a].target] = "none" /\ PhaseRank[phase[job[a].target]] >= PhaseRank[job[a].seen]
        BY <1>0, <1>2, <3>1 DEF Upload, KnowledgeInv
      <3>3. QED
        BY <3>1, <3>2 DEF PhaseRank
    <2>2. QED
      BY <1>2, <2>1 DEF Upload, ErasureInv, KnowledgeInv
  <1>3. CASE OwnerDelete
    BY <1>3 DEF OwnerDelete, ErasureInv, KnowledgeInv
  <1>4. CASE ListTerminal \/ UNCHANGED vars
    BY <1>1, <1>4 DEF ListTerminal, vars, account
  <1>5. ASSUME NEW r \in Requests, LeaseExpires(r) \/ BackoffElapses(r) PROVE ErasureInv'
    BY <1>1, <1>5 DEF LeaseExpires, BackoffElapses
  <1>6. ASSUME NEW h \in Handlers, NEW r \in Requests, HandlerStart(h, r) PROVE ErasureInv'
    <2>1. Others(h) /\ pc'[h] = "read" /\ job'[h] = [NoJob EXCEPT !.target = r]
      BY <1>0, <1>6, OnlyHimSet DEF HandlerStart, Labels
    <2>2. KnowledgeInv(h)'
      BY <2>1 DEF KnowledgeInv, NoJob
    <2>3. QED
      BY <1>0, <1>6, <2>1, <2>2, LocalMove DEF HandlerStart
  <1>7. ASSUME NEW h \in Handlers, HandlerRead(h) PROVE ErasureInv'
    <2> DEFINE p == phase[job[h].target]
    <2>1. pc[h] = "read" /\ job[h].target \in Requests /\ job[h].cursor = 0 /\ p \in Phases
      BY <1>0, <1>7 DEF HandlerRead, LocalsOK, KnowledgeInv
    <2>2. CASE p \in {"none", "requested"}
      <3> DEFINE j == [job[h] EXCEPT !.seen = p]
      <3>1. Goto(h, "authorize") /\ job' = [job EXCEPT ![h] = j]
        BY <1>7, <2>2 DEF HandlerRead
      <3>2. Others(h) /\ pc'[h] = "authorize" /\ job'[h] = j
        BY <1>0, <3>1, OnlyHimSet DEF Labels
      <3>3. j.seen = p /\ j.cursor = 0 /\ j.target = job[h].target
        BY <1>0, <2>1 DEF LocalsOK, Jobs
      <3>4. KnowledgeInv(h)'
        BY <1>7, <2>1, <2>2, <3>2, <3>3, Ranks DEF KnowledgeInv, HandlerRead
      <3>5. QED
        BY <1>0, <1>7, <3>2, <3>4, LocalMove DEF HandlerRead
    <2>3. CASE p \notin {"none", "requested"}
      <3>1. Others(h) /\ KnowledgeInv(h)'
        <4>1. /\ Proceed(h, p) /\ UNCHANGED <<photos, authExists, phase>>
          BY <1>7, <2>3 DEF HandlerRead, account
        <4>2. PhaseRank[phase'[job[h].target]] >= PhaseRank[p] /\ ~authExists'
          BY <1>0, <2>1, <2>3, <4>1, Ranks DEF Phases
        <4>3. QED
          BY <1>0, <2>1, <2>3, <4>1, <4>2, ProceedMove
      <3>2. QED
        BY <1>0, <1>7, <3>1, LocalMove DEF HandlerRead
    <2>4. QED
      BY <2>2, <2>3
  <1>8. ASSUME NEW h \in Handlers, HandlerAuthorize(h) PROVE ErasureInv'
    <2>1. pc[h] = "authorize" /\ job[h].cursor = 0 /\ UNCHANGED <<account, phase>>
      BY <1>0, <1>8 DEF HandlerAuthorize, KnowledgeInv
    <2>2. CASE Finish(h, "failed")
      BY <1>0, <2>1, <2>2, FinishMove, QuietKnowledge, LocalMove DEF Outcomes
    <2>3. ASSUME NEW l \in {"begin", "deleteAuth", "advance"}, Goto(h, l), UNCHANGED job,
                 l = "advance" => ~authExists /\ job[h].seen = "requested"
          PROVE  ErasureInv'
      <3>1. Others(h) /\ pc'[h] = l /\ job'[h] = job[h]
        BY <1>0, <2>3, OnlyHimGoto DEF Labels
      <3>2. KnowledgeInv(h)'
        BY <1>0, <2>1, <2>3, <3>1 DEF KnowledgeInv, account
      <3>3. QED
        BY <1>0, <2>1, <3>1, <3>2, LocalMove
    <2>4. QED
      BY <1>8, <2>2, <2>3 DEF HandlerAuthorize
  <1>9. ASSUME NEW h \in Handlers, HandlerBegin(h) PROVE ErasureInv'
    <2> DEFINE r == job[h].target
               p == IF phase[r] = "none" THEN "requested" ELSE phase[r]
    <2>1. /\ pc[h] = "begin" /\ job[h].cursor = 0 /\ r \in Requests /\ p \in Phases \ {"none"}
          /\ phase' = [phase EXCEPT ![r] = p] /\ UNCHANGED account
      BY <1>0, <1>9 DEF HandlerBegin, KnowledgeInv, LocalsOK, Phases
    <2>2. Others(h) /\ KnowledgeInv(h)'
      <3>1. CASE p = "requested"
        <4> DEFINE j == [job[h] EXCEPT !.seen = p]
        <4>1. Goto(h, "deleteAuth") /\ job' = [job EXCEPT ![h] = j]
          BY <1>9, <3>1 DEF HandlerBegin
        <4> HIDE DEF j, p
        <4>2. Others(h) /\ pc'[h] = "deleteAuth" /\ job'[h] = j
          BY <1>0, <4>1, OnlyHimSet DEF Labels
        <4>3. j.seen = p /\ j.cursor = 0 /\ j.target = r /\ phase'[r] = p
          BY <1>0, <2>1 DEF j, LocalsOK, Jobs, RowsOK
        <4>4. PhaseRank[phase'[r]] >= PhaseRank[j.seen]
          BY <2>1, <4>3, Ranks
        <4>5. QED
          BY <4>2, <4>3, <4>4 DEF KnowledgeInv
      <3>2. CASE p # "requested"
        <4>1. Proceed(h, p) /\ phase'[r] = p /\ UNCHANGED <<photos, authExists>>
          BY <1>0, <1>9, <2>1, <3>2 DEF HandlerBegin, account, RowsOK
        <4>2. ~authExists'
          BY <1>0, <2>1, <3>2, <4>1 DEF Phases
        <4>3. QED
          BY <1>0, <2>1, <4>1, <4>2, Ranks, ProceedMove
      <3>3. QED
        BY <3>1, <3>2
    <2>3. \A b \in Agents : b # h => KnowledgeInv(b)'
      <3> SUFFICES ASSUME NEW b \in Agents, b # h PROVE KnowledgeInv(b)'
        OBVIOUS
      <3>1. pc'[b] = pc[b] /\ job'[b] = job[b] /\ KnowledgeInv(b) /\ UNCHANGED <<photos, authExists>>
        BY <1>0, <2>1, <2>2 DEF Others, account
      <3>2. \A q \in Requests : PhaseRank[phase'[q]] >= PhaseRank[phase[q]]
        BY <1>0, <2>1 DEF RowsOK, PhaseRank, Phases
      <3>3. pc[b] \notin {"idle", "next"} => /\ job[b].target \in Requests
                                           /\ PhaseRank[phase[job[b].target]] \in Nat
                                           /\ PhaseRank[phase'[job[b].target]] \in Nat
        BY <1>0, <2>1, Ranks DEF LocalsOK, RowsOK
      <3>4. job[b].seen \in Phases
        BY <1>0 DEF LocalsOK, Jobs
      <3>5. PhaseRank[job[b].seen] \in Nat
        BY <3>4, Ranks
      <3>6. QED
        BY <3>1, <3>2, <3>3, <3>5 DEF KnowledgeInv
    <2>4. \A q \in Requests : /\ PhaseRank[phase'[q]] >= 2 => ~authExists'
                              /\ phase'[q] = "completed" => photos' = {}
      BY <1>0, <2>1 DEF RowsOK, PhaseRank, Phases, ErasureInv, account
    <2>5. QED
      BY <2>2, <2>3, <2>4 DEF ErasureInv
  <1>10. ASSUME NEW h \in Handlers, HandlerDeleteAuth(h) PROVE ErasureInv'
    <2>0. authExists' = authExists \/ authExists' = FALSE
      BY <1>10, Zenon DEF HandlerDeleteAuth
    <2>1. /\ pc[h] = "deleteAuth" /\ (~authExists => ~authExists')
          /\ UNCHANGED <<photos, phase, job>> /\ Goto(h, "recheck")
      BY <1>10, <2>0 DEF HandlerDeleteAuth
    <2>2. Others(h) /\ pc'[h] = "recheck" /\ job'[h] = job[h]
      BY <1>0, <2>1, OnlyHimGoto DEF Labels
    <2>3. KnowledgeInv(h)'
      BY <1>0, <2>1, <2>2 DEF KnowledgeInv
    <2>4. ASSUME NEW b \in Agents, b # h PROVE KnowledgeInv(b)'
      <3>1. pc'[b] = pc[b] /\ job'[b] = job[b] /\ KnowledgeInv(b)
        BY <1>0, <2>2, <2>4 DEF Others
      <3>2. QED
        BY <2>1, <3>1 DEF KnowledgeInv
    <2>5. QED
      BY <2>1, <2>3, <2>4 DEF ErasureInv
  <1>11. ASSUME NEW h \in Handlers, HandlerRecheck(h) PROVE ErasureInv'
    <2>1. pc[h] = "recheck" /\ job[h].seen = "requested" /\ UNCHANGED <<account, phase>>
      BY <1>0, <1>11 DEF HandlerRecheck, LocalsOK
    <2>2. CASE authExists
      BY <1>0, <1>11, <2>1, <2>2, FinishMove, QuietKnowledge, LocalMove DEF HandlerRecheck, Outcomes
    <2>3. CASE ~authExists
      <3>1. Others(h) /\ pc'[h] = "advance" /\ job'[h] = job[h]
        BY <1>0, <1>11, <2>3, OnlyHimGoto DEF HandlerRecheck, Labels
      <3>2. KnowledgeInv(h)'
        BY <1>0, <2>1, <2>3, <3>1 DEF KnowledgeInv, account
      <3>3. QED
        BY <1>0, <2>1, <3>1, <3>2, LocalMove
    <2>4. QED
      BY <2>2, <2>3
  <1>12. ASSUME NEW a \in Agents, NEW l \in {"idle", "next"}, Goto(a, l),
                job' = [job EXCEPT ![a] = NoJob] \/ UNCHANGED job, UNCHANGED <<account, phase>>
         PROVE  ErasureInv'
    <2>1. Others(a) /\ pc'[a] = l
      BY <1>12, OnlyHimSet, OnlyHimGoto DEF Labels
    <2>2. QED
      BY <1>12, <2>1, QuietKnowledge, LocalMove
  <1>13. ASSUME NEW a \in Agents, Advance(a) PROVE ErasureInv'
    <2> DEFINE r == job[a].target
               from == job[a].seen
               to == NextPhase[from]
    <2>1. /\ pc[a] = "advance" /\ r \in Requests /\ from \in DOMAIN NextPhase
          /\ UNCHANGED account /\ ~authExists
          /\ from = "storage_deleting" => photos = {}
          /\ from # "storage_deleting" => job[a].cursor = 0
          /\ PhaseRank[phase[r]] >= PhaseRank[from]
      BY <1>0, <1>13 DEF Advance, LocalsOK, KnowledgeInv
    <2>2. from \in Phases /\ to \in Phases \ {"none", "requested"} /\ (to = "completed" => from = "storage_deleting")
      BY <2>1 DEF NextPhase, Phases
    <2>3. CasPhase(r, from, to) \/ UNCHANGED phase
      BY <1>13 DEF Advance
    <2>4. \A q \in Requests : /\ phase'[q] \in Phases
                              /\ PhaseRank[phase'[q]] >= PhaseRank[phase[q]]
                              /\ phase'[q] = "completed" => phase[q] = "completed" \/ photos = {}
      BY <1>0, <2>1, <2>2, <2>3, Ranks DEF CasPhase, RowsOK
    <2>5. Others(a) /\ KnowledgeInv(a)'
      <3>1. CASE Goto(a, "recover") /\ UNCHANGED job
        <4>1. Others(a) /\ pc'[a] = "recover" /\ job'[a] = job[a]
          BY <3>1, OnlyHimGoto DEF Labels
        <4>2. PhaseRank[phase'[r]] >= PhaseRank[from]
          BY <1>0, <2>1, <2>2, <2>4, Ranks
        <4>3. QED
          BY <2>1, <4>1, <4>2 DEF KnowledgeInv, account
      <3>2. CASE phase[r] = from /\ CasPhase(r, from, to) /\ Proceed(a, to)
        <4>1. phase'[r] = to
          BY <1>0, <2>1, <3>2 DEF CasPhase, RowsOK
        <4>2. job[a].cursor = 0 \/ to = "completed"
          BY <2>1 DEF NextPhase
        <4>3. QED
          BY <2>1, <2>2, <3>2, <4>1, <4>2, Ranks, ProceedMove DEF account
      <3>3. QED
        BY <1>13, <3>1, <3>2 DEF Advance
    <2>6. \A b \in Agents : b # a => KnowledgeInv(b)'
      <3> SUFFICES ASSUME NEW b \in Agents, b # a PROVE KnowledgeInv(b)'
        OBVIOUS
      <3>1. pc'[b] = pc[b] /\ job'[b] = job[b] /\ KnowledgeInv(b) /\ UNCHANGED <<photos, authExists>>
        BY <1>0, <2>1, <2>5 DEF Others, account
      <3>2. pc[b] \notin {"idle", "next"} => /\ job[b].target \in Requests
                                           /\ PhaseRank[phase[job[b].target]] \in Nat
                                           /\ PhaseRank[phase'[job[b].target]] \in Nat
        BY <1>0, <2>4, Ranks DEF LocalsOK
      <3>3. job[b].seen \in Phases
        BY <1>0 DEF LocalsOK, Jobs
      <3>4. PhaseRank[job[b].seen] \in Nat
        BY <3>3, Ranks
      <3>5. QED
        BY <2>4, <3>1, <3>2, <3>4 DEF KnowledgeInv
    <2>7. QED
      BY <1>0, <2>1, <2>4, <2>5, <2>6 DEF ErasureInv, account
  <1>14. ASSUME NEW a \in Agents, Recover(a) PROVE ErasureInv'
    <2> DEFINE p == phase[job[a].target]
               from == job[a].seen
    <2>1. /\ pc[a] = "recover" /\ job[a].target \in Requests /\ from \in DOMAIN NextPhase
          /\ UNCHANGED <<account, phase>> /\ ~authExists /\ p \in Phases
          /\ from # "storage_deleting" => job[a].cursor = 0
      BY <1>0, <1>14 DEF Recover, LocalsOK, KnowledgeInv
    <2>2. CASE Finish(a, "failed")
      BY <1>0, <2>1, <2>2, FinishMove, QuietKnowledge, LocalMove DEF Outcomes
    <2>3. CASE Proceed(a, p) /\ PhaseRank[p] >= PhaseRank[NextPhase[from]]
      <3>1. p # "none" /\ (from = "storage_deleting" => p = "completed")
        BY <2>1, <2>3 DEF NextPhase, PhaseRank, Phases
      <3>2. PhaseRank[phase'[job[a].target]] >= PhaseRank[p]
        BY <2>1, Ranks
      <3>3. Others(a) /\ KnowledgeInv(a)'
        BY <2>1, <2>3, <3>1, <3>2, ProceedMove DEF account
      <3>4. QED
        BY <2>1, <3>3, LocalMove
    <2>4. QED
      BY <1>14, <2>2, <2>3 DEF Recover
  <1>15. ASSUME NEW a \in Agents, List(a) PROVE ErasureInv'
    <2> DEFINE later == {p \in photos : job[a].cursor < p}
    <2>1. /\ pc[a] = "list" /\ job[a].seen = "storage_deleting" /\ job[a].target \in Requests
          /\ UNCHANGED <<account, phase>>
          /\ \A p \in photos : job[a].cursor < p
          /\ PhaseRank[phase[job[a].target]] >= PhaseRank["storage_deleting"]
      BY <1>0, <1>15 DEF List, LocalsOK, KnowledgeInv
    <2>2. CASE Finish(a, "failed")
      BY <1>0, <2>1, <2>2, FinishMove, QuietKnowledge, LocalMove DEF Outcomes
    <2>3. CASE later = {} /\ Goto(a, "advance") /\ UNCHANGED job
      <3>1. Others(a) /\ pc'[a] = "advance" /\ job'[a] = job[a] /\ photos = {}
        BY <2>1, <2>3, OnlyHimGoto DEF Labels
      <3>2. ~authExists
        BY <1>0, <2>1 DEF PhaseRank, Phases
      <3>3. KnowledgeInv(a)'
        BY <2>1, <3>1, <3>2 DEF KnowledgeInv, account
      <3>4. QED
        BY <2>1, <3>1, <3>3, LocalMove
    <2>4. ASSUME Goto(a, "remove"), NEW last \in later, NEW S \in SUBSET later,
                 IsPage(S, job[a].cursor, last),
                 job' = [job EXCEPT ![a].cursor = last, ![a].page = S]
          PROVE  ErasureInv'
      <3> DEFINE j == [job[a] EXCEPT !.cursor = last, !.page = S]
      <3>1. job[a] \in Jobs /\ job' = [job EXCEPT ![a] = j]
        BY <1>0, <2>4 DEF LocalsOK
      <3>2. Others(a) /\ pc'[a] = "remove" /\ job'[a] = j
        BY <2>4, <3>1, OnlyHimSet DEF Labels
      <3>3. j.cursor = last /\ j.page = S /\ j.seen = job[a].seen /\ j.target = job[a].target
        BY <3>1 DEF Jobs
      <3>4. \A p \in photos : p <= last => p \in S
        BY <2>1, <2>4 DEF IsPage
      <3>5. KnowledgeInv(a)'
        BY <2>1, <3>2, <3>3, <3>4 DEF KnowledgeInv, account
      <3>6. QED
        BY <2>1, <3>2, <3>5, LocalMove
    <2>5. QED
      BY <1>15, <2>2, <2>3, <2>4 DEF List
  <1>16. ASSUME NEW a \in Agents, Remove(a) PROVE ErasureInv'
    <2> DEFINE count == job[a].removed + Cardinality(job[a].page)
    <2>1. /\ pc[a] = "remove" /\ job[a].seen = "storage_deleting" /\ job[a] \in Jobs
          /\ UNCHANGED <<authExists, phase>> /\ photos' \subseteq photos
          /\ \A p \in photos : p <= job[a].cursor => p \in job[a].page
          /\ PhaseRank[phase[job[a].target]] >= PhaseRank[job[a].seen]
      BY <1>0, <1>16 DEF Remove, LocalsOK, KnowledgeInv
    <2>2. Others(a) /\ KnowledgeInv(a)'
      <3>1. CASE Finish(a, "failed") \/ Finish(a, "resumable")
        BY <3>1, FinishMove, QuietKnowledge DEF Outcomes
      <3>2. CASE /\ photos' = photos \ job[a].page /\ Goto(a, "list")
                 /\ job' = [job EXCEPT ![a].removed = count, ![a].page = {}]
        <4> DEFINE j == [job[a] EXCEPT !.removed = count, !.page = {}]
        <4>1. job' = [job EXCEPT ![a] = j]
          BY <1>0, <3>2 DEF LocalsOK
        <4>2. Others(a) /\ pc'[a] = "list" /\ job'[a] = j
          BY <3>2, <4>1, OnlyHimSet DEF Labels
        <4>3. j.cursor = job[a].cursor /\ j.seen = job[a].seen /\ j.target = job[a].target
          BY <2>1 DEF Jobs
        <4>4. \A p \in photos' : job[a].cursor < p
          BY <1>0, <2>1, <3>2, DeletionConstants DEF RowsOK, Photos, Jobs
        <4>5. QED
          BY <2>1, <4>2, <4>3, <4>4 DEF KnowledgeInv
      <3>3. QED
        BY <1>16, <3>1, <3>2 DEF Remove
    <2>3. \A b \in Agents : b # a => KnowledgeInv(b)'
      BY <1>0, <2>1, <2>2 DEF KnowledgeInv, Others
    <2>4. QED
      BY <2>1, <2>2, <2>3 DEF ErasureInv
  <1>17. ASSUME NEW w \in Workers, WorkerClaim(w) PROVE ErasureInv'
    BY <1>0, <1>12, <1>17 DEF WorkerClaim
  <1>18. ASSUME NEW w \in Workers, WorkerNext(w) PROVE ErasureInv'
    <2>1. CASE Goto(w, "idle") /\ job' = [job EXCEPT ![w] = NoJob]
      BY <1>0, <1>12, <1>18, <2>1 DEF WorkerNext
    <2>2. ASSUME NEW c \in batch[w], Goto(w, "read"),
                 job' = [job EXCEPT ![w] = [NoJob EXCEPT !.target = c[1], !.held = c[2]]]
          PROVE  ErasureInv'
      <3> DEFINE j == [NoJob EXCEPT !.target = c[1], !.held = c[2]]
      <3>1. Others(w) /\ pc'[w] = "read" /\ job'[w] = j
        BY <1>0, <2>2, OnlyHimSet DEF Labels
      <3>2. j.cursor = 0
        BY DEF NoJob
      <3>3. KnowledgeInv(w)'
        BY <3>1, <3>2 DEF KnowledgeInv
      <3>4. QED
        BY <1>0, <1>18, <3>1, <3>3, LocalMove DEF WorkerNext
    <2>3. QED
      BY <1>18, <2>1, <2>2 DEF WorkerNext
  <1>19. ASSUME NEW w \in Workers, WorkerRead(w) PROVE ErasureInv'
    <2> DEFINE p == phase[job[w].target]
    <2>1. /\ pc[w] = "read" /\ job[w].target \in Requests /\ job[w].cursor = 0 /\ p \in Phases
          /\ UNCHANGED <<account, phase>> /\ w \in Agents
      BY <1>0, <1>19 DEF WorkerRead, LocalsOK, KnowledgeInv
    <2>2. CASE Finish(w, "failed")
      BY <2>1, <2>2, FinishMove, QuietKnowledge, LocalMove DEF Outcomes
    <2>3. CASE p \notin {"none", "requested"} /\ Proceed(w, p)
      <3>1. ~authExists /\ PhaseRank[phase'[job[w].target]] >= PhaseRank[p]
        BY <1>0, <2>1, <2>3, Ranks DEF Phases
      <3>2. Others(w) /\ KnowledgeInv(w)'
        BY <2>1, <2>3, <3>1, ProceedMove DEF account
      <3>3. QED
        BY <2>1, <3>2, LocalMove
    <2>4. QED
      BY <1>19, <2>2, <2>3 DEF WorkerRead
  <1>20. ASSUME NEW w \in Workers, WorkerFail(w) PROVE ErasureInv'
    BY <1>0, <1>20, FinishMove, QuietKnowledge, LocalMove DEF WorkerFail, Outcomes
  <1>21. ASSUME NEW w \in Workers, WorkerRelease(w) PROVE ErasureInv'
    BY <1>0, <1>12, <1>21 DEF WorkerRelease
  <1>22. ASSUME NEW a \in Agents, Abandon(a) \/ Crash(a) PROVE ErasureInv'
    BY <1>12, <1>22 DEF Abandon, Crash
  <1>23. QED
    BY <1>2, <1>3, <1>4, <1>5, <1>6, <1>7, <1>8, <1>9, <1>10, <1>11, <1>13, <1>14, <1>15,
       <1>16, <1>17, <1>18, <1>19, <1>20, <1>21, <1>22
       DEF Next, HandlerStep, WorkerStep, SharedStep, Agents

\* A completed row really stands for an erased account, for any number of
\* devices, workers, photos and any paging and budgets.
THEOREM ErasureSafe == Spec => []CompletedMeansErased
<1>1. Init => ErasureInv
  BY DEF Init, ErasureInv, KnowledgeInv, PhaseRank
<1>2. TypeOK /\ ErasureInv /\ [Next]_vars => ErasureInv'
  BY ErasureStep
<1>3. TypeOK /\ ErasureInv => CompletedMeansErased
  BY Ranks DEF TypeOK, RowsOK, ErasureInv, CompletedMeansErased
<1>4. QED
  BY <1>1, <1>2, <1>3, TypeCorrect, PTL DEF Spec

-----------------------------------------------------------------------------
(* The reachability invariant *)

LEMMA PhaseMoveReach ==
    ASSUME TypeOK, ReachInv, NEW r \in Requests, NEW p \in Phases,
           phase' = [phase EXCEPT ![r] = p],
           p \in {"none", "requested"} => phase[r] \in {"none", "requested"},
           phase[r] = "completed" => p = "completed",
           UNCHANGED <<attempts, lease, terminal>>
    PROVE  ReachInv'
  <1>1. phase'[r] = p /\ \A q \in Requests : q # r => phase'[q] = phase[q]
    BY DEF TypeOK, RowsOK
  <1>2. phase[r] \in {"none", "requested"} => attempts[r] # MaxAttempts
    BY DeletionConstants DEF ReachInv
  <1>3. Active(r)' => Active(r) \/ phase[r] \in {"none", "requested"}
    BY <1>1 DEF Active, TypeOK, RowsOK, Phases
  <1>4. QED
    BY <1>1, <1>2, <1>3 DEF ReachInv, NeverStranded, Active

LEMMA ReachStep == TypeOK /\ ReachInv /\ [Next]_vars => ReachInv'
  <1> SUFFICES ASSUME TypeOK, ReachInv, [Next]_vars PROVE ReachInv'
    OBVIOUS
  <1>0. RowsOK /\ LocalsOK /\ Handlers \subseteq Agents /\ Workers \subseteq Agents
    BY DEF TypeOK, Agents
  <1>1. ASSUME UNCHANGED <<phase, attempts, lease, terminal>> PROVE ReachInv'
    BY <1>1 DEF ReachInv, NeverStranded, Active
  <1>2. CASE \/ Upload \/ OwnerDelete \/ UNCHANGED vars
             \/ \E r \in Requests : BackoffElapses(r)
             \/ \E h \in Handlers : \/ HandlerRead(h) \/ HandlerAuthorize(h) \/ HandlerDeleteAuth(h)
                                    \/ HandlerRecheck(h) \/ Abandon(h)
                                    \/ \E r \in Requests : HandlerStart(h, r)
             \/ \E w \in Workers : WorkerNext(w) \/ WorkerRead(w) \/ WorkerFail(w) \/ Crash(w)
             \/ \E a \in Agents : Recover(a) \/ List(a) \/ Remove(a)
    BY <1>1, <1>2 DEF Upload, OwnerDelete, vars, BackoffElapses, HandlerRead, HandlerAuthorize,
       HandlerDeleteAuth, HandlerRecheck, Abandon, HandlerStart, WorkerNext, WorkerRead,
       WorkerFail, Crash, Recover, List, Remove, claim
  <1>3. ASSUME NEW r \in Requests, LeaseExpires(r) PROVE ReachInv'
    BY <1>0, <1>3 DEF LeaseExpires, RowsOK, ReachInv, NeverStranded, Active
  <1>4. ASSUME NEW h \in Handlers, HandlerBegin(h) PROVE ReachInv'
    <2> DEFINE r == job[h].target
               p == IF phase[r] = "none" THEN "requested" ELSE phase[r]
    <2>1. r \in Requests /\ p \in Phases /\ phase' = [phase EXCEPT ![r] = p]
          /\ (p \in {"none", "requested"} => phase[r] \in {"none", "requested"})
          /\ (phase[r] = "completed" => p = "completed")
          /\ UNCHANGED <<attempts, lease, terminal>>
      BY <1>0, <1>4 DEF HandlerBegin, LocalsOK, RowsOK, Phases, claim
    <2> HIDE DEF p
    <2>2. QED
      BY <2>1, PhaseMoveReach
  <1>5. ASSUME NEW a \in Agents, Advance(a) PROVE ReachInv'
    <2> DEFINE r == job[a].target
               to == NextPhase[job[a].seen]
    <2>1. r \in Requests /\ to \in Phases \ {"none", "requested"}
          /\ \/ UNCHANGED phase
             \/ phase' = [phase EXCEPT ![r] = to] /\ phase[r] # "completed"
          /\ UNCHANGED <<attempts, lease, terminal>>
      BY <1>0, <1>5 DEF Advance, CasPhase, LocalsOK, NextPhase, Phases, claim
    <2> HIDE DEF to
    <2>2. QED
      BY <1>1, <2>1, PhaseMoveReach
  <1>6. CASE ListTerminal
    BY <1>0, <1>6 DEF ListTerminal, Exhausted, RowsOK, ReachInv, NeverStranded, Active
  <1>7. ASSUME NEW w \in Workers, WorkerClaim(w) PROVE ReachInv'
    <2>1. PICK S \in SUBSET Claimable :
          /\ terminal' = [r \in Requests |-> terminal[r] \/ r \in Exhausted]
          /\ attempts' = [r \in Requests |-> IF r \in S THEN attempts[r] + 1 ELSE attempts[r]]
          /\ lease' = [r \in Requests |-> IF r \in S THEN "live"
                                          ELSE IF r \in Exhausted THEN "none" ELSE lease[r]]
      BY <1>7 DEF WorkerClaim
    <2>2. UNCHANGED phase /\ \A r \in S : phase[r] \notin {"none", "requested"}
      BY <1>7 DEF WorkerClaim, Claimable, Active
    <2>3. \A r \in Requests : phase'[r] \in {"none", "requested"} => attempts'[r] = 0
      BY <2>1, <2>2 DEF ReachInv
    <2>4. ASSUME NEW r \in Requests, Active(r)', ~terminal'[r], attempts'[r] = MaxAttempts
          PROVE  lease'[r] # "none"
      <3>1. CASE r \in S
        BY <2>1, <3>1
      <3>2. CASE r \notin S
        <4>1. Active(r) /\ ~terminal[r] /\ attempts[r] = MaxAttempts /\ r \notin Exhausted
          BY <2>1, <2>2, <2>4, <3>2 DEF Active
        <4>2. lease[r] # "none" /\ lease'[r] = lease[r]
          BY <2>1, <3>2, <4>1 DEF ReachInv, NeverStranded
        <4>3. QED
          BY <4>2
      <3>3. QED
        BY <3>1, <3>2
    <2>5. QED
      BY <2>3, <2>4 DEF ReachInv, NeverStranded
  <1>8. ASSUME NEW w \in Workers, WorkerRelease(w) PROVE ReachInv'
    <2> DEFINE r == job[w].target
               n == job[w].held
               o == job[w].outcome
    <2>1. r \in Requests /\ UNCHANGED phase
      BY <1>0, <1>8 DEF WorkerRelease, LocalsOK
    <2>2. CASE UNCHANGED <<attempts, lease, waiting, terminal>>
      BY <1>1, <2>1, <2>2
    <2>3. CASE ReleaseAccepted(r, n, o) /\ ReleaseWrite(r, n, o)
      <3>1. attempts'[r] \in {0, n} /\ (terminal'[r] <=> o = "failed" /\ n >= MaxAttempts)
            /\ (o = "resumable" => attempts'[r] = 0)
        BY <1>0, <2>1, <2>3 DEF ReleaseAccepted, ReleaseWrite, RowsOK
      <3>2. Active(r) /\ ~terminal'[r] => attempts'[r] # MaxAttempts
        BY <2>3, <3>1, DeletionConstants DEF ReleaseAccepted, Active
      <3>3. phase[r] \notin {"none", "requested"}
        BY <2>3 DEF ReleaseAccepted, Active
      <3>4. \A q \in Requests : q # r => /\ attempts'[q] = attempts[q]
                                         /\ terminal'[q] = terminal[q]
                                         /\ lease'[q] = lease[q]
        BY <1>0, <2>3 DEF ReleaseWrite, RowsOK
      <3>5. QED
        BY <2>1, <3>2, <3>3, <3>4 DEF ReachInv, NeverStranded, Active
    <2>4. QED
      BY <1>8, <2>2, <2>3 DEF WorkerRelease
  <1>9. QED
    BY <1>2, <1>3, <1>4, <1>5, <1>6, <1>7, <1>8
       DEF Next, HandlerStep, WorkerStep, SharedStep, Agents

\* No request of any account is left out of the reach of both the claim and
\* the terminal sweep, for any attempt limit.
THEOREM Reachable == Spec => []NeverStranded
<1>1. Init => ReachInv
  BY DeletionConstants DEF Init, ReachInv, NeverStranded, Active
<1>2. TypeOK /\ ReachInv /\ [Next]_vars => ReachInv'
  BY ReachStep
<1>3. ReachInv => NeverStranded
  BY DEF ReachInv
<1>4. QED
  BY <1>1, <1>2, <1>3, TypeCorrect, PTL DEF Spec

-----------------------------------------------------------------------------
(* Refinement *)

LEMMA RefineStep ==
    TypeOK /\ ErasureInv /\ [Next]_vars => [Erasure!Next]_(Erasure!vars)
  <1> SUFFICES ASSUME TypeOK, ErasureInv, [Next]_vars PROVE [Erasure!Next]_(Erasure!vars)
    OBVIOUS
  <1> USE DEF Erasure!vars
  <1>0. /\ RowsOK /\ LocalsOK /\ Handlers \subseteq Agents /\ Workers \subseteq Agents
        /\ \A r \in Requests : phase[r] \in Phases
        /\ \A r \in Requests : phase[r] = "completed" => photos = {}
        /\ \A a \in Agents : KnowledgeInv(a)
    BY DEF TypeOK, RowsOK, Agents, ErasureInv
  <1>1. ASSUME UNCHANGED <<account, phase>> PROVE [Erasure!Next]_(Erasure!vars)
    BY <1>1 DEF account
  <1>2. CASE \/ ListTerminal \/ UNCHANGED vars
             \/ \E r \in Requests : LeaseExpires(r) \/ BackoffElapses(r)
             \/ \E h \in Handlers : \/ HandlerRead(h) \/ HandlerAuthorize(h)
                                    \/ HandlerRecheck(h) \/ Abandon(h)
                                    \/ \E r \in Requests : HandlerStart(h, r)
             \/ \E w \in Workers : \/ WorkerClaim(w) \/ WorkerNext(w) \/ WorkerRead(w)
                                   \/ WorkerFail(w) \/ WorkerRelease(w) \/ Crash(w)
             \/ \E a \in Agents : Recover(a) \/ List(a)
    BY <1>1, <1>2 DEF ListTerminal, vars, account, LeaseExpires, BackoffElapses, HandlerRead,
       HandlerAuthorize, HandlerRecheck, Abandon, HandlerStart, WorkerClaim, WorkerNext,
       WorkerRead, WorkerFail, WorkerRelease, Crash, Recover, List
  <1>3. CASE Upload
    BY <1>3 DEF Upload, Erasure!Next, Erasure!Upload, Photos, Erasure!Photos
  <1>4. CASE OwnerDelete
    BY <1>4 DEF OwnerDelete, Erasure!Next, Erasure!OwnerDelete
  <1>5. ASSUME NEW h \in Handlers, HandlerBegin(h) PROVE [Erasure!Next]_(Erasure!vars)
    <2> DEFINE r == job[h].target
    <2>1. r \in Requests /\ UNCHANGED <<authExists, photos>>
      BY <1>0, <1>5 DEF HandlerBegin, LocalsOK, account
    <2>2. CASE phase[r] = "none"
      <3>1. Erasure!Begin(r)
        BY <1>5, <2>1, <2>2 DEF HandlerBegin, Erasure!Begin, Erasure!Move
      <3>2. QED
        BY <2>1, <3>1 DEF Erasure!Next
    <2>3. CASE phase[r] # "none"
      BY <1>0, <1>5, <2>1, <2>3 DEF HandlerBegin, RowsOK
    <2>4. QED
      BY <2>2, <2>3
  <1>6. ASSUME NEW h \in Handlers, HandlerDeleteAuth(h) PROVE [Erasure!Next]_(Erasure!vars)
    <2>1. pc[h] = "deleteAuth" /\ h \in Agents /\ UNCHANGED <<photos, phase>>
      BY <1>0, <1>6 DEF HandlerDeleteAuth
    <2>2. authExists' = authExists \/ authExists' = FALSE
      BY <1>6, Zenon DEF HandlerDeleteAuth
    <2>3. job[h].target \in Requests /\ job[h].seen = "requested"
      BY <1>0, <2>1 DEF LocalsOK
    <2>4. phase[job[h].target] # "none"
      BY <1>0, <2>1, <2>3 DEF KnowledgeInv, PhaseRank
    <2>5. CASE authExists' = FALSE
      BY <2>1, <2>3, <2>4, <2>5 DEF Erasure!Next, Erasure!DeleteAuth
    <2>6. QED
      BY <2>1, <2>2, <2>5
  <1>7. ASSUME NEW a \in Agents, Advance(a) PROVE [Erasure!Next]_(Erasure!vars)
    <2> DEFINE r == job[a].target
               from == job[a].seen
    <2>1. /\ pc[a] = "advance" /\ r \in Requests /\ from \in {"requested", "auth_deleted", "storage_deleting"}
          /\ UNCHANGED <<authExists, photos>> /\ ~authExists
          /\ from = "storage_deleting" => photos = {}
      BY <1>0, <1>7 DEF Advance, LocalsOK, KnowledgeInv, NextPhase, account
    <2>2. CASE UNCHANGED phase
      BY <2>1, <2>2
    <2>3. CASE phase[r] = from /\ phase' = [phase EXCEPT ![r] = NextPhase[from]]
      <3>1. CASE from = "requested"
        <4>1. Erasure!RecordAuthDeleted(r)
          BY <2>1, <2>3, <3>1 DEF Erasure!RecordAuthDeleted, Erasure!Move, NextPhase
        <4>2. QED
          BY <2>1, <4>1 DEF Erasure!Next
      <3>2. CASE from = "auth_deleted"
        <4>1. Erasure!StartErasure(r)
          BY <2>1, <2>3, <3>2 DEF Erasure!StartErasure, Erasure!Move, NextPhase
        <4>2. QED
          BY <2>1, <4>1 DEF Erasure!Next
      <3>3. CASE from = "storage_deleting"
        <4>1. Erasure!Complete(r)
          BY <2>1, <2>3, <3>3 DEF Erasure!Complete, Erasure!Move, NextPhase
        <4>2. QED
          BY <2>1, <4>1 DEF Erasure!Next
      <3>4. QED
        BY <2>1, <3>1, <3>2, <3>3
    <2>4. QED
      BY <1>7, <2>2, <2>3 DEF Advance, CasPhase
  <1>8. ASSUME NEW a \in Agents, Remove(a) PROVE [Erasure!Next]_(Erasure!vars)
    <2> DEFINE r == job[a].target
    <2>1. /\ pc[a] = "remove" /\ r \in Requests /\ job[a].seen = "storage_deleting"
          /\ UNCHANGED <<authExists, phase>>
          /\ PhaseRank[phase[r]] >= PhaseRank["storage_deleting"]
      BY <1>0, <1>8 DEF Remove, LocalsOK, KnowledgeInv
    <2>2. PICK gone \in SUBSET photos : photos' = photos \ gone
      <3>1. PICK part : photos' = photos \ part
        BY <1>8 DEF Remove
      <3>2. photos' = photos \ (part \cap photos)
        BY <3>1
      <3>3. QED
        BY <3>2
    <2>3. phase[r] \in {"storage_deleting", "completed"}
      BY <1>0, <2>1 DEF Phases, PhaseRank
    <2>4. CASE phase[r] = "storage_deleting"
      BY <2>1, <2>2, <2>4 DEF Erasure!Next, Erasure!Erase
    <2>5. CASE phase[r] = "completed"
      <3>1. photos = {} /\ photos' = photos
        BY <1>0, <2>1, <2>2, <2>5
      <3>2. QED
        BY <2>1, <3>1
    <2>6. QED
      BY <2>3, <2>4, <2>5
  <1>9. QED
    BY <1>2, <1>3, <1>4, <1>5, <1>6, <1>7, <1>8
       DEF Next, HandlerStep, WorkerStep, SharedStep, Agents

\* The saga of handlers, workers, leases, crashes and lost responses does
\* nothing to the account that AccountErasure does not allow.
THEOREM Implements == Spec => ImplementsErasure
<1>1. Init => Erasure!Init
  BY DEF Init, Erasure!Init, Photos, Erasure!Photos
<1>2. Init => ErasureInv
  BY DEF Init, ErasureInv, KnowledgeInv, PhaseRank
<1>3. TypeOK /\ ErasureInv /\ [Next]_vars => ErasureInv'
  BY ErasureStep
<1>4. TypeOK /\ ErasureInv /\ [Next]_vars => [Erasure!Next]_(Erasure!vars)
  BY RefineStep
<1>5. QED
  BY <1>1, <1>2, <1>3, <1>4, TypeCorrect, PTL DEF Spec, ImplementsErasure, Erasure!Spec

-----------------------------------------------------------------------------
(* Action properties *)

ForwardStep == \A r \in Requests :
                  PhaseRank[phase'[r]] \in {PhaseRank[phase[r]], PhaseRank[phase[r]] + 1}

LEMMA OneForward ==
    ASSUME RowsOK, NEW r \in Requests, NEW p \in Phases,
           phase' = [phase EXCEPT ![r] = p],
           PhaseRank[p] \in {PhaseRank[phase[r]], PhaseRank[phase[r]] + 1}
    PROVE  ForwardStep
  BY DEF RowsOK, ForwardStep

\* Whatever stalls, races and recoveries happen, a request takes its phases
\* one by one and never goes back.
THEOREM StepsForward == Spec => PhaseStepsForward
<1>1. TypeOK /\ [Next]_vars => [ForwardStep]_vars
  <2> SUFFICES ASSUME TypeOK, [Next]_vars PROVE ForwardStep
    OBVIOUS
  <2>0. RowsOK /\ LocalsOK /\ Handlers \subseteq Agents /\ Workers \subseteq Agents
    BY DEF TypeOK, Agents
  <2>1. ASSUME UNCHANGED phase PROVE ForwardStep
    BY <2>1 DEF ForwardStep
  <2>2. ASSUME NEW h \in Handlers, HandlerBegin(h) PROVE ForwardStep
    <3> DEFINE r == job[h].target
               p == IF phase[r] = "none" THEN "requested" ELSE phase[r]
    <3>1. r \in Requests /\ p \in Phases /\ phase' = [phase EXCEPT ![r] = p]
          /\ PhaseRank[p] \in {PhaseRank[phase[r]], PhaseRank[phase[r]] + 1}
      BY <2>0, <2>2 DEF HandlerBegin, LocalsOK, RowsOK, Phases, PhaseRank
    <3> HIDE DEF p
    <3>2. QED
      BY <2>0, <3>1, OneForward
  <2>3. ASSUME NEW a \in Agents, Advance(a) PROVE ForwardStep
    <3> DEFINE r == job[a].target
               from == job[a].seen
               to == NextPhase[from]
    <3>1. r \in Requests /\ from \in DOMAIN NextPhase
      BY <2>0, <2>3 DEF Advance, LocalsOK
    <3>2. to \in Phases /\ PhaseRank[to] = PhaseRank[from] + 1
      BY <3>1 DEF NextPhase, Phases, PhaseRank
    <3>3. UNCHANGED phase \/ (phase[r] = from /\ phase' = [phase EXCEPT ![r] = to])
      BY <2>3 DEF Advance, CasPhase
    <3> HIDE DEF to
    <3>4. QED
      BY <2>0, <2>1, <3>1, <3>2, <3>3, OneForward
  <2>4. CASE \/ Upload \/ OwnerDelete \/ ListTerminal \/ UNCHANGED vars
             \/ \E r \in Requests : LeaseExpires(r) \/ BackoffElapses(r)
             \/ \E h \in Handlers : \/ HandlerRead(h) \/ HandlerAuthorize(h) \/ HandlerDeleteAuth(h)
                                    \/ HandlerRecheck(h) \/ Abandon(h)
                                    \/ \E r \in Requests : HandlerStart(h, r)
             \/ \E w \in Workers : \/ WorkerClaim(w) \/ WorkerNext(w) \/ WorkerRead(w)
                                   \/ WorkerFail(w) \/ WorkerRelease(w) \/ Crash(w)
             \/ \E a \in Agents : Recover(a) \/ List(a) \/ Remove(a)
    BY <2>1, <2>4 DEF Upload, OwnerDelete, ListTerminal, vars, LeaseExpires, BackoffElapses,
       HandlerRead, HandlerAuthorize, HandlerDeleteAuth, HandlerRecheck, Abandon, HandlerStart,
       WorkerClaim, WorkerNext, WorkerRead, WorkerFail, WorkerRelease, Crash, Recover, List, Remove
  <2>5. QED
    BY <2>2, <2>3, <2>4 DEF Next, HandlerStep, WorkerStep, SharedStep, Agents
<1>2. [ForwardStep]_vars <=> [\A r \in Requests : PhaseRank[phase'[r]] \in
                                 {PhaseRank[phase[r]], PhaseRank[phase[r]] + 1}]_vars
  BY DEF ForwardStep
<1>3. QED
  BY <1>1, <1>2, TypeCorrect, PTL DEF Spec, PhaseStepsForward

\* A worker that outlived its lease cannot reopen a terminal request.
THEOREM TerminalStays == Spec => TerminalIsFinal
<1>1. TypeOK /\ [Next]_vars => [\A r \in Requests : terminal[r] => terminal'[r]]_vars
  <2> SUFFICES ASSUME TypeOK, [Next]_vars, NEW q \in Requests, terminal[q] PROVE terminal'[q]
    OBVIOUS
  <2>0. RowsOK /\ LocalsOK
    BY DEF TypeOK
  <2>1. ASSUME UNCHANGED terminal PROVE terminal'[q]
    BY <2>1
  <2>2. CASE \/ Upload \/ OwnerDelete \/ UNCHANGED vars
             \/ \E r \in Requests : LeaseExpires(r) \/ BackoffElapses(r)
             \/ \E h \in Handlers : \/ HandlerRead(h) \/ HandlerAuthorize(h) \/ HandlerDeleteAuth(h)
                                    \/ HandlerRecheck(h) \/ Abandon(h) \/ HandlerBegin(h)
                                    \/ \E r \in Requests : HandlerStart(h, r)
             \/ \E w \in Workers : WorkerNext(w) \/ WorkerRead(w) \/ WorkerFail(w) \/ Crash(w)
             \/ \E a \in Agents : Advance(a) \/ Recover(a) \/ List(a) \/ Remove(a)
    BY <2>1, <2>2 DEF Upload, OwnerDelete, vars, LeaseExpires, BackoffElapses,
       HandlerRead, HandlerAuthorize, HandlerDeleteAuth, HandlerRecheck, Abandon, HandlerBegin,
       HandlerStart, WorkerNext, WorkerRead, WorkerFail, Crash, Advance, Recover, List, Remove, claim
  <2>3. CASE ListTerminal \/ \E w \in Workers : WorkerClaim(w)
    BY <2>3 DEF ListTerminal, WorkerClaim
  <2>4. ASSUME NEW w \in Workers, WorkerRelease(w) PROVE terminal'[q]
    <3>1. CASE UNCHANGED terminal
      BY <3>1
    <3>2. CASE /\ ReleaseAccepted(job[w].target, job[w].held, job[w].outcome)
               /\ ReleaseWrite(job[w].target, job[w].held, job[w].outcome)
      BY <2>0, <3>2 DEF ReleaseAccepted, ReleaseWrite, RowsOK
    <3>3. QED
      BY <2>4, <3>1, <3>2 DEF WorkerRelease
  <2>5. QED
    BY <2>2, <2>3, <2>4 DEF Next, HandlerStep, WorkerStep, SharedStep, Agents
<1>2. QED
  BY <1>1, TypeCorrect, PTL DEF Spec, TerminalIsFinal
=============================================================================
