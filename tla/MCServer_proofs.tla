--------------------------- MODULE MCServer_proofs ---------------------------
(* Theorems about the server.  The outbox with its dispatchers, receipt       *)
(* workers and operators, for any number of each: the types of the rows and,  *)
(* where an invocation is over before its event can be claimed again (Overlap *)
(* is FALSE), one task per event, tickets behind every "sent", no device that *)
(* is sent an event again, and the ledger of the receipts.  Then what the     *)
(* runs of ingest-events commit, the bodies that the functions read, the      *)
(* feed, and the types of all of them.                                        *)
EXTENDS MCServer, SequenceTheorems, FiniteSetTheorems, TLAPS

-----------------------------------------------------------------------------
(* The invariant *)

\* A row with a ticket has a receipt to wait for, a row without has none, and a
\* receipt that is open has a check left.
RowInv ==
    \A x \in Deliveries :
        /\ status[x] = "sent" <=> receipt[x] # "none"
        /\ receipt[x] = "none" => checks[x] = 0
        /\ receipt[x] \in {"pending", "retryable"} => checks[x] < MaxChecks

CheckType == checks \in [Deliveries -> 0..MaxChecks]

\* Some device has a ticket for e, in the rows s.
Ticketed(s, e) == \E t \in Tokens : s[<<e, t>>] = "sent"

\* What a task that stands at label l with the locals q knows of the rows s of
\* its event e: what it has still to send has no ticket, and what it believes
\* to be accepted has one, or gets it with the upsert.
Knows(s, e, l, q) ==
    /\ l = "read" => q.todo # {} /\ ~q.anyOk
    /\ l \in {"send", "upsert", "disable"} => \A t \in q.todo : s[<<e, t>>] # "sent"
    /\ l \in {"send", "upsert"} =>
          q.todo \cap q.chunk = {} /\ \A t \in q.chunk : s[<<e, t>>] # "sent"
    /\ l \in {"send", "disable", "finish"} /\ q.anyOk => Ticketed(s, e)
    /\ l = "upsert" /\ q.anyOk => Ticketed(s, e) \/ \E t \in q.chunk : q.got[t] = "ok"
    /\ l = "done" => Ticketed(s, e)

\* Nobody can claim e.
Taken(e) ==
    \/ estatus[e] \in {"sent", "cancelled"}
    \/ estatus[e] = "processing" /\ ~stale[e]
    \/ estatus[e] = "failed" /\ ~due[e]

OneEach == \A j, k \in Tasks : j[2] = k[2] /\ at[j] # "idle" /\ at[k] # "idle" => j = k

TaskInv ==
    /\ OneEach
    /\ \A k \in Tasks : at[k] # "idle" => Taken(k[2])
    /\ \A k \in Tasks : Knows(status, k[2], at[k], loc[k])
    /\ \A e \in Events : estatus[e] = "sent" => Ticketed(status, e)

OutboxInv == OutboxTypeOK /\ CheckType /\ RowInv /\ (Overlap \/ TaskInv)

-----------------------------------------------------------------------------
(* What a task does to itself *)

LEMMA TaskPair == \A k \in Tasks : k[1] \in Dispatchers /\ k[2] \in Events /\ k = <<k[1], k[2]>>
  BY DEF Tasks

Moves(k, l, q) == at' = [at EXCEPT ![k] = l] /\ loc' = [loc EXCEPT ![k] = q]

LEMMA Moved ==
    ASSUME OutboxTypeOK, NEW k \in Tasks, NEW l \in Labels, NEW q \in Locals, Moves(k, l, q)
    PROVE  /\ at' \in [Tasks -> Labels] /\ loc' \in [Tasks -> Locals]
           /\ at'[k] = l /\ loc'[k] = q
           /\ \A j \in Tasks \ {k} : at'[j] = at[j] /\ loc'[j] = loc[j]
  BY DEF OutboxTypeOK, Moves

LEMMA FailMoves ==
    ASSUME OutboxTypeOK, NEW k \in Tasks, NEW v \in {"failed", "cancelled"}, FailWith(k, v)
    PROVE  \E q \in Locals : Moves(k, "fail", q)
  <1> DEFINE r == loc[k]
             q == [r EXCEPT !.verdict = v]
  <1>1. r \in Locals
    BY DEF OutboxTypeOK
  <1>2. loc' = [loc EXCEPT ![k] = q] /\ at' = [at EXCEPT ![k] = "fail"]
    BY DEF FailWith, Goto, OutboxTypeOK
  <1> HIDE DEF r
  <1>3. q \in Locals
    BY <1>1 DEF Locals
  <1> HIDE DEF q
  <1> QED  BY <1>2, <1>3 DEF Moves

LEMMA StaysMoves ==
    ASSUME OutboxTypeOK, NEW k \in Tasks, NEW l \in Labels, Goto(k, l), UNCHANGED loc
    PROVE  Moves(k, l, loc[k]) /\ loc[k] \in Locals
  <1>1. loc \in [Tasks -> Locals]  BY DEF OutboxTypeOK
  <1>2. loc[k] \in Locals /\ loc = [loc EXCEPT ![k] = loc[k]]  BY <1>1
  <1>3. at' = [at EXCEPT ![k] = l]  BY Zenon DEF Goto
  <1> QED  BY <1>2, <1>3 DEF Moves

LEMMA NextMoves ==
    ASSUME OutboxTypeOK, NEW k \in Tasks, NEW left \in SUBSET Tokens, NextChunk(k, left)
    PROVE  \/ left = {} /\ Moves(k, "finish", loc[k]) /\ loc[k] \in Locals
           \/ \E c \in SUBSET left, q \in Locals :
                 /\ Moves(k, "send", q)
                 /\ q.todo = left \ c /\ q.chunk = c /\ q.anyOk = loc[k].anyOk
  <1>1. CASE left = {} /\ Goto(k, "finish") /\ UNCHANGED loc
    BY <1>1, StaysMoves DEF Labels
  <1>2. ASSUME NEW c \in Chunks(left), Goto(k, "send"),
               loc' = [loc EXCEPT ![k].todo = left \ c, ![k].chunk = c, ![k].tries = 0]
        PROVE  \E d \in SUBSET left, q \in Locals :
                 /\ Moves(k, "send", q)
                 /\ q.todo = left \ d /\ q.chunk = d /\ q.anyOk = loc[k].anyOk
    <2> DEFINE r == loc[k]
               u == left \ c
               q == [r EXCEPT !.todo = u, !.chunk = c, !.tries = 0]
    <2>1. r \in Locals /\ c \in SUBSET left /\ u \in SUBSET Tokens /\ c \in SUBSET Tokens
      BY DEF OutboxTypeOK, Chunks
    <2>2. 0 \in 0..HttpTries
      BY DispatchConstants
    <2>3. Moves(k, "send", q)
      BY <1>2 DEF Moves, Goto, OutboxTypeOK
    <2> HIDE DEF r, u
    <2>4. q \in Locals /\ q.todo = u /\ q.chunk = c /\ q.anyOk = r.anyOk
      BY <2>1, <2>2 DEF Locals
    <2> HIDE DEF q
    <2> QED  BY <2>1, <2>3, <2>4 DEF r, u
  <1> QED  BY <1>1, <1>2 DEF NextChunk

\* A task's step keeps the invariant if it leaves the other events alone and
\* knows afterwards what it should.
LEMMA TaskKeeps ==
    ASSUME OutboxTypeOK, TaskInv, NEW k \in Tasks, at[k] # "idle",
           NEW l \in Labels, NEW q \in Locals, Moves(k, l, q),
           \A x \in Deliveries : x[1] # k[2] => status'[x] = status[x],
           \A e \in Events \ {k[2]} : /\ estatus'[e] = estatus[e] /\ due'[e] = due[e]
                                      /\ stale'[e] = stale[e],
           l # "idle" => Taken(k[2])',
           Knows(status', k[2], l, q),
           estatus'[k[2]] = "sent" => Ticketed(status', k[2])
    PROVE  TaskInv'
  <1>1. /\ at'[k] = l /\ loc'[k] = q
        /\ \A j \in Tasks \ {k} : at'[j] = at[j] /\ loc'[j] = loc[j]
    BY Moved
  <1>2. OneEach'
    BY <1>1 DEF TaskInv, OneEach
  <1>3. \A e \in Events \ {k[2]} : \A t \in Tokens : status'[<<e, t>>] = status[<<e, t>>]
    BY DEF Deliveries
  <1>4. ASSUME NEW j \in Tasks, j[2] = k[2], j # k  PROVE at'[j] = "idle"
    BY <1>1, <1>4 DEF TaskInv, OneEach
  <1>5. ASSUME NEW j \in Tasks, at'[j] # "idle"  PROVE Taken(j[2])'
    <2>1. CASE j = k
      BY <1>1, <1>5, <2>1
    <2>2. CASE j # k
      <3>1. j[2] \in Events \ {k[2]}
        BY <1>4, <1>5, <2>2, TaskPair
      <3> QED  BY <1>1, <1>5, <2>2, <3>1 DEF TaskInv, Taken
    <2> QED  BY <2>1, <2>2
  <1>6. ASSUME NEW j \in Tasks  PROVE Knows(status', j[2], at'[j], loc'[j])
    <2>1. CASE j = k
      BY <1>1, <2>1
    <2>2. CASE j # k /\ j[2] = k[2]
      BY <1>4, <2>2 DEF Knows
    <2>3. CASE j[2] # k[2]
      <3>1. j[2] \in Events \ {k[2]} /\ at'[j] = at[j] /\ loc'[j] = loc[j]
        BY <1>1, <2>3, TaskPair
      <3>2. loc[j].todo \subseteq Tokens /\ loc[j].chunk \subseteq Tokens
        BY DEF OutboxTypeOK, Locals
      <3>3. Knows(status, j[2], at[j], loc[j])
        BY DEF TaskInv
      <3>4. \A t \in Tokens : status'[<<j[2], t>>] = status[<<j[2], t>>]
        BY <1>3, <3>1
      <3>5. Ticketed(status', j[2]) <=> Ticketed(status, j[2])
        BY <3>4 DEF Ticketed
      <3>6. Knows(status', j[2], at[j], loc[j])
        BY <3>2, <3>3, <3>4, <3>5 DEF Knows
      <3> QED  BY <3>1, <3>6
    <2> QED  BY <2>1, <2>2, <2>3
  <1>7. \A e \in Events : estatus'[e] = "sent" => Ticketed(status', e)
    BY <1>3 DEF TaskInv, Ticketed
  <1> QED  BY <1>2, <1>5, <1>6, <1>7 DEF TaskInv

-----------------------------------------------------------------------------
(* The surroundings *)

LEMMA NoneLocal == NoLocals \in Locals
  <1>1. 0 \in 0..HttpTries /\ 0 \in 0..MaxSends
    BY DispatchConstants
  <1> QED  BY <1>1 DEF NoLocals, Locals, TicketKinds

LEMMA RowsKept ==
    ASSUME OutboxInv, UNCHANGED rows
    PROVE  CheckType' /\ RowInv'
  BY DEF OutboxInv, CheckType, RowInv, rows

\* A step that neither moves a task nor touches a row.
LEMMA TasksStay ==
    ASSUME TaskInv, UNCHANGED <<at, loc, status>>,
           \A k \in Tasks : at[k] # "idle" => Taken(k[2])',
           \A e \in Events : estatus'[e] = "sent" => estatus[e] = "sent"
    PROVE  TaskInv'
  BY DEF TaskInv, OneEach

\* A task works on e, unless nothing is in flight for e.
LEMMA NoFlight ==
    ASSUME NEW e \in Events, InFlight(e) = {}
    PROVE  \A k \in Tasks : k[2] = e => at[k] = "idle"
  BY TaskPair DEF InFlight

LEMMA EnqueueKeeps ==
    ASSUME OutboxInv, NEW e \in Events, Enqueue(e)
    PROVE  OutboxInv'
  <1>1. OutboxTypeOK'
    BY DEF OutboxInv, OutboxTypeOK, Enqueue, EventStatuses, rows
  <1>2. CheckType' /\ RowInv'
    BY RowsKept DEF Enqueue
  <1>3. ASSUME TaskInv  PROVE TaskInv'
    <2>1. \A k \in Tasks : at[k] # "idle" => Taken(k[2])'
      BY <1>3, TaskPair DEF TaskInv, Taken, Enqueue, OutboxInv, OutboxTypeOK
    <2>2. \A f \in Events : estatus'[f] = "sent" => estatus[f] = "sent"
      BY DEF Enqueue, OutboxInv, OutboxTypeOK
    <2> QED  BY <1>3, <2>1, <2>2, TasksStay DEF Enqueue, rows
  <1> QED  BY <1>1, <1>2, <1>3 DEF OutboxInv

LEMMA TokenKeeps ==
    ASSUME OutboxInv, NEW t \in Tokens, TokenRegistered(t) \/ TokenDropped(t)
    PROVE  OutboxInv'
  <1>1. OutboxTypeOK'
    BY DEF OutboxInv, OutboxTypeOK, TokenRegistered, TokenDropped, rows, events
  <1>2. CheckType' /\ RowInv'
    BY RowsKept DEF TokenRegistered, TokenDropped
  <1>3. ASSUME TaskInv  PROVE TaskInv'
    BY <1>3, TasksStay DEF TaskInv, Taken, TokenRegistered, TokenDropped, events, rows
  <1> QED  BY <1>1, <1>2, <1>3 DEF OutboxInv

LEMMA TimeKeeps ==
    ASSUME OutboxInv, NEW e \in Events, BackoffElapses(e) \/ GoesStale(e)
    PROVE  OutboxInv'
  <1>1. OutboxTypeOK'
    BY DEF OutboxInv, OutboxTypeOK, BackoffElapses, GoesStale, rows
  <1>2. CheckType' /\ RowInv'
    BY RowsKept DEF BackoffElapses, GoesStale
  <1>3. ASSUME TaskInv, ~Overlap  PROVE TaskInv'
    <2>1. \A k \in Tasks : k[2] = e => at[k] = "idle"
      BY <1>3, NoFlight DEF BackoffElapses, GoesStale
    <2>2. \A k \in Tasks : at[k] # "idle" => Taken(k[2])'
      BY <1>3, <2>1, TaskPair
         DEF TaskInv, Taken, BackoffElapses, GoesStale, OutboxInv, OutboxTypeOK
    <2>3. estatus' = estatus /\ UNCHANGED <<at, loc, status>>
      BY DEF BackoffElapses, GoesStale, rows
    <2> QED  BY <1>3, <2>2, <2>3, TasksStay
  <1> QED  BY <1>1, <1>2, <1>3 DEF OutboxInv

-----------------------------------------------------------------------------
(* Claims *)

LEMMA TakeKeeps ==
    ASSUME OutboxInv, NEW d \in Dispatchers, NEW S \in SUBSET Events, NEW swept \in SUBSET Events,
           \A e \in S : Claimable(e), Take(d, S, swept)
    PROVE  OutboxInv'
  <1>t. OutboxTypeOK
    BY DEF OutboxInv
  <1>0. CheckType' /\ RowInv'
    BY RowsKept DEF Take
  <1> DEFINE new(k) == k[1] = d /\ k[2] \in S /\ active # {}
             q == [NoLocals EXCEPT !.todo = active]
  <1>1. q \in Locals /\ q.todo = active /\ q.anyOk = FALSE
    <2> DEFINE r == NoLocals
    <2>1. r \in Locals /\ r.anyOk = FALSE /\ active \in SUBSET Tokens
      BY <1>t, NoneLocal DEF NoLocals, OutboxTypeOK
    <2> HIDE DEF r
    <2>2. [r EXCEPT !.todo = active] \in Locals /\ [r EXCEPT !.todo = active].todo = active
          /\ [r EXCEPT !.todo = active].anyOk = FALSE
      BY <2>1 DEF Locals
    <2> QED  BY <2>2 DEF r
  <1> HIDE DEF q
  <1>2. \A k \in Tasks : at'[k] = IF new(k) THEN "read" ELSE at[k]
    BY DEF Take
  <1>3. \A k \in Tasks : loc'[k] = IF k[1] = d /\ k[2] \in S THEN q ELSE loc[k]
    BY DEF Take, q
  <1>4. /\ at' = [k \in Tasks |-> at'[k]] /\ loc' = [k \in Tasks |-> loc'[k]]
        /\ UNCHANGED <<active, due, rows, audit, accepted>>
    BY DEF Take
  <1>5. at' \in [Tasks -> Labels] /\ loc' \in [Tasks -> Locals]
    BY <1>t, <1>1, <1>2, <1>3, <1>4 DEF OutboxTypeOK, Labels
  <1>6. attempts' \in [Events -> 0..MaxAttempts]
    BY <1>t, DispatchConstants DEF OutboxTypeOK, Take, Claimable
  <1>7. estatus' \in [Events -> EventStatuses] /\ stale' \in [Events -> BOOLEAN]
    BY <1>t DEF OutboxTypeOK, Take, EventStatuses
  <1>8. OutboxTypeOK'
    BY <1>t, <1>4, <1>5, <1>6, <1>7 DEF OutboxTypeOK, rows
  <1>9. ASSUME TaskInv  PROVE TaskInv'
    <2>1. \A e \in S : ~Taken(e)
      BY <1>t DEF Claimable, Taken, OutboxTypeOK
    <2>2. \A k \in Tasks : k[2] \in S => at[k] = "idle"
      BY <1>9, <2>1 DEF TaskInv
    <2>3. OneEach'
      <3> SUFFICES ASSUME NEW j \in Tasks, NEW k \in Tasks,
                          j[2] = k[2], at'[j] # "idle", at'[k] # "idle"
                   PROVE  j = k
        BY DEF OneEach
      <3>1. CASE k[2] \in S
        BY <1>2, <2>2, <3>1, TaskPair
      <3>2. CASE k[2] \notin S
        BY <1>2, <1>9, <3>2 DEF TaskInv, OneEach
      <3> QED  BY <3>1, <3>2
    <2>4. ASSUME NEW k \in Tasks, at'[k] # "idle"  PROVE Taken(k[2])'
      <3>1. k[2] \in Events
        BY TaskPair
      <3>2. CASE k[2] \in S
        <4>1. active # {}
          BY <1>2, <2>2, <2>4, <3>2
        <4>2. estatus'[k[2]] = "processing" /\ stale'[k[2]] = FALSE
          BY <3>1, <3>2, <4>1 DEF Take
        <4> QED  BY <4>2 DEF Taken
      <3>3. CASE k[2] \notin S
        <4>1. Taken(k[2])
          BY <1>2, <1>9, <2>4, <3>3 DEF TaskInv
        <4>2. /\ estatus'[k[2]] = IF k[2] \in swept THEN "cancelled" ELSE estatus[k[2]]
              /\ stale'[k[2]] = (stale[k[2]] /\ k[2] \notin swept)
              /\ due'[k[2]] = due[k[2]]
          BY <3>1, <3>3 DEF Take
        <4> QED  BY <4>1, <4>2 DEF Taken
      <3> QED  BY <3>2, <3>3
    <2>5. ASSUME NEW k \in Tasks  PROVE Knows(status, k[2], at'[k], loc'[k])
      <3>1. CASE new(k)
        BY <1>1, <1>2, <1>3, <3>1 DEF Knows
      <3>2. CASE ~new(k) /\ k[1] = d /\ k[2] \in S
        BY <1>2, <2>2, <3>2 DEF Knows
      <3>3. CASE ~(k[1] = d /\ k[2] \in S)
        BY <1>2, <1>3, <1>9, <3>3 DEF TaskInv
      <3> QED  BY <3>1, <3>2, <3>3
    <2>6. \A e \in Events : estatus'[e] = "sent" => Ticketed(status, e)
      BY <1>9 DEF Take, TaskInv
    <2>7. status' = status
      BY <1>4 DEF rows
    <2> QED  BY <2>3, <2>4, <2>5, <2>6, <2>7 DEF TaskInv
  <1> QED  BY <1>0, <1>8, <1>9 DEF OutboxInv

LEMMA ClaimKeeps ==
    ASSUME OutboxInv, NEW d \in Dispatchers,
           Drain(d) \/ \E e \in Events : ClaimOne(d, e)
    PROVE  OutboxInv'
  <1>1. CASE Drain(d)
    <2>1. Exhausted \in SUBSET Events
      BY DEF Exhausted
    <2>2. PICK S \in SUBSET {e \in Events : Claimable(e)} : Take(d, S, Exhausted)
      BY <1>1 DEF Drain
    <2> QED  BY <2>1, <2>2, TakeKeeps
  <1>2. ASSUME NEW e \in Events, ClaimOne(d, e)  PROVE OutboxInv'
    <2>1. {e} \in SUBSET Events /\ {} \in SUBSET Events /\ \A f \in {e} : Claimable(f)
      BY <1>2 DEF ClaimOne
    <2> QED  BY <1>2, <2>1, TakeKeeps DEF ClaimOne
  <1> QED  BY <1>1, <1>2

-----------------------------------------------------------------------------
(* The steps of a task *)

\* A step of a task that writes neither rows nor events.
LEMMA StepKeeps ==
    ASSUME OutboxInv, NEW k \in Tasks, at[k] # "idle", NEW l \in Labels \ {"idle"}, NEW q \in Locals,
           Moves(k, l, q), UNCHANGED <<events, rows, audit>>,
           active' \in SUBSET Tokens, accepted' \in [Deliveries -> 0..MaxSends],
           TaskInv => Knows(status, k[2], l, q)
    PROVE  OutboxInv'
  <1>1. OutboxTypeOK /\ k[2] \in Events
    BY TaskPair DEF OutboxInv
  <1>2. at' \in [Tasks -> Labels] /\ loc' \in [Tasks -> Locals]
    BY <1>1, Moved
  <1>3. OutboxTypeOK'
    BY <1>1, <1>2 DEF OutboxTypeOK, events, rows
  <1>4. CheckType' /\ RowInv'
    BY RowsKept
  <1>5. ASSUME TaskInv  PROVE TaskInv'
    <2>1. estatus' = estatus /\ due' = due /\ stale' = stale /\ status' = status
      BY DEF events, rows
    <2>2. Taken(k[2])'
      BY <1>5, <2>1 DEF TaskInv, Taken
    <2>3. estatus'[k[2]] = "sent" => Ticketed(status', k[2])
      BY <1>1, <1>5, <2>1 DEF TaskInv
    <2> QED  BY <1>1, <1>5, <2>1, <2>2, <2>3, TaskKeeps
  <1> QED  BY <1>3, <1>4, <1>5 DEF OutboxInv

LEMMA FailKnows == \A s, e, q : Knows(s, e, "fail", q)
  BY DEF Knows

LEMMA ReadKeeps ==
    ASSUME OutboxInv, NEW k \in Tasks, Read(k)
    PROVE  OutboxInv'
  <1> DEFINE left == {t \in loc[k].todo : status[<<k[2], t>>] # "sent"}
  <1>1. /\ OutboxTypeOK /\ at[k] = "read" /\ UNCHANGED <<active, events, rows, audit, accepted>>
        /\ active' \in SUBSET Tokens /\ accepted' \in [Deliveries -> 0..MaxSends]
    BY DEF OutboxInv, Read, OutboxTypeOK
  <1>2. loc[k] \in Locals /\ loc[k].todo \in SUBSET Tokens /\ left \in SUBSET Tokens
    BY <1>1 DEF OutboxTypeOK, Locals
  <1>3. TaskInv => loc[k].todo # {} /\ ~loc[k].anyOk
    BY <1>1 DEF TaskInv, Knows
  <1>4. CASE left = {} /\ Goto(k, "done") /\ UNCHANGED loc
    <2>1. Moves(k, "done", loc[k])
      BY <1>1, <1>4, StaysMoves DEF Labels
    <2>2. TaskInv => Ticketed(status, k[2])
      BY <1>2, <1>3, <1>4 DEF Ticketed
    <2>3. TaskInv => Knows(status, k[2], "done", loc[k])
      BY <2>2 DEF Knows
    <2> QED  BY <1>1, <1>2, <2>1, <2>3, StepKeeps DEF Labels
  <1>5. CASE left # {} /\ NextChunk(k, left)
    <2>2. \A t \in left : status[<<k[2], t>>] # "sent"
      OBVIOUS
    <2> HIDE DEF left
    <2>1. PICK c \in SUBSET left, q \in Locals :
             Moves(k, "send", q) /\ q.todo = left \ c /\ q.chunk = c /\ q.anyOk = loc[k].anyOk
      BY <1>1, <1>2, <1>5, NextMoves
    <2>3. TaskInv => Knows(status, k[2], "send", q)
      BY <1>3, <2>1, <2>2 DEF Knows
    <2> QED  BY <1>1, <2>1, <2>3, StepKeeps DEF Labels
  <1>6. CASE FailWith(k, "failed")
    <2>0. OutboxTypeOK  BY <1>1
    <2>1. PICK q \in Locals : Moves(k, "fail", q)
      BY <2>0, <1>6, FailMoves, Zenon
    <2> QED  BY <1>1, <2>1, FailKnows, StepKeeps DEF Labels
  <1> QED  BY <1>4, <1>5, <1>6 DEF Read

LEMMA PostKeeps ==
    ASSUME OutboxInv, NEW k \in Tasks, Post(k)
    PROVE  OutboxInv'
  <1> DEFINE r == loc[k]
  <1>1. OutboxTypeOK /\ at[k] = "send" /\ r \in Locals /\ k[2] \in Events
    BY TaskPair DEF OutboxInv, Post, OutboxTypeOK
  <1>2. UNCHANGED <<active, events, rows, audit>> /\ active' \in SUBSET Tokens
    BY <1>1 DEF Post, OutboxTypeOK
  <1>3. PICK ok \in SUBSET r.chunk :
          /\ \A t \in ok : accepted[<<k[2], t>>] < MaxSends
          /\ accepted' = [x \in Deliveries |->
                            IF x[1] = k[2] /\ x[2] \in ok THEN accepted[x] + 1 ELSE accepted[x]]
          /\ \/ \E tickets \in [Tokens -> TicketKinds] :
                   /\ ok = {t \in loc[k].chunk : tickets[t] = "ok"}
                   /\ \A t \in Tokens \ loc[k].chunk : tickets[t] = "permanent"
                   /\ Goto(k, "upsert")
                   /\ loc' = [loc EXCEPT
                        ![k].got = tickets,
                        ![k].id = [t \in Tokens |-> IF t \in ok THEN accepted'[<<k[2], t>>] ELSE 0],
                        ![k].anyOk = @ \/ ok # {},
                        ![k].anyRetry = @ \/ \E t \in Tokens : tickets[t] = "transient"]
             \/ /\ loc[k].tries + 1 < HttpTries
                /\ loc' = [loc EXCEPT ![k].tries = @ + 1]
                /\ UNCHANGED at
             \/ loc[k].tries + 1 = HttpTries /\ FailWith(k, "failed")
             \/ FailWith(k, "cancelled")
    BY Zenon DEF Post
  <1>4. r.chunk \subseteq Tokens /\ r.todo \subseteq Tokens /\ r.anyOk \in BOOLEAN
        /\ r.anyRetry \in BOOLEAN /\ r.tries \in 0..HttpTries
    BY <1>1 DEF Locals
  <1>5. accepted' \in [Deliveries -> 0..MaxSends]
    <2>1. \A x \in Deliveries : x[1] \in Events /\ x[2] \in Tokens /\ x = <<x[1], x[2]>>
      BY DEF Deliveries
    <2>2. \A x \in Deliveries : x[1] = k[2] /\ x[2] \in ok => accepted[x] < MaxSends
      BY <1>3, <2>1
    <2>3. \A x \in Deliveries : accepted[x] \in 0..MaxSends
      BY <1>1 DEF OutboxTypeOK
    <2>4. \A x \in Deliveries : accepted'[x] = IF x[1] = k[2] /\ x[2] \in ok
                                              THEN accepted[x] + 1 ELSE accepted[x]
      BY <1>3
    <2>5. \A x \in Deliveries : accepted'[x] \in 0..MaxSends
      BY <2>2, <2>3, <2>4, DispatchConstants
    <2>6. accepted' = [x \in Deliveries |-> accepted'[x]]
      BY <1>3
    <2> QED  BY <2>5, <2>6
  <1>6. TaskInv => Knows(status, k[2], "send", r)
    BY <1>1 DEF TaskInv
  <1>7. ASSUME NEW tickets \in [Tokens -> TicketKinds],
               ok = {t \in r.chunk : tickets[t] = "ok"},
               Goto(k, "upsert"),
               loc' = [loc EXCEPT
                        ![k].got = tickets,
                        ![k].id = [t \in Tokens |-> IF t \in ok THEN accepted'[<<k[2], t>>] ELSE 0],
                        ![k].anyOk = @ \/ ok # {},
                        ![k].anyRetry = @ \/ \E t \in Tokens : tickets[t] = "transient"]
        PROVE  OutboxInv'
    <2> DEFINE i == [t \in Tokens |-> IF t \in ok THEN accepted'[<<k[2], t>>] ELSE 0]
               a == r.anyOk \/ ok # {}
               b == r.anyRetry \/ \E t \in Tokens : tickets[t] = "transient"
               q == [r EXCEPT !.got = tickets, !.id = i, !.anyOk = a, !.anyRetry = b]
    <2>1. i \in [Tokens -> 0..MaxSends]
      <3>1. \A t \in Tokens : <<k[2], t>> \in Deliveries
        BY <1>1 DEF Deliveries
      <3> QED  BY <1>5, <3>1, DispatchConstants
    <2>2. a \in BOOLEAN /\ b \in BOOLEAN
      BY <1>4
    <2>3. Moves(k, "upsert", q)
      BY <1>1, <1>7 DEF Moves, Goto, OutboxTypeOK
    <2> HIDE DEF r, i, a, b
    <2>4. /\ q \in Locals /\ q.todo = r.todo /\ q.chunk = r.chunk /\ q.got = tickets /\ q.anyOk = a
      BY <1>1, <2>1, <2>2 DEF Locals
    <2> HIDE DEF q
    <2>5. a => r.anyOk \/ \E t \in r.chunk : tickets[t] = "ok"
      BY <1>7 DEF a
    <2>6. TaskInv => Knows(status, k[2], "upsert", q)
      BY <1>6, <2>4, <2>5 DEF Knows
    <2> QED  BY <1>1, <1>2, <1>5, <2>3, <2>4, <2>6, StepKeeps DEF Labels
  <1>8. CASE /\ loc[k].tries + 1 < HttpTries
             /\ loc' = [loc EXCEPT ![k].tries = @ + 1]
             /\ UNCHANGED at
    <2> DEFINE n == r.tries + 1
               q == [r EXCEPT !.tries = n]
    <2>1. n \in 0..HttpTries
      BY <1>4, <1>8, DispatchConstants
    <2>2. Moves(k, "send", q)
      BY <1>1, <1>8 DEF Moves, OutboxTypeOK
    <2> HIDE DEF r, n
    <2>3. q \in Locals /\ q.todo = r.todo /\ q.chunk = r.chunk /\ q.anyOk = r.anyOk
      BY <1>1, <2>1 DEF Locals
    <2> HIDE DEF q
    <2>4. TaskInv => Knows(status, k[2], "send", q)
      BY <1>6, <2>3 DEF Knows
    <2> QED  BY <1>1, <1>2, <1>5, <2>2, <2>3, <2>4, StepKeeps DEF Labels
  <1>9. CASE FailWith(k, "failed") \/ FailWith(k, "cancelled")
    <2>0. OutboxTypeOK  BY <1>1
    <2>1. PICK q \in Locals : Moves(k, "fail", q)
      BY <2>0, <1>9, FailMoves, Zenon
    <2> QED  BY <1>1, <1>2, <1>5, <2>1, FailKnows, StepKeeps DEF Labels
  <1> QED  BY <1>3, <1>7, <1>8, <1>9, Zenon

\* What the upsert of a chunk makes of the rows.
LEMMA Written ==
    ASSUME OutboxInv, NEW k \in Tasks, WriteRows(k)
    PROVE  /\ status' \in [Deliveries -> {"none", "sent", "failed"}]
           /\ ticket' \in [Deliveries -> 0..MaxSends]
           /\ receipt' \in [Deliveries -> ReceiptStatuses]
           /\ CheckType' /\ checks' \in [Deliveries -> Nat] /\ RowInv'
           /\ \A x \in Deliveries : x[1] # k[2] \/ x[2] \notin loc[k].chunk => status'[x] = status[x]
           /\ \A t \in loc[k].chunk : loc[k].got[t] = "ok" => status'[<<k[2], t>>] = "sent"
  <1> DEFINE hit(x) == x[1] = k[2] /\ x[2] \in loc[k].chunk
             ok(x)  == loc[k].got[x[2]] = "ok"
  <1>1. /\ loc[k] \in Locals /\ k[2] \in Events /\ loc[k].chunk \subseteq Tokens
        /\ loc[k].id \in [Tokens -> 0..MaxSends]
    BY TaskPair DEF OutboxInv, OutboxTypeOK, Locals
  <1>2. /\ status' = [x \in Deliveries |->
                       IF hit(x) THEN IF ok(x) THEN "sent" ELSE "failed" ELSE status[x]]
        /\ ticket' = [x \in Deliveries |-> IF hit(x) THEN loc[k].id[x[2]] ELSE ticket[x]]
        /\ receipt' = [x \in Deliveries |->
                        IF hit(x) THEN IF ok(x) THEN "pending" ELSE "none" ELSE receipt[x]]
        /\ checks' = [x \in Deliveries |-> IF hit(x) THEN 0 ELSE checks[x]]
    BY DEF WriteRows
  <1> HIDE DEF ok
  <1>3. 0 \in 0..MaxChecks /\ 0 < MaxChecks /\ MaxChecks \in Nat
    BY ReceiptConstants
  <1>4. /\ status' \in [Deliveries -> {"none", "sent", "failed"}]
        /\ receipt' \in [Deliveries -> ReceiptStatuses]
        /\ checks' \in [Deliveries -> 0..MaxChecks]
    BY <1>2, <1>3 DEF OutboxInv, OutboxTypeOK, CheckType, ReceiptStatuses
  <1>5. ticket' \in [Deliveries -> 0..MaxSends]
    BY <1>1, <1>2 DEF OutboxInv, OutboxTypeOK
  <1>6. checks' \in [Deliveries -> Nat]
    BY <1>3, <1>4
  <1>7. RowInv'
    BY <1>2, <1>3 DEF OutboxInv, RowInv
  <1>8. \A x \in Deliveries : x[1] # k[2] \/ x[2] \notin loc[k].chunk => status'[x] = status[x]
    BY <1>2
  <1>9. ASSUME NEW t \in loc[k].chunk, loc[k].got[t] = "ok"  PROVE status'[<<k[2], t>>] = "sent"
    <2>1. <<k[2], t>> \in Deliveries
      BY <1>1 DEF Deliveries
    <2> QED  BY <1>2, <1>9, <2>1 DEF ok
  <1> QED  BY <1>4, <1>5, <1>6, <1>7, <1>8, <1>9 DEF CheckType

\* After a chunk, the next one or the update of the event.
LEMMA NextKeeps ==
    ASSUME OutboxInv, NEW k \in Tasks, NextChunk(k, loc[k].todo),
           \A l \in Labels \ {"idle"}, q \in Locals :
              (Moves(k, l, q) /\ (TaskInv => Knows(status', k[2], l, q))) => OutboxInv',
           TaskInv => /\ \A t \in loc[k].todo : status'[<<k[2], t>>] # "sent"
                      /\ loc[k].anyOk => Ticketed(status', k[2])
    PROVE  OutboxInv'
  <1>1. OutboxTypeOK /\ loc[k].todo \in SUBSET Tokens
    BY DEF OutboxInv, OutboxTypeOK, Locals
  <1>2. CASE Moves(k, "finish", loc[k]) /\ loc[k] \in Locals
    <2>1. TaskInv => Knows(status', k[2], "finish", loc[k])
      BY DEF Knows
    <2> QED  BY <1>2, <2>1 DEF Labels
  <1>3. ASSUME NEW c \in SUBSET loc[k].todo, NEW q \in Locals, Moves(k, "send", q),
               q.todo = loc[k].todo \ c, q.chunk = c, q.anyOk = loc[k].anyOk
        PROVE  OutboxInv'
    <2>1. TaskInv => Knows(status', k[2], "send", q)
      BY <1>3 DEF Knows
    <2> QED  BY <1>3, <2>1 DEF Labels
  <1> QED  BY <1>1, <1>2, <1>3, NextMoves

\* The rows of the chunk had no ticket, so none is lost.
LEMMA TicketsStay ==
    ASSUME OutboxInv, TaskInv, NEW k \in Tasks, at[k] = "upsert", WriteRows(k)
    PROVE  /\ Ticketed(status, k[2]) => Ticketed(status', k[2])
           /\ loc[k].anyOk => Ticketed(status', k[2])
           /\ \A t \in loc[k].todo : status'[<<k[2], t>>] # "sent"
  <1>1. /\ k[2] \in Events /\ loc[k] \in Locals
        /\ loc[k].todo \subseteq Tokens /\ loc[k].chunk \subseteq Tokens
    BY TaskPair DEF OutboxInv, OutboxTypeOK, Locals
  <1>2. Knows(status, k[2], "upsert", loc[k])
    BY DEF TaskInv
  <1>3. \A t \in Tokens : t \notin loc[k].chunk => status'[<<k[2], t>>] = status[<<k[2], t>>]
    BY <1>1, Written DEF Deliveries
  <1>4. \A t \in loc[k].chunk : loc[k].got[t] = "ok" => status'[<<k[2], t>>] = "sent"
    BY Written
  <1>5. Ticketed(status, k[2]) => Ticketed(status', k[2])
    BY <1>2, <1>3 DEF Knows, Ticketed
  <1>6. loc[k].anyOk => Ticketed(status', k[2])
    BY <1>1, <1>2, <1>4, <1>5 DEF Knows, Ticketed
  <1>7. \A t \in loc[k].todo : status'[<<k[2], t>>] # "sent"
    BY <1>1, <1>2, <1>3 DEF Knows
  <1> QED  BY <1>5, <1>6, <1>7

LEMMA WriteKeeps ==
    ASSUME OutboxInv, NEW k \in Tasks, at[k] = "upsert", WriteRows(k),
           UNCHANGED <<active, events, audit, accepted>>,
           NEW l \in Labels \ {"idle"}, NEW q \in Locals, Moves(k, l, q),
           TaskInv => Knows(status', k[2], l, q)
    PROVE  OutboxInv'
  <1>1. OutboxTypeOK /\ k[2] \in Events
    BY TaskPair DEF OutboxInv
  <1>2. at' \in [Tasks -> Labels] /\ loc' \in [Tasks -> Locals]
    BY <1>1, Moved
  <1>3. OutboxTypeOK'
    BY <1>1, <1>2, Written DEF OutboxTypeOK, events
  <1>4. CheckType' /\ RowInv'
    BY Written
  <1>5. ASSUME TaskInv  PROVE TaskInv'
    <2>1. estatus' = estatus /\ due' = due /\ stale' = stale
      BY DEF events
    <2>2. Taken(k[2])'
      BY <1>5, <2>1 DEF TaskInv, Taken
    <2>3. estatus'[k[2]] = "sent" => Ticketed(status', k[2])
      BY <1>1, <1>5, <2>1, TicketsStay DEF TaskInv
    <2>4. \A x \in Deliveries : x[1] # k[2] => status'[x] = status[x]
      BY Written
    <2> QED  BY <1>1, <1>5, <2>1, <2>2, <2>3, <2>4, TaskKeeps
  <1> QED  BY <1>3, <1>4, <1>5 DEF OutboxInv

LEMMA UpsertKeeps ==
    ASSUME OutboxInv, NEW k \in Tasks, Upsert(k)
    PROVE  OutboxInv'
  <1>1. /\ OutboxTypeOK /\ at[k] = "upsert" /\ UNCHANGED <<active, events, audit, accepted>>
        /\ active' \in SUBSET Tokens /\ accepted' \in [Deliveries -> 0..MaxSends]
        /\ loc[k] \in Locals
    BY DEF OutboxInv, Upsert, OutboxTypeOK
  <1>2. CASE WriteRows(k) /\ Goto(k, "disable") /\ UNCHANGED loc
    <2>1. Moves(k, "disable", loc[k])
      BY <1>1, <1>2, StaysMoves DEF Labels
    <2>2. TaskInv => Knows(status', k[2], "disable", loc[k])
      BY <1>1, <1>2, TicketsStay DEF Knows
    <2> QED  BY <1>1, <1>2, <2>1, <2>2, WriteKeeps DEF Labels
  <1>3. CASE WriteRows(k) /\ NextChunk(k, loc[k].todo)
    BY <1>1, <1>3, TicketsStay, WriteKeeps, NextKeeps
  <1>4. CASE WriteRows(k) /\ FailWith(k, "failed")
    <2>1. PICK q \in Locals : Moves(k, "fail", q)
      BY <1>1, <1>4, FailMoves
    <2> QED  BY <1>1, <1>4, <2>1, FailKnows, WriteKeeps DEF Labels
  <1>5. CASE UNCHANGED rows /\ FailWith(k, "failed")
    <2>1. PICK q \in Locals : Moves(k, "fail", q)
      BY <1>1, <1>5, FailMoves
    <2> QED  BY <1>1, <1>5, <2>1, FailKnows, StepKeeps DEF Labels
  <1> QED  BY <1>2, <1>3, <1>4, <1>5 DEF Upsert

LEMMA DisableKeeps ==
    ASSUME OutboxInv, NEW k \in Tasks, Disable(k)
    PROVE  OutboxInv'
  <1>1. /\ OutboxTypeOK /\ at[k] = "disable" /\ UNCHANGED <<events, rows, audit, accepted>>
        /\ accepted' \in [Deliveries -> 0..MaxSends] /\ active' \in SUBSET Tokens
    BY DEF OutboxInv, Disable, OutboxTypeOK
  <1>2. TaskInv => Knows(status, k[2], "disable", loc[k])
    BY <1>1 DEF TaskInv
  <1>3. status' = status
    BY <1>1 DEF rows
  <1>4. CASE NextChunk(k, loc[k].todo)
    <2>1. TaskInv => /\ \A t \in loc[k].todo : status'[<<k[2], t>>] # "sent"
                     /\ loc[k].anyOk => Ticketed(status', k[2])
      BY <1>2, <1>3 DEF Knows
    <2>2. ASSUME NEW l \in Labels \ {"idle"}, NEW q \in Locals, Moves(k, l, q),
                 TaskInv => Knows(status', k[2], l, q)
          PROVE  OutboxInv'
      BY <1>1, <1>3, <2>2, StepKeeps
    <2> QED  BY <1>4, <2>1, <2>2, NextKeeps
  <1>5. CASE FailWith(k, "failed")
    <2>1. PICK q \in Locals : Moves(k, "fail", q)
      BY <1>1, <1>5, FailMoves
    <2> QED  BY <1>1, <2>1, FailKnows, StepKeeps DEF Labels
  <1> QED  BY <1>4, <1>5 DEF Disable

\* An update of the event at the end of a task.
LEMMA EventKeeps ==
    ASSUME OutboxInv, NEW k \in Tasks, at[k] # "idle",
           NEW s \in {"sent", "failed", "cancelled"}, WriteEvent(k[2], s) \/ UNCHANGED events,
           UNCHANGED <<active, rows, audit, accepted>>,
           NEW l \in {"idle", "fail"}, NEW q \in Locals, Moves(k, l, q),
           s = "sent" /\ TaskInv => Ticketed(status, k[2])
    PROVE  OutboxInv'
  <1>1. OutboxTypeOK /\ k[2] \in Events /\ l \in Labels
    BY TaskPair DEF OutboxInv, Labels
  <1>2. at' \in [Tasks -> Labels] /\ loc' \in [Tasks -> Locals]
    BY <1>1, Moved
  <1>3. /\ estatus' \in [Events -> EventStatuses] /\ attempts' \in [Events -> 0..MaxAttempts]
        /\ due' \in [Events -> BOOLEAN] /\ stale' \in [Events -> BOOLEAN]
    BY <1>1 DEF OutboxTypeOK, WriteEvent, events, EventStatuses
  <1>4. OutboxTypeOK'
    BY <1>1, <1>2, <1>3 DEF OutboxTypeOK, rows
  <1>5. CheckType' /\ RowInv'
    BY RowsKept
  <1>6. ASSUME TaskInv  PROVE TaskInv'
    <2>1. status' = status
      BY DEF rows
    <2>2. \A e \in Events \ {k[2]} : /\ estatus'[e] = estatus[e] /\ due'[e] = due[e]
                                     /\ stale'[e] = stale[e]
      BY <1>1 DEF OutboxTypeOK, WriteEvent, events
    <2>3. CASE WriteEvent(k[2], s)
      <3>1. /\ estatus'[k[2]] = s /\ due'[k[2]] = (s # "failed")
        BY <1>1, <2>3 DEF WriteEvent, OutboxTypeOK
      <3>2. Taken(k[2])'
        BY <3>1 DEF Taken
      <3>3. Knows(status', k[2], l, q)
        BY DEF Knows
      <3>4. estatus'[k[2]] = "sent" => Ticketed(status', k[2])
        BY <1>6, <2>1, <3>1
      <3> QED  BY <1>1, <1>6, <2>1, <2>2, <3>2, <3>3, <3>4, TaskKeeps
    <2>4. CASE UNCHANGED events
      <3>1. Taken(k[2])'
        BY <1>6, <2>4 DEF TaskInv, Taken, events
      <3>2. Knows(status', k[2], l, q)
        BY DEF Knows
      <3>3. estatus'[k[2]] = "sent" => Ticketed(status', k[2])
        BY <1>1, <1>6, <2>1, <2>4 DEF TaskInv, events
      <3> QED  BY <1>1, <1>6, <2>1, <2>2, <3>1, <3>2, <3>3, TaskKeeps
    <2> QED  BY <2>3, <2>4
  <1> QED  BY <1>4, <1>5, <1>6 DEF OutboxInv

LEMMA SettleKeeps ==
    ASSUME OutboxInv, NEW k \in Tasks, at[k] # "idle",
           NEW s \in {"sent", "failed", "cancelled"}, Settle(k, s),
           s = "sent" /\ TaskInv => Ticketed(status, k[2])
    PROVE  OutboxInv'
  <1>1. OutboxTypeOK /\ UNCHANGED <<active, rows, audit, accepted>>
    BY DEF OutboxInv, Settle
  <1>2. CASE WriteEvent(k[2], s) /\ Goto(k, "idle") /\ loc' = [loc EXCEPT ![k] = NoLocals]
    <2>1. Moves(k, "idle", NoLocals)
      BY <1>2 DEF Moves, Goto
    <2> QED  BY <1>1, <1>2, <2>1, NoneLocal, EventKeeps
  <1>3. CASE (WriteEvent(k[2], s) \/ UNCHANGED events) /\ FailWith(k, "failed")
    <2>1. PICK q \in Locals : Moves(k, "fail", q)
      BY <1>1, <1>3, FailMoves
    <2> QED  BY <1>1, <1>3, <2>1, EventKeeps
  <1> QED  BY <1>2, <1>3 DEF Settle

LEMMA EndKeeps ==
    ASSUME OutboxInv, NEW k \in Tasks, Finish(k) \/ Done(k) \/ Fail(k)
    PROVE  OutboxInv'
  <1>1. OutboxTypeOK /\ loc[k] \in Locals
    BY DEF OutboxInv, OutboxTypeOK
  <1>2. TaskInv => Knows(status, k[2], at[k], loc[k])
    BY DEF TaskInv
  <1>3. CASE Finish(k)
    <2>1. NextStatus(k) \in {"sent", "failed", "cancelled"}
      BY DEF NextStatus
    <2>2. at[k] = "finish" /\ Settle(k, NextStatus(k))
      BY <1>3 DEF Finish
    <2>3. NextStatus(k) = "sent" => loc[k].anyOk
      BY DEF NextStatus
    <2>4. NextStatus(k) = "sent" /\ TaskInv => Ticketed(status, k[2])
      BY <1>2, <2>2, <2>3 DEF Knows
    <2> QED  BY <2>1, <2>2, <2>4, SettleKeeps
  <1>4. CASE Done(k)
    <2>1. at[k] = "done" /\ Settle(k, "sent")
      BY <1>4 DEF Done
    <2>2. TaskInv => Ticketed(status, k[2])
      BY <1>2, <2>1 DEF Knows
    <2> QED  BY <2>1, <2>2, SettleKeeps
  <1>5. CASE Fail(k)
    <2>1. loc[k].verdict \in {"sent", "failed", "cancelled"} /\ loc[k].verdict # "sent"
      BY <1>1 DEF Locals
    <2>2. Moves(k, "idle", NoLocals)
      BY <1>5 DEF Fail, Moves, Goto
    <2> QED  BY <1>5, <2>1, <2>2, NoneLocal, EventKeeps DEF Fail
  <1> QED  BY <1>3, <1>4, <1>5

LEMMA CrashKeeps ==
    ASSUME OutboxInv, NEW d \in Dispatchers, Crash(d)
    PROVE  OutboxInv'
  <1>1. OutboxTypeOK /\ UNCHANGED <<active, events, rows, audit, accepted>>
    BY DEF OutboxInv, Crash
  <1>2. at' \in [Tasks -> Labels] /\ loc' \in [Tasks -> Locals]
    BY <1>1, NoneLocal DEF Crash, OutboxTypeOK, Labels
  <1>3. OutboxTypeOK'
    BY <1>1, <1>2 DEF OutboxTypeOK, events, rows
  <1>4. CheckType' /\ RowInv'
    BY <1>1, RowsKept
  <1>5. ASSUME TaskInv  PROVE TaskInv'
    <2>1. \A k \in Tasks : at'[k] # "idle" => at'[k] = at[k] /\ loc'[k] = loc[k]
      BY DEF Crash
    <2>2. UNCHANGED <<estatus, due, stale, status>>
      BY <1>1 DEF events, rows
    <2>3. OneEach'
      BY <1>5, <2>1 DEF TaskInv, OneEach
    <2>4. \A k \in Tasks : at'[k] # "idle" => Taken(k[2])'
      BY <1>5, <2>1, <2>2 DEF TaskInv, Taken
    <2>5. ASSUME NEW k \in Tasks  PROVE Knows(status, k[2], at'[k], loc'[k])
      <3>1. CASE at'[k] = "idle"
        BY <3>1 DEF Knows
      <3>2. CASE at'[k] # "idle"
        BY <1>5, <2>1, <3>2 DEF TaskInv
      <3> QED  BY <3>1, <3>2
    <2>6. \A e \in Events : estatus'[e] = "sent" => Ticketed(status, e)
      BY <1>5, <2>2 DEF TaskInv
    <2> QED  BY <2>2, <2>3, <2>4, <2>5, <2>6 DEF TaskInv
  <1> QED  BY <1>3, <1>4, <1>5 DEF OutboxInv

\* The rows X of event e have no open receipt, and lose what they have.
Reset(e, X) ==
    /\ \A x \in X : /\ x[1] = e
                    /\ receipt[x] \in {"none", "invalid_token", "permanent_failure"}
                    /\ receipt[x] = "none" => checks[x] = 0
    /\ status' = [x \in Deliveries |-> IF x \in X THEN "failed" ELSE status[x]]
    /\ ticket' = [x \in Deliveries |-> IF x \in X THEN 0 ELSE ticket[x]]
    /\ receipt' = [x \in Deliveries |-> IF x \in X THEN "none" ELSE receipt[x]]
    /\ checks' = [x \in Deliveries |-> IF x \in X THEN 0 ELSE checks[x]]

\* So do those that a replay resets.
LEMMA ReplayRows ==
    ASSUME OutboxInv, NEW e \in Events, NEW q \in ReplayIds, Replay(q, e)
    PROVE  \E X \in SUBSET Deliveries : Reset(e, X)
  <1> DEFINE reset(x) == /\ x[1] = e
                         /\ \/ status[x] = "failed"
                            \/ receipt[x] \in {"invalid_token", "permanent_failure"}
             X == {x \in Deliveries : reset(x)}
  <1>1. /\ status' = [x \in Deliveries |-> IF reset(x) THEN "failed" ELSE status[x]]
        /\ ticket' = [x \in Deliveries |-> IF reset(x) THEN 0 ELSE ticket[x]]
        /\ receipt' = [x \in Deliveries |-> IF reset(x) THEN "none" ELSE receipt[x]]
        /\ checks' = [x \in Deliveries |-> IF reset(x) THEN 0 ELSE checks[x]]
    BY DEF Replay
  <1>2. \A x \in X : /\ x[1] = e
                     /\ receipt[x] \in {"none", "invalid_token", "permanent_failure"}
                     /\ receipt[x] = "none" => checks[x] = 0
    BY DEF OutboxInv, RowInv
  <1>3. /\ status' = [x \in Deliveries |-> IF x \in X THEN "failed" ELSE status[x]]
        /\ ticket' = [x \in Deliveries |-> IF x \in X THEN 0 ELSE ticket[x]]
        /\ receipt' = [x \in Deliveries |-> IF x \in X THEN "none" ELSE receipt[x]]
        /\ checks' = [x \in Deliveries |-> IF x \in X THEN 0 ELSE checks[x]]
    BY <1>1
  <1>4. X \in SUBSET Deliveries
    OBVIOUS
  <1> HIDE DEF X
  <1>5. Reset(e, X)
    BY <1>2, <1>3 DEF Reset
  <1> QED  BY <1>4, <1>5

LEMMA ReplayKeeps ==
    ASSUME OutboxInv, NEW e \in Events, NEW q \in ReplayIds, Replay(q, e)
    PROVE  OutboxInv'
  <1>1. OutboxTypeOK /\ UNCHANGED <<active, at, loc, accepted>>
    BY DEF OutboxInv, Replay
  <1>2. /\ estatus' = [estatus EXCEPT ![e] = "failed"] /\ attempts' = [attempts EXCEPT ![e] = 0]
        /\ due' = [due EXCEPT ![e] = TRUE] /\ stale' = [stale EXCEPT ![e] = FALSE]
        /\ audit' = audit \cup {q}
    BY DEF Replay
  <1>r. PICK X \in SUBSET Deliveries : Reset(e, X)
    BY ReplayRows
  <1>x. \A x \in X : x[1] = e
    BY <1>r DEF Reset
  <1>3. /\ status' = [x \in Deliveries |-> IF x \in X THEN "failed" ELSE status[x]]
        /\ ticket' = [x \in Deliveries |-> IF x \in X THEN 0 ELSE ticket[x]]
        /\ receipt' = [x \in Deliveries |-> IF x \in X THEN "none" ELSE receipt[x]]
        /\ checks' = [x \in Deliveries |-> IF x \in X THEN 0 ELSE checks[x]]
    BY <1>r DEF Reset
  <1>4. 0 \in 0..MaxAttempts /\ 0 \in 0..MaxSends /\ 0 \in 0..MaxChecks
    BY DispatchConstants, ReceiptConstants
  <1>5. /\ status' \in [Deliveries -> {"none", "sent", "failed"}]
        /\ ticket' \in [Deliveries -> 0..MaxSends]
        /\ receipt' \in [Deliveries -> ReceiptStatuses] /\ checks' \in [Deliveries -> Nat]
        /\ CheckType'
    BY <1>1, <1>3, <1>4 DEF OutboxInv, OutboxTypeOK, ReceiptStatuses, CheckType
  <1>6. /\ estatus' \in [Events -> EventStatuses] /\ attempts' \in [Events -> 0..MaxAttempts]
        /\ due' \in [Events -> BOOLEAN] /\ stale' \in [Events -> BOOLEAN] /\ audit' \subseteq ReplayIds
    BY <1>1, <1>2, <1>4 DEF OutboxTypeOK, EventStatuses
  <1>7. OutboxTypeOK'
    BY <1>1, <1>5, <1>6 DEF OutboxTypeOK
  <1>8. RowInv'
    BY <1>3, ReceiptConstants DEF OutboxInv, RowInv
  <1>9. ASSUME TaskInv, ~Overlap  PROVE TaskInv'
    <2>1. \A k \in Tasks : at[k] # "idle" => k[2] \in Events \ {e}
      BY <1>9, NoFlight, TaskPair DEF Replay
    <2>2. OneEach'
      BY <1>1, <1>9 DEF TaskInv, OneEach
    <2>3. \A k \in Tasks : at'[k] # "idle" => Taken(k[2])'
      BY <1>1, <1>2, <1>9, <2>1 DEF TaskInv, Taken, OutboxTypeOK
    <2>4. \A f \in Events \ {e}, t \in Tokens : status'[<<f, t>>] = status[<<f, t>>]
      BY <1>3, <1>x DEF Deliveries
    <2>5. ASSUME NEW k \in Tasks  PROVE Knows(status', k[2], at'[k], loc'[k])
      <3>1. CASE at[k] = "idle"
        BY <1>1, <3>1 DEF Knows
      <3>2. CASE at[k] # "idle"
        <4>1. loc[k].todo \subseteq Tokens /\ loc[k].chunk \subseteq Tokens
          BY <1>1 DEF OutboxTypeOK, Locals
        <4>2. Knows(status, k[2], at[k], loc[k])
          BY <1>9 DEF TaskInv
        <4> QED  BY <1>1, <2>1, <2>4, <3>2, <4>1, <4>2 DEF Knows, Ticketed
      <3> QED  BY <3>1, <3>2
    <2>6. ASSUME NEW f \in Events, estatus'[f] = "sent"  PROVE Ticketed(status', f)
      <3>1. f # e /\ estatus[f] = "sent"
        BY <1>1, <1>2, <2>6 DEF OutboxTypeOK
      <3> QED  BY <1>9, <2>4, <3>1 DEF TaskInv, Ticketed
    <2> QED  BY <2>2, <2>3, <2>5, <2>6 DEF TaskInv
  <1> QED  BY <1>5, <1>7, <1>8, <1>9 DEF OutboxInv

LEMMA OutboxKept ==
    ASSUME OutboxInv, OutboxNext
    PROVE  OutboxInv'
  <1>1. ASSUME NEW k \in Tasks, TaskStep(k)  PROVE OutboxInv'
    BY <1>1, ReadKeeps, PostKeeps, UpsertKeeps, DisableKeeps, EndKeeps DEF TaskStep
  <1> QED
    BY <1>1, EnqueueKeeps, TimeKeeps, ReplayKeeps, ClaimKeeps, TokenKeeps, CrashKeeps DEF OutboxNext

LEMMA OutboxBegins == OutboxInit => OutboxInv
  <1> SUFFICES ASSUME OutboxInit PROVE OutboxInv
    OBVIOUS
  <1>1. /\ 0 \in 0..MaxAttempts /\ 0 \in 0..MaxSends /\ 0 \in 0..MaxChecks
    BY DispatchConstants, ReceiptConstants
  <1>2. OutboxTypeOK
    <2>1. loc \in [Tasks -> Locals] /\ at \in [Tasks -> Labels]
      BY NoneLocal DEF OutboxInit, Labels
    <2>2. /\ active \in SUBSET Tokens /\ audit \in SUBSET ReplayIds
          /\ estatus \in [Events -> EventStatuses] /\ attempts \in [Events -> 0..MaxAttempts]
          /\ due \in [Events -> BOOLEAN] /\ stale \in [Events -> BOOLEAN]
      BY <1>1 DEF OutboxInit, EventStatuses
    <2>3. /\ status \in [Deliveries -> {"none", "sent", "failed"}]
          /\ receipt \in [Deliveries -> ReceiptStatuses]
      BY DEF OutboxInit, ReceiptStatuses
    <2>4. /\ ticket \in [Deliveries -> 0..MaxSends] /\ accepted \in [Deliveries -> 0..MaxSends]
          /\ checks \in [Deliveries -> Nat]
      BY <1>1 DEF OutboxInit
    <2> QED  BY <2>1, <2>2, <2>3, <2>4 DEF OutboxTypeOK
  <1>3. CheckType /\ RowInv
    BY <1>1 DEF OutboxInit, CheckType, RowInv
  <1>4. TaskInv
    BY DEF OutboxInit, TaskInv, OneEach, Knows
  <1> QED  BY <1>2, <1>3, <1>4 DEF OutboxInv

-----------------------------------------------------------------------------
(* The receipt workers *)

PushInv == OutboxInv /\ ReceiptTypeOK

\* A step of a receipt worker leaves the outbox's own part of the rows alone.
LEMMA WorkerKeeps ==
    ASSUME OutboxInv, UNCHANGED <<events, status, ticket, audit, at, loc, accepted>>,
           active' \in SUBSET Tokens, receipt' \in [Deliveries -> ReceiptStatuses],
           CheckType', RowInv'
    PROVE  OutboxInv'
  <1>1. checks' \in [Deliveries -> Nat]
    BY ReceiptConstants DEF CheckType
  <1>2. OutboxTypeOK'
    BY <1>1 DEF OutboxInv, OutboxTypeOK, events
  <1>3. TaskInv => TaskInv'
    BY DEF TaskInv, OneEach, Taken, events
  <1> QED  BY <1>2, <1>3 DEF OutboxInv

LEMMA DueKeeps ==
    ASSUME PushInv, NEW x \in Deliveries, ReceiptDue(x)
    PROVE  PushInv'
  <1>1. UNCHANGED outbox /\ UNCHANGED <<rlease, rat, jobs, verdict>>
    BY DEF ReceiptDue
  <1>2. OutboxInv'
    BY <1>1, WorkerKeeps DEF PushInv, OutboxInv, OutboxTypeOK, CheckType, RowInv, outbox, events
  <1>3. ReceiptTypeOK'
    BY <1>1 DEF PushInv, ReceiptTypeOK, ReceiptDue, outbox
  <1> QED  BY <1>2, <1>3 DEF PushInv

\* There is nothing to repair.
LEMMA NoneSpent ==
    ASSUME OutboxInv
    PROVE  {x \in Deliveries : Unchecked(x) /\ checks[x] >= MaxChecks} = {}
  BY ReceiptConstants DEF OutboxInv, RowInv, CheckType, Unchecked

LEMMA CheckClaimKeeps ==
    ASSUME PushInv, NEW w \in Checkers, CheckClaim(w)
    PROVE  PushInv' /\ UNCHANGED <<receipt, checks>>
  <1> DEFINE spent == {x \in Deliveries : Unchecked(x) /\ checks[x] >= MaxChecks}
             ready == {x \in Deliveries : Unchecked(x) /\ checks[x] < MaxChecks /\ rdue[x]}
  <1>1. spent = {}
    BY NoneSpent DEF PushInv
  <1>2. PICK S \in SUBSET ready :
          /\ receipt' = [x \in Deliveries |->
                           IF x \in spent THEN "permanent_failure" ELSE receipt[x]]
          /\ rdue' = [x \in Deliveries |-> rdue[x] /\ x \notin S \cup spent]
          /\ rlease' = [x \in Deliveries |-> IF x \in S THEN w
                                             ELSE IF x \in spent THEN "none" ELSE rlease[x]]
          /\ jobs' = [jobs EXCEPT ![w] =
                        {[of |-> x, count |-> checks[x], ticket |-> ticket[x]] : x \in S}]
          /\ rat' = [rat EXCEPT ![w] = IF S = {} THEN "idle" ELSE "fetch"]
    BY DEF CheckClaim
  <1> HIDE DEF spent
  <1>3. UNCHANGED <<active, events, status, ticket, checks, audit, at, loc, accepted, verdict>>
    BY DEF CheckClaim
  <1>4. receipt' = receipt
    BY <1>1, <1>2 DEF PushInv, OutboxInv, OutboxTypeOK
  <1>5. OutboxInv'
    BY <1>3, <1>4, WorkerKeeps DEF PushInv, OutboxInv, OutboxTypeOK, CheckType, RowInv
  <1>6. S \subseteq Deliveries
    OBVIOUS
  <1>7. rdue' \in [Deliveries -> BOOLEAN] /\ rlease' \in [Deliveries -> Checkers \cup {"none"}]
        /\ rat' \in [Checkers -> {"idle", "fetch", "persist"}]
    BY <1>2 DEF PushInv, ReceiptTypeOK
  <1>8. jobs' \in [Checkers -> SUBSET Jobs]
    <2>1. \A x \in Deliveries : checks[x] \in 0..MaxChecks /\ ticket[x] \in 0..MaxSends
      BY DEF PushInv, OutboxInv, OutboxTypeOK, CheckType
    <2>2. \A x \in S : [of |-> x, count |-> checks[x], ticket |-> ticket[x]] \in Jobs
      BY <1>6, <2>1 DEF Jobs
    <2> QED  BY <1>2, <2>2 DEF PushInv, ReceiptTypeOK
  <1>9. ReceiptTypeOK'
    BY <1>3, <1>7, <1>8 DEF PushInv, ReceiptTypeOK
  <1> QED  BY <1>3, <1>4, <1>5, <1>9 DEF PushInv

LEMMA IdleKeeps ==
    ASSUME PushInv, NEW w \in Checkers, Fetch(w) \/ CheckCrash(w)
    PROVE  PushInv' /\ UNCHANGED <<receipt, checks>>
  <1>1. UNCHANGED outbox /\ UNCHANGED <<rdue, rlease>>
    BY DEF Fetch, CheckCrash
  <1>2. OutboxInv' /\ UNCHANGED <<receipt, checks>>
    BY <1>1, WorkerKeeps DEF PushInv, OutboxInv, OutboxTypeOK, CheckType, RowInv, outbox, events
  <1>3. jobs' \in [Checkers -> SUBSET Jobs] /\ rat' \in [Checkers -> {"idle", "fetch", "persist"}]
    BY DEF PushInv, ReceiptTypeOK, Fetch, CheckCrash
  <1>4. verdict' \in [Checkers -> [Deliveries -> Verdicts]]
    <2>1. NoVerdict \in [Deliveries -> Verdicts]
      BY DEF NoVerdict, Verdicts
    <2>2. CASE CheckCrash(w)
      BY <2>1, <2>2 DEF PushInv, ReceiptTypeOK, CheckCrash
    <2>3. CASE Fetch(w)
      <3>1. PICK v \in [{j.of : j \in jobs[w]} -> Verdicts] :
              verdict' = [verdict EXCEPT ![w] =
                            [x \in Deliveries |-> IF x \in DOMAIN v THEN v[x] ELSE "retryable"]]
        BY <2>3 DEF Fetch
      <3> DEFINE n == [x \in Deliveries |-> IF x \in DOMAIN v THEN v[x] ELSE "retryable"]
      <3>2. n \in [Deliveries -> Verdicts]
        BY DEF Verdicts
      <3> HIDE DEF n
      <3>3. verdict' = [verdict EXCEPT ![w] = n]
        BY <3>1 DEF n
      <3> QED  BY <3>2, <3>3 DEF PushInv, ReceiptTypeOK
    <2> QED  BY <2>2, <2>3
  <1>5. ReceiptTypeOK'
    BY <1>1, <1>2, <1>3, <1>4 DEF PushInv, ReceiptTypeOK
  <1> QED  BY <1>2, <1>5 DEF PushInv

\* The receipt of x becomes v.
Answered(x, v) ==
    /\ receipt' = [receipt EXCEPT ![x] = v]
    /\ v = "retryable" => checks[x] + 1 < MaxChecks

\* The compare-and-set turns an open receipt into a verdict, and leaves it open
\* only while there is a check left.
LEMMA Recording ==
    ASSUME PushInv, NEW w \in Checkers, NEW j \in jobs[w], LeaseMatches(j, w), Record(j, w)
    PROVE  LET x == j.of IN
           /\ x \in Deliveries /\ receipt[x] \in {"pending", "retryable"} /\ status[x] = "sent"
           /\ checks[x] < MaxChecks /\ checks[x] \in Nat /\ rlease[x] = w
           /\ checks' = [checks EXCEPT ![x] = @ + 1]
           /\ active' \in SUBSET Tokens /\ rdue' = [rdue EXCEPT ![x] = FALSE]
           /\ rlease' = [rlease EXCEPT ![x] = "none"]
           /\ \E v \in Verdicts : Answered(x, v)
  <1> DEFINE x    == j.of
             last == verdict[w][x] = "retryable" /\ j.count + 1 >= MaxChecks
             v    == IF last THEN "permanent_failure" ELSE verdict[w][x]
  <1>1. j \in Jobs
    BY DEF PushInv, ReceiptTypeOK
  <1>2. x \in Deliveries
    BY <1>1 DEF Jobs
  <1>3. /\ checks[x] = j.count /\ receipt[x] \in {"pending", "retryable"} /\ status[x] = "sent"
        /\ rlease[x] = w
    BY DEF LeaseMatches, Unchecked
  <1>4. checks[x] \in 0..MaxChecks /\ checks[x] < MaxChecks /\ MaxChecks \in Nat
    BY <1>2, <1>3, ReceiptConstants DEF PushInv, OutboxInv, CheckType, RowInv
  <1>5. verdict[w][x] \in Verdicts
    BY <1>2 DEF PushInv, ReceiptTypeOK
  <1>6. v \in Verdicts /\ (v = "retryable" => checks[x] + 1 < MaxChecks)
    BY <1>3, <1>4, <1>5 DEF Verdicts
  <1>7. receipt' = [receipt EXCEPT ![x] = v] /\ checks' = [checks EXCEPT ![x] = @ + 1]
    BY <1>2, <1>3 DEF Record, PushInv, OutboxInv, CheckType
  <1>8. active' \in SUBSET Tokens
    BY DEF Record, PushInv, OutboxInv, OutboxTypeOK
  <1>9. rdue' = [rdue EXCEPT ![x] = FALSE] /\ rlease' = [rlease EXCEPT ![x] = "none"]
    BY DEF Record
  <1> HIDE DEF x, v
  <1>10. checks[x] \in Nat
    BY <1>4
  <1>11. /\ x \in Deliveries /\ receipt[x] \in {"pending", "retryable"} /\ status[x] = "sent"
         /\ checks[x] < MaxChecks /\ checks[x] \in Nat /\ rlease[x] = w
         /\ checks' = [checks EXCEPT ![x] = @ + 1]
         /\ active' \in SUBSET Tokens /\ rdue' = [rdue EXCEPT ![x] = FALSE]
         /\ rlease' = [rlease EXCEPT ![x] = "none"]
         /\ \E u \in Verdicts : Answered(x, u)
    BY <1>2, <1>3, <1>4, <1>6, <1>7, <1>8, <1>9, <1>10 DEF Answered
  <1> QED  BY <1>11 DEF x

LEMMA PersistKeeps ==
    ASSUME PushInv, NEW w \in Checkers, Persist(w)
    PROVE  PushInv'
  <1>1. /\ UNCHANGED <<events, status, ticket, audit, at, loc, accepted>>
        /\ verdict' = IF rat'[w] = "idle" THEN [verdict EXCEPT ![w] = NoVerdict] ELSE verdict
    BY DEF Persist
  <1>2. verdict' \in [Checkers -> [Deliveries -> Verdicts]]
    <2>1. NoVerdict \in [Deliveries -> Verdicts]
      BY DEF NoVerdict, Verdicts
    <2> QED  BY <1>1, <2>1 DEF PushInv, ReceiptTypeOK
  <1>3. jobs' \in [Checkers -> SUBSET Jobs] /\ rat' \in [Checkers -> {"idle", "fetch", "persist"}]
    BY DEF PushInv, ReceiptTypeOK, Persist
  <1>4. CASE UNCHANGED <<receipt, checks, rdue, rlease, active>>
    <2>1. OutboxInv'
      BY <1>1, <1>4, WorkerKeeps DEF PushInv, OutboxInv, OutboxTypeOK, CheckType, RowInv
    <2>2. ReceiptTypeOK'
      BY <1>2, <1>3, <1>4 DEF PushInv, ReceiptTypeOK
    <2> QED  BY <2>1, <2>2 DEF PushInv
  <1>5. ASSUME NEW j \in jobs[w], LeaseMatches(j, w), Record(j, w)  PROVE PushInv'
    <2> DEFINE x == j.of
    <2>1. /\ x \in Deliveries /\ status[x] = "sent"
          /\ checks[x] < MaxChecks /\ checks[x] \in Nat
          /\ checks' = [checks EXCEPT ![x] = @ + 1]
          /\ active' \in SUBSET Tokens /\ rdue' = [rdue EXCEPT ![x] = FALSE]
          /\ rlease' = [rlease EXCEPT ![x] = "none"]
          /\ \E v \in Verdicts : Answered(x, v)
      BY <1>5, Recording
    <2> HIDE DEF x
    <2>a. PICK v \in Verdicts : Answered(x, v)
      BY <2>1
    <2>2. receipt' = [receipt EXCEPT ![x] = v] /\ (v = "retryable" => checks[x] + 1 < MaxChecks)
      BY <2>a DEF Answered
    <2>3. MaxChecks \in Nat
      BY ReceiptConstants
    <2>4. CheckType' /\ receipt' \in [Deliveries -> ReceiptStatuses]
      BY <2>1, <2>2, <2>3 DEF PushInv, OutboxInv, CheckType, OutboxTypeOK, ReceiptStatuses, Verdicts
    <2>5. RowInv'
      <3> SUFFICES ASSUME NEW y \in Deliveries
                   PROVE  /\ status'[y] = "sent" <=> receipt'[y] # "none"
                          /\ receipt'[y] = "none" => checks'[y] = 0
                          /\ receipt'[y] \in {"pending", "retryable"} => checks'[y] < MaxChecks
        BY DEF RowInv
      <3>1. status' = status /\ receipt \in [Deliveries -> ReceiptStatuses]
            /\ checks \in [Deliveries -> 0..MaxChecks]
        BY <1>1 DEF PushInv, OutboxInv, OutboxTypeOK, CheckType
      <3>2. CASE y = x
        <4>1. receipt'[y] = v /\ checks'[y] = checks[x] + 1
          BY <2>1, <2>2, <3>1, <3>2
        <4> QED  BY <2>1, <2>2, <3>1, <3>2, <4>1 DEF Verdicts
      <3>3. CASE y # x
        BY <2>1, <2>2, <3>1, <3>3 DEF PushInv, OutboxInv, RowInv
      <3> QED  BY <3>2, <3>3
    <2>6. OutboxInv'
      BY <1>1, <2>1, <2>4, <2>5, WorkerKeeps DEF PushInv
    <2>7. ReceiptTypeOK'
      BY <1>2, <1>3, <2>1, <2>4 DEF PushInv, ReceiptTypeOK, CheckType
    <2> QED  BY <2>6, <2>7 DEF PushInv
  <1> QED  BY <1>4, <1>5 DEF Persist

LEMMA StepOfOutbox ==
    ASSUME PushInv, OutboxStep
    PROVE  PushInv'
  <1>1. OutboxInv'
    BY OutboxKept DEF PushInv, OutboxStep
  <1>2. rdue' \in [Deliveries -> BOOLEAN] /\ UNCHANGED <<rlease, rat, jobs, verdict>>
    BY DEF OutboxStep, PushInv, ReceiptTypeOK
  <1>3. ReceiptTypeOK'
    BY <1>1, <1>2 DEF PushInv, ReceiptTypeOK, OutboxInv, CheckType
  <1> QED  BY <1>1, <1>3 DEF PushInv

LEMMA PushKept == PushInv /\ [Next]_vars => PushInv'
  <1> SUFFICES ASSUME PushInv, [Next]_vars PROVE PushInv'
    OBVIOUS
  <1>1. CASE UNCHANGED vars
    <2>1. UNCHANGED outbox /\ UNCHANGED <<rdue, rlease, rat, jobs, verdict>>
      BY <1>1 DEF vars, receipts
    <2>2. OutboxInv'
      BY <2>1, WorkerKeeps DEF PushInv, OutboxInv, OutboxTypeOK, CheckType, RowInv, outbox, events
    <2>3. ReceiptTypeOK'
      BY <2>1 DEF PushInv, ReceiptTypeOK, outbox
    <2> QED  BY <2>2, <2>3 DEF PushInv
  <1> QED
    BY <1>1, StepOfOutbox, DueKeeps, CheckClaimKeeps, IdleKeeps, PersistKeeps DEF Next

LEMMA PushBegins == Init => PushInv
  <1> SUFFICES ASSUME Init PROVE PushInv
    OBVIOUS
  <1>1. OutboxInv
    BY OutboxBegins DEF Init
  <1>2. NoVerdict \in [Deliveries -> Verdicts]
    BY DEF NoVerdict, Verdicts
  <1>3. rdue \in [Deliveries -> BOOLEAN] /\ rlease \in [Deliveries -> Checkers \cup {"none"}]
        /\ rat \in [Checkers -> {"idle", "fetch", "persist"}] /\ jobs \in [Checkers -> SUBSET Jobs]
    BY DEF Init
  <1>4. verdict \in [Checkers -> [Deliveries -> Verdicts]]
    BY <1>2 DEF Init
  <1> QED  BY <1>1, <1>3, <1>4 DEF PushInv, ReceiptTypeOK, OutboxInv, CheckType

-----------------------------------------------------------------------------
(* The theorems *)

\* The rows, the tasks' locals and the receipt workers' jobs keep their types,
\* and an open receipt has a check left.
THEOREM OutboxTypes == Spec => [](OutboxTypeOK /\ ReceiptTypeOK)
  <1>1. PushInv => OutboxTypeOK /\ ReceiptTypeOK  BY DEF PushInv, OutboxInv
  <1> QED  BY <1>1, PushBegins, PushKept, PTL DEF Spec

\* Claims, sweeps, crashes and replays never give one event two tasks, for any
\* number of dispatchers.
THEOREM OneTask == Spec => []OneTaskPerEvent
  <1>1. PushInv => OneTaskPerEvent
    <2> SUFFICES ASSUME PushInv, ~Overlap, NEW e \in Events PROVE Cardinality(InFlight(e)) <= 1
      BY DEF OneTaskPerEvent
    <2>1. \A c, d \in InFlight(e) : c = d
      <3>1. OneEach
        BY DEF PushInv, OutboxInv, TaskInv
      <3> SUFFICES ASSUME NEW c \in InFlight(e), NEW d \in InFlight(e) PROVE c = d
        OBVIOUS
      <3>2. <<c, e>> \in Tasks /\ <<d, e>> \in Tasks /\ at[<<c, e>>] # "idle" /\ at[<<d, e>>] # "idle"
        BY DEF InFlight, Tasks
      <3>3. <<c, e>> = <<d, e>>
        BY <3>1, <3>2 DEF OneEach
      <3> QED  BY <3>3
    <2>2. CASE InFlight(e) = {}
      BY <2>2, FS_EmptySet
    <2>3. ASSUME NEW d \in InFlight(e)  PROVE Cardinality(InFlight(e)) <= 1
      <3>1. InFlight(e) = {d}
        BY <2>1
      <3>2. Cardinality({d}) = 1
        BY FS_Singleton
      <3> QED  BY <3>1, <3>2
    <2> QED  BY <2>2, <2>3
  <1> QED  BY <1>1, PushBegins, PushKept, PTL DEF Spec

\* An event that is reported sent has a ticket, whatever failed on the way.
THEOREM SentTicket == Spec => []SentHasTicket
  <1>1. PushInv => SentHasTicket
    BY DEF PushInv, OutboxInv, TaskInv, SentHasTicket, Ticketed
  <1> QED  BY <1>1, PushBegins, PushKept, PTL DEF Spec

\* A device whose ticket is stored is not sent the event again.
THEOREM NotResent == Spec => TicketedNotResent
  <1> DEFINE Once == Overlap \/ \A x \in Deliveries : status[x] = "sent" => accepted'[x] = accepted[x]
  <1>1. ASSUME PushInv, [Next]_vars  PROVE [Once]_outbox
    <2> SUFFICES ASSUME ~Overlap, NEW x \in Deliveries, status[x] = "sent"
                 PROVE  accepted'[x] = accepted[x]
      OBVIOUS
    <2>1. ASSUME NEW k \in Tasks, Post(k)  PROVE accepted'[x] = accepted[x]
      <3>1. PICK ok \in SUBSET loc[k].chunk :
              accepted' = [y \in Deliveries |->
                             IF y[1] = k[2] /\ y[2] \in ok THEN accepted[y] + 1 ELSE accepted[y]]
        BY <2>1 DEF Post
      <3>2. at[k] = "send"
        BY <2>1 DEF Post
      <3>3. Knows(status, k[2], at[k], loc[k])
        BY <1>1 DEF PushInv, OutboxInv, TaskInv
      <3>4. \A t \in loc[k].chunk : status[<<k[2], t>>] # "sent"
        BY <3>2, <3>3 DEF Knows
      <3>5. x = <<x[1], x[2]>>
        BY DEF Deliveries
      <3>6. ~(x[1] = k[2] /\ x[2] \in ok)
        BY <3>4, <3>5
      <3>7. accepted'[x] = IF x[1] = k[2] /\ x[2] \in ok THEN accepted[x] + 1 ELSE accepted[x]
        BY <3>1
      <3> QED  BY <3>6, <3>7
    <2>2. ASSUME NEW k \in Tasks, TaskStep(k), ~Post(k)  PROVE accepted' = accepted
      BY <2>2 DEF TaskStep, Read, Upsert, Disable, Finish, Done, Settle, Fail
    <2>3. ASSUME OutboxNext, \A k \in Tasks : ~TaskStep(k)  PROVE accepted' = accepted
      BY <2>3 DEF OutboxNext, Enqueue, BackoffElapses, GoesStale, Replay, ClaimOne, Drain, Take,
                  TokenRegistered, TokenDropped, Crash
    <2>4. OutboxNext => accepted'[x] = accepted[x]
      BY <2>1, <2>2, <2>3
    <2>5. ASSUME ~OutboxStep  PROVE accepted' = accepted
      BY <1>1, <2>5 DEF Next, ReceiptDue, CheckClaim, Fetch, Persist, CheckCrash, vars, outbox
    <2> QED  BY <2>4, <2>5 DEF OutboxStep
  <1> QED  BY <1>1, PushBegins, PushKept, PTL DEF Spec, TicketedNotResent

\* A result is recorded by the holder of the lease, in an open receipt.
LEMMA LateRejected ==
    ASSUME PushInv, [Next]_vars, NEW w \in Checkers, NEW x \in Deliveries, Records(w, x)
    PROVE  rlease[x] = w /\ receipt[x] \in {"pending", "retryable"}
  <1>1. jobs'[w] # jobs[w] /\ checks'[x] # checks[x]
    BY DEF Records
  <1>2. PICK v \in Checkers : Persist(v)
    <2>1. ~OutboxStep /\ ~UNCHANGED vars
      BY <1>1 DEF OutboxStep, vars, receipts
    <2>2. \A y \in Deliveries : ~ReceiptDue(y)
      BY <1>1 DEF ReceiptDue
    <2>3. \A v \in Checkers : ~CheckClaim(v) /\ ~Fetch(v) /\ ~CheckCrash(v)
      BY <1>1 DEF CheckClaim, Fetch, CheckCrash, outbox
    <2> QED  BY <2>1, <2>2, <2>3 DEF Next
  <1>3. v = w
    BY <1>1, <1>2 DEF Persist, PushInv, ReceiptTypeOK
  <1>4. PICK j \in jobs[w] : LeaseMatches(j, w) /\ Record(j, w)
    BY <1>1, <1>2, <1>3 DEF Persist
  <1>5. j.of = x
    BY <1>1, <1>4 DEF Record, PushInv, ReceiptTypeOK
  <1> QED  BY <1>4, <1>5 DEF LeaseMatches, Unchecked

-----------------------------------------------------------------------------
(* The ledger *)

LedgerStep == [Ledger!Next]_(Ledger!vars)

LEMMA LedgerRests == UNCHANGED <<receipt, checks>> => LedgerStep
  BY DEF LedgerStep, Ledger!vars

\* The rows an upsert writes had no ticket: those that get one have a receipt
\* to ask for from now on, the others stay as they were.
LEMMA UpsertIssues ==
    ASSUME OutboxInv, TaskInv, NEW k \in Tasks, Upsert(k)
    PROVE  LedgerStep
  <1> DEFINE hit(x) == x[1] = k[2] /\ x[2] \in loc[k].chunk
             ok(x)  == loc[k].got[x[2]] = "ok"
             X      == {x \in Deliveries : hit(x) /\ ok(x)}
  <1>1. CASE UNCHANGED rows
    BY <1>1, LedgerRests DEF rows
  <1>2. CASE WriteRows(k)
    <2>1. /\ receipt' = [x \in Deliveries |->
                        IF hit(x) THEN IF ok(x) THEN "pending" ELSE "none" ELSE receipt[x]]
          /\ checks' = [x \in Deliveries |-> IF hit(x) THEN 0 ELSE checks[x]]
      BY <1>2 DEF WriteRows
    <2>2. Knows(status, k[2], at[k], loc[k]) /\ at[k] = "upsert"
      BY DEF TaskInv, Upsert
    <2>3. \A t \in loc[k].chunk : status[<<k[2], t>>] # "sent"
      BY <2>2 DEF Knows
    <2>4. \A x \in Deliveries : hit(x) => receipt[x] = "none" /\ checks[x] = 0
      <3> SUFFICES ASSUME NEW x \in Deliveries, hit(x) PROVE receipt[x] = "none" /\ checks[x] = 0
        OBVIOUS
      <3>1. x = <<k[2], x[2]>>
        BY DEF Deliveries
      <3>2. status[x] # "sent"
        BY <2>3, <3>1
      <3> QED  BY <3>2 DEF OutboxInv, RowInv
    <2>5. checks \in [Deliveries -> Nat] /\ receipt \in [Deliveries -> ReceiptStatuses]
      BY DEF OutboxInv, OutboxTypeOK
    <2>6. checks' = checks
      BY <2>1, <2>4, <2>5
    <2> HIDE DEF hit, ok
    <2>7. receipt' = [x \in Deliveries |-> IF x \in X THEN "pending" ELSE receipt[x]]
      BY <2>1, <2>4
    <2>8. \A x \in X : receipt[x] = "none"
      BY <2>4
    <2>9. X \in SUBSET Deliveries
      OBVIOUS
    <2> HIDE DEF X
    <2>10. Ledger!Issue(X) /\ X \in SUBSET Ledger!Deliveries
      BY <2>6, <2>7, <2>8, <2>9 DEF Ledger!Issue, Ledger!Deliveries, Deliveries
    <2> QED  BY <2>10 DEF LedgerStep, Ledger!Next
  <1> QED  BY <1>1, <1>2 DEF Upsert

\* A replay takes back the failures among the rows it resets.
LEMMA ReplayWithdraws ==
    ASSUME OutboxInv, NEW e \in Events, NEW q \in ReplayIds, Replay(q, e)
    PROVE  LedgerStep
  <1>1. PICK X \in SUBSET Deliveries : Reset(e, X)
    BY ReplayRows
  <1> DEFINE Y == {x \in X : receipt[x] # "none"}
  <1>2. checks \in [Deliveries -> Nat] /\ receipt \in [Deliveries -> ReceiptStatuses]
    BY DEF OutboxInv, OutboxTypeOK
  <1>3. \A x \in X : /\ receipt[x] \in {"none", "invalid_token", "permanent_failure"}
                     /\ receipt[x] = "none" => checks[x] = 0
    BY <1>1 DEF Reset
  <1>4. /\ receipt' = [x \in Deliveries |-> IF x \in X THEN "none" ELSE receipt[x]]
        /\ checks' = [x \in Deliveries |-> IF x \in X THEN 0 ELSE checks[x]]
    BY <1>1 DEF Reset
  <1>5. receipt' = [x \in Deliveries |-> IF x \in Y THEN "none" ELSE receipt[x]]
    BY <1>2, <1>3, <1>4
  <1>6. checks' = [x \in Deliveries |-> IF x \in Y THEN 0 ELSE checks[x]]
    BY <1>2, <1>3, <1>4
  <1>7. Y \in SUBSET Deliveries /\ \A x \in Y : receipt[x] \in {"invalid_token", "permanent_failure"}
    BY <1>3
  <1> HIDE DEF Y
  <1>8. Ledger!Withdraw(Y) /\ Y \in SUBSET Ledger!Deliveries
    BY <1>5, <1>6, <1>7 DEF Ledger!Withdraw, Ledger!Deliveries, Ledger!Failures, Deliveries
  <1> QED  BY <1>8 DEF LedgerStep, Ledger!Next

\* A recorded result is a check, any other end of an invocation changes no receipt.
LEMMA PersistChecks ==
    ASSUME PushInv, NEW w \in Checkers, Persist(w)
    PROVE  LedgerStep
  <1>1. CASE UNCHANGED <<receipt, checks>>
    BY <1>1, LedgerRests
  <1>2. ASSUME NEW j \in jobs[w], LeaseMatches(j, w), Record(j, w)  PROVE LedgerStep
    <2> DEFINE x == j.of
    <2>1. /\ x \in Deliveries /\ receipt[x] \in {"pending", "retryable"}
          /\ checks' = [checks EXCEPT ![x] = @ + 1]
          /\ \E v \in Verdicts : Answered(x, v)
      BY <1>2, Recording
    <2>2. PICK v \in Verdicts : Answered(x, v)
      BY <2>1
    <2> HIDE DEF x
    <2>3. Ledger!Check(x, v)
      BY <2>1, <2>2 DEF Answered, Ledger!Check, Ledger!Open
    <2>4. x \in Ledger!Deliveries /\ v \in {"retryable", "delivered"} \cup Ledger!Failures
      BY <2>1, <2>2 DEF Verdicts, Ledger!Failures, Ledger!Deliveries, Deliveries
    <2> QED  BY <2>3, <2>4 DEF LedgerStep, Ledger!Next
  <1> QED  BY <1>1, <1>2 DEF Persist

LEMMA LedgerKept ==
    ASSUME PushInv, ~Overlap, [Next]_vars
    PROVE  LedgerStep
  <1>1. ASSUME NEW k \in Tasks, TaskStep(k)  PROVE LedgerStep
    <2>1. CASE Upsert(k)
      BY <2>1, UpsertIssues DEF PushInv, OutboxInv
    <2>2. CASE ~Upsert(k)
      BY <1>1, <2>2, LedgerRests DEF TaskStep, Read, Post, Disable, Finish, Done, Settle, Fail, rows
    <2> QED  BY <2>1, <2>2
  <1>2. ASSUME OutboxNext, \A k \in Tasks : ~TaskStep(k),
               \A e \in Events, q \in ReplayIds : ~Replay(q, e)
        PROVE  LedgerStep
    BY <1>2, LedgerRests DEF OutboxNext, Enqueue, BackoffElapses, GoesStale, ClaimOne, Drain, Take,
                             TokenRegistered, TokenDropped, Crash, rows
  <1>3. OutboxStep => LedgerStep
    BY <1>1, <1>2, ReplayWithdraws DEF OutboxStep, PushInv
  <1>4. ASSUME NEW x \in Deliveries, ReceiptDue(x)  PROVE LedgerStep
    BY <1>4, LedgerRests DEF ReceiptDue, outbox
  <1>5. ASSUME NEW w \in Checkers, CheckClaim(w) \/ Fetch(w) \/ CheckCrash(w)  PROVE LedgerStep
    BY <1>5, CheckClaimKeeps, IdleKeeps, LedgerRests
  <1>6. UNCHANGED vars => LedgerStep
    BY LedgerRests DEF vars, outbox
  <1> QED  BY <1>3, <1>4, <1>5, <1>6, PersistChecks DEF Next

LEMMA LedgerBegins == Init => Ledger!Init
  BY DEF Init, OutboxInit, Ledger!Init, Ledger!Deliveries, Deliveries

\* Dispatchers, receipt workers and operators together keep the ledger, and a
\* worker whose lease has passed on records nothing: for any number of each.
THEOREM Keeps ==
    ASSUME ~Overlap
    PROVE  Spec => KeepsLedger
  <1> DEFINE Held == \A w \in Checkers, x \in Deliveries :
                        Records(w, x) => rlease[x] = w /\ receipt[x] \in {"pending", "retryable"}
  <1>1. PushInv /\ [Next]_vars => [Ledger!Next]_(Ledger!vars)
    BY LedgerKept DEF LedgerStep
  <1>2. PushInv /\ [Next]_vars => [Held]_vars
    BY LateRejected
  <1>3. Spec => Ledger!Spec
    BY <1>1, LedgerBegins, PushBegins, PushKept, PTL DEF Spec, Ledger!Spec
  <1>4. Spec => LateWorkerRejected
    BY <1>2, PushBegins, PushKept, PTL DEF Spec, LateWorkerRejected
  <1> QED  BY <1>3, <1>4 DEF KeepsLedger

\* For the rows of the outbox (push-dispatch and push-receipts, index.ts) a step
\* of the server is a step of one of its workers, an operator or an installation,
\* or none: what is proved of them holds of the server.
THEOREM IsOutbox == ServerSpec => Spec
  <1>1. ServerInit => Init
    BY DEF ServerInit
  <1>2. ServerNext => [Next]_vars
    BY DEF ServerNext, Next
  <1>3. UNCHANGED <<mode, vars, ingestVars, apiVars, httpVars>> => UNCHANGED vars
    OBVIOUS
  <1> QED  BY <1>1, <1>2, <1>3, PTL DEF ServerSpec, Spec

-----------------------------------------------------------------------------
(* Lists *)

\* A part of a list.
LEMMA Slice ==
    ASSUME NEW S, NEW s \in Seq(S), NEW p \in 0..Len(s), NEW q \in p..Len(s)
    PROVE  /\ SubSeq(s, p + 1, q) \in Seq(S) /\ Len(SubSeq(s, p + 1, q)) = q - p
           /\ \A j \in 1..(q - p) : SubSeq(s, p + 1, q)[j] = s[p + j]
  <1> DEFINE t == SubSeq(s, p + 1, q)
             m == p + 1
  <1>0. Len(s) \in Nat /\ p \in Nat /\ q \in Nat /\ p <= q /\ q <= Len(s) /\ m \in Int /\ q \in Int
    OBVIOUS
  <1>1. \A j \in m..q : s[j] \in S  BY <1>0
  <1>2. t = SubSeq(s, m, q)  OBVIOUS
  <1>m. m = p + 1  OBVIOUS
  <1> HIDE DEF t, m
  <1>3. t \in Seq(S)  BY <1>0, <1>1, <1>2, SubSeqProperties
  <1>4. Len(t) = IF m <= q THEN q - m + 1 ELSE 0  BY <1>0, <1>1, <1>2, SubSeqProperties
  <1>5. \A j \in 1..(q - m + 1) : t[j] = s[m + j - 1]  BY <1>0, <1>1, <1>2, SubSeqProperties
  <1>6. q - m + 1 = q - p /\ (~(m <= q) => q - p = 0)  BY <1>0, <1>m
  <1>7. \A j \in 1..(q - p) : m + j - 1 = p + j  BY <1>0, <1>m
  <1> QED  BY <1>3, <1>4, <1>5, <1>6, <1>7 DEF t

\* A list without its n-th element.
LEMMA WithoutOne ==
    ASSUME NEW S, NEW s \in Seq(S), NEW n \in 1..Len(s)
    PROVE  LET t == SubSeq(s, 1, n - 1) \o SubSeq(s, n + 1, Len(s)) IN
           /\ t \in Seq(S) /\ Len(t) = Len(s) - 1
           /\ \A i \in 1..Len(t) : t[i] = IF i < n THEN s[i] ELSE s[i + 1]
  <1> DEFINE a == SubSeq(s, 1, n - 1)
             b == SubSeq(s, n + 1, Len(s))
             t == a \o b
  <1>0. Len(s) \in Nat /\ \A i \in 1..Len(s) : s[i] \in S
    OBVIOUS
  <1>n. n \in Nat /\ 1 <= n /\ n <= Len(s)  BY <1>0
  <1>1. a \in Seq(S) /\ Len(a) = n - 1 /\ \A i \in 1..(n - 1) : a[i] = s[i]
    BY <1>0, SubSeqProperties
  <1>2. b \in Seq(S) /\ Len(b) = Len(s) - n /\ \A i \in 1..(Len(s) - n) : b[i] = s[n + i]
    BY <1>0, SubSeqProperties
  <1> HIDE DEF a, b
  <1>3. /\ t \in Seq(S) /\ Len(t) = Len(a) + Len(b)
        /\ \A i \in 1..(Len(a) + Len(b)) : t[i] = IF i <= Len(a) THEN a[i] ELSE b[i - Len(a)]
    BY <1>1, <1>2, ConcatProperties
  <1> HIDE DEF t
  <1>4. \A i \in 1..Len(t) : t[i] = IF i <= Len(a) THEN a[i] ELSE b[i - Len(a)]
    BY <1>3
  <1>l. Len(t) = Len(s) - 1
    <2>1. Len(t) = (n - 1) + (Len(s) - n)  BY <1>1, <1>2, <1>3
    <2> QED  BY <2>1, <1>n, <1>0
  <1>5. ASSUME NEW i \in 1..Len(t)  PROVE t[i] = IF i < n THEN s[i] ELSE s[i + 1]
    <2>1. t[i] = IF i <= n - 1 THEN a[i] ELSE b[i - (n - 1)]  BY <1>1, <1>4
    <2>i. i \in Nat /\ 1 <= i /\ i <= Len(s) - 1  BY <1>l, <1>0
    <2>2. CASE i < n
      <3>1. i \in 1..(n - 1)  BY <2>2, <2>i, <1>n
      <3> QED  BY <2>1, <2>2, <3>1, <1>1
    <2>3. CASE ~(i < n)
      <3>1. i - (n - 1) \in 1..(Len(s) - n) /\ n + (i - (n - 1)) = i + 1 /\ ~(i <= n - 1)
        BY <2>3, <2>i, <1>n, <1>0
      <3>2. b[i - (n - 1)] = s[n + (i - (n - 1))]  BY <3>1, <1>2
      <3> QED  BY <2>1, <2>3, <3>1, <3>2
    <2> QED  BY <2>2, <2>3
  <1> QED  BY <1>3, <1>l, <1>5 DEF t, a, b

\* No element twice.
Apart(s) == \A i, j \in 1..Len(s) : s[i] = s[j] => i = j

\* Without the first e, a list in which nothing is twice has no e; another
\* element stays where it is or comes nearer by one place.
LEMMA WithoutFirst ==
    ASSUME NEW S, NEW s \in Seq(S), Apart(s), NEW e
    PROVE  LET t == Ingest!RemoveFirst(s, e) IN
           /\ t \in Seq(S) /\ Apart(t)
           /\ \A k \in 1..Len(t) : t[k] # e /\ \E i \in 1..Len(s) : t[k] = s[i]
           /\ \A i \in 1..Len(s) : s[i] # e => \E k \in 1..Len(t) : k <= i /\ i <= k + 1 /\ t[k] = s[i]
  <1> DEFINE t == Ingest!RemoveFirst(s, e)
  <1>0. Len(s) \in Nat /\ \A i \in 1..Len(s) : s[i] \in S
    OBVIOUS
  <1>1. CASE ~ \E i \in 1..Len(s) : s[i] = e
    <2>1. t = s  BY <1>1 DEF Ingest!RemoveFirst
    <2> QED  BY <2>1, <1>1, <1>0
  <1>2. CASE \E i \in 1..Len(s) : s[i] = e
    <2>1. PICK n \in 1..Len(s) : s[n] = e  BY <1>2
    <2>2. {i \in 1..Len(s) : s[i] = e} = {n}  BY <2>1, <1>0 DEF Apart
    <2>3. Ingest!SelectInSeq(s, LAMBDA v : v = e) = n
      <3>1. Ingest!Min({n}) = n  BY <1>0 DEF Ingest!Min
      <3> QED  BY <3>1, <2>2 DEF Ingest!SelectInSeq
    <2>4. t = SubSeq(s, 1, n - 1) \o SubSeq(s, n + 1, Len(s))
      BY <1>2, <2>3 DEF Ingest!RemoveFirst, Ingest!RemoveAt
    <2>5. /\ t \in Seq(S) /\ Len(t) = Len(s) - 1
          /\ \A i \in 1..Len(t) : t[i] = IF i < n THEN s[i] ELSE s[i + 1]
      <3> DEFINE d == SubSeq(s, 1, n - 1) \o SubSeq(s, n + 1, Len(s))
      <3>1. /\ d \in Seq(S) /\ Len(d) = Len(s) - 1
            /\ \A i \in 1..Len(d) : d[i] = IF i < n THEN s[i] ELSE s[i + 1]
        BY WithoutOne
      <3>2. t = d  BY <2>4
      <3> HIDE DEF d, t
      <3> QED  BY <3>1, <3>2
    <2> HIDE DEF t
    <2>n. n \in Nat /\ 1 <= n /\ n <= Len(s)  BY <1>0
    <2>6. ASSUME NEW k \in 1..Len(t)
          PROVE  /\ (IF k < n THEN k ELSE k + 1) \in 1..Len(s) \ {n}
                 /\ t[k] = s[IF k < n THEN k ELSE k + 1]
      BY <2>5, <2>n, <1>0
    <2>7. ASSUME NEW i \in 1..Len(s), s[i] # e
          PROVE  \E k \in 1..Len(t) : k <= i /\ i <= k + 1 /\ t[k] = s[i]
      <3>1. CASE i < n
        <4>1. i \in 1..Len(t) /\ t[i] = s[i]  BY <3>1, <2>5, <1>0
        <4> QED  BY <4>1
      <3>2. CASE ~(i < n)
        <4>1. i # n  BY <2>7, <2>1
        <4>2. i - 1 \in 1..Len(t) /\ t[i - 1] = s[i]  BY <3>2, <4>1, <2>5, <1>0
        <4> QED  BY <4>2
      <3> QED  BY <3>1, <3>2
    <2>8. Apart(t)
      <3> SUFFICES ASSUME NEW i \in 1..Len(t), NEW j \in 1..Len(t), t[i] = t[j]  PROVE i = j
        BY DEF Apart
      <3>1. (IF i < n THEN i ELSE i + 1) = (IF j < n THEN j ELSE j + 1)
        BY <2>6 DEF Apart
      <3> QED  BY <3>1, <2>5, <1>0
    <2>9. \A k \in 1..Len(t) : t[k] # e  BY <2>6, <2>1 DEF Apart
    <2> QED  BY <2>5, <2>6, <2>7, <2>8, <2>9 DEF t
  <1> QED  BY <1>1, <1>2

-----------------------------------------------------------------------------
(* The events of the provider: what a run has read, and what it may commit *)

RunRecords == [at : {"idle", "page", "commit"}, started : 0..MaxClock, skip : 0..(MaxEvents + PageSize),
               rows : [Ids -> 0..MaxClock], met : SUBSET Ids, shrunk : BOOLEAN]

IngestTypeInv ==
    /\ clock \in 1..MaxClock
    /\ list \in Seq(Ids) /\ Apart(list)
    /\ ver \in [Ids -> 0..MaxClock] /\ dated \in BOOLEAN
    /\ db \in [Ids -> Ingest!Stored]
    /\ run \in [Runs -> RunRecords]
    /\ sync \in [at : {"idle", "fetch", "write"}, id : Ids, ver : 0..MaxClock]

\* Nothing is newer than the clock, or than the provider's own version.
VersionInv ==
    /\ \A e \in Ids : ver[e] <= clock
    /\ \A i \in 1..Len(list) : ver[list[i]] > 0
    /\ \A r \in Runs : run[r].started <= clock /\ \A e \in Ids : run[r].rows[e] <= ver[e]
    /\ \A r \in Runs : \A e \in run[r].met : ver[e] > 0
    /\ sync.ver <= ver[sync.id] /\ (sync.at # "write" => sync.ver = 0)

\* No row is newer than that either; what its stamp means.
StampInv ==
    \A e \in Ids : /\ db[e].ver <= ver[e] /\ db[e].stamp <= clock
                   /\ dated => db[e].stamp = db[e].ver
                   /\ db[e].by = "none" => db[e].stamp = 0

\* An event that the run q met and could map is read, or still to be found behind
\* the n-th place of the list.
Behind(q, n) ==
    \A e \in q.met \ Incomplete :
        q.rows[e] = ver[e] \/ \E i \in 1..Len(list) : n < i /\ list[i] = e

PagedInv ==
    \A r \in Runs :
        /\ run[r].at = "idle" => run[r].met = {}
        /\ run[r].at = "page" => run[r].skip < MaxEvents
        /\ run[r].at = "page" /\ ~run[r].shrunk => Behind(run[r], run[r].skip)
        /\ run[r].at = "commit" /\ ~run[r].shrunk => Behind(run[r], MaxEvents)

\* What a run read that began no earlier than r is up to date if the event has
\* not changed since r began.
ReadInv ==
    \A r, q \in Runs : \A e \in run[r].met :
        run[r].started <= run[q].started /\ run[q].rows[e] # 0 => run[q].rows[e] = ver[e]

\* So is what such a run has stored.
StoredInv ==
    \A r \in Runs : \A e \in run[r].met :
        ~dated /\ db[e].by = "ingest" /\ run[r].started <= db[e].stamp => db[e].ver = ver[e]

IngestInv == IngestTypeInv /\ VersionInv /\ StampInv /\ PagedInv /\ ReadInv /\ StoredInv

LEMMA RunFields ==
    ASSUME IngestTypeInv, NEW r \in Runs
    PROVE  /\ run[r] \in RunRecords
           /\ run[r].at \in {"idle", "page", "commit"} /\ run[r].started \in Nat /\ run[r].skip \in Nat
           /\ run[r].rows \in [Ids -> 0..MaxClock] /\ run[r].met \subseteq Ids /\ run[r].shrunk \in BOOLEAN
           /\ \A e \in Ids : run[r].rows[e] \in Nat
  <1>1. run[r] \in RunRecords  BY DEF IngestTypeInv
  <1>2. /\ run[r].at \in {"idle", "page", "commit"} /\ run[r].started \in 0..MaxClock
        /\ run[r].skip \in 0..(MaxEvents + PageSize)
        /\ run[r].rows \in [Ids -> 0..MaxClock] /\ run[r].met \subseteq Ids /\ run[r].shrunk \in BOOLEAN
    BY <1>1 DEF RunRecords
  <1> QED  BY <1>1, <1>2

LEMMA NoRunFields ==
    ASSUME Ingest!EventIngestAssumption
    PROVE  /\ Ingest!NoRun \in RunRecords
           /\ Ingest!NoRun.at = "idle" /\ Ingest!NoRun.started = 0 /\ Ingest!NoRun.met = {}
           /\ \A e \in Ids : Ingest!NoRun.rows[e] = 0
  <1>1. 0 \in 0..MaxClock /\ 0 \in 0..(MaxEvents + PageSize)  BY DEF Ingest!EventIngestAssumption
  <1> QED  BY <1>1 DEF Ingest!NoRun, RunRecords

\* A run reads more, or is over.
LEMMA OneRun ==
    ASSUME Ingest!EventIngestAssumption, IngestInv, NEW r \in Runs, NEW rec \in RunRecords,
           run' = [run EXCEPT ![r] = rec], UNCHANGED <<clock, list, ver, dated, sync>>,
           rec = Ingest!NoRun \/ (rec.started = run[r].started /\ rec.met = run[r].met),
           \A e \in Ids : rec.rows[e] \in {run[r].rows[e], ver[e], 0},
           rec.at = "idle" => rec.met = {}, rec.at = "page" => rec.skip < MaxEvents,
           rec.at = "page" /\ ~rec.shrunk => Behind(rec, rec.skip),
           rec.at = "commit" /\ ~rec.shrunk => Behind(rec, MaxEvents)
    PROVE  run' \in [Runs -> RunRecords] /\ VersionInv' /\ PagedInv' /\ ReadInv' /\ (UNCHANGED db => StoredInv')
  <1>0. /\ run \in [Runs -> RunRecords] /\ ver \in [Ids -> 0..MaxClock] /\ clock \in 1..MaxClock
        /\ \A q \in Runs : run[q] \in RunRecords /\ run[q].met \subseteq Ids
    BY RunFields DEF IngestInv, IngestTypeInv
  <1>1. /\ run' \in [Runs -> RunRecords] /\ run'[r] = rec
        /\ \A q \in Runs \ {r} : run'[q] = run[q]
    BY <1>0
  <1>2. rec.met \subseteq run[r].met /\ rec.met \subseteq Ids /\ (rec.met # {} => rec.started = run[r].started)
    BY <1>0, NoRunFields
  <1>3. rec.started <= clock
    BY <1>0, NoRunFields DEF IngestInv, VersionInv
  <1>4. VersionInv'
    <2>1. \A q \in Runs : run'[q].started <= clock  BY <1>1, <1>3 DEF IngestInv, VersionInv
    <2>2. ASSUME NEW q \in Runs, NEW e \in Ids  PROVE run'[q].rows[e] <= ver[e]
      <3>1. run[q].rows[e] <= ver[e] /\ 0 <= ver[e] /\ ver[e] <= ver[e]  BY <1>0 DEF IngestInv, VersionInv
      <3>2. run'[q].rows[e] \in {run[q].rows[e], ver[e], 0}  BY <1>1
      <3> QED  BY <3>1, <3>2
    <2>3. \A q \in Runs : \A e \in run'[q].met : ver[e] > 0  BY <1>1, <1>2 DEF IngestInv, VersionInv
    <2> QED  BY <2>1, <2>2, <2>3 DEF IngestInv, VersionInv
  <1>5. PagedInv'
    <2>1. \A q, n : Behind(q, n)' <=> Behind(q, n)  BY DEF Behind
    <2>2. ASSUME NEW q \in Runs
          PROVE  /\ run'[q].at = "idle" => run'[q].met = {}
                 /\ run'[q].at = "page" => run'[q].skip < MaxEvents
                 /\ run'[q].at = "page" /\ ~run'[q].shrunk => Behind(run'[q], run'[q].skip)
                 /\ run'[q].at = "commit" /\ ~run'[q].shrunk => Behind(run'[q], MaxEvents)
      BY <1>1 DEF IngestInv, PagedInv
    <2> QED  BY <2>1, <2>2 DEF PagedInv
  <1>6. ReadInv'
    <2> SUFFICES ASSUME NEW p \in Runs, NEW q \in Runs, NEW e \in run'[p].met,
                        run'[p].started <= run'[q].started, run'[q].rows[e] # 0
                 PROVE  run'[q].rows[e] = ver[e]
      BY DEF ReadInv
    <2>1. e \in run[p].met /\ e \in Ids /\ run'[p].started = run[p].started  BY <1>0, <1>1, <1>2
    <2>2. run'[q].rows[e] = ver[e] \/ run'[q].rows[e] = run[q].rows[e]  BY <1>1, <2>1
    <2>3. run'[q].started = run[q].started  BY <1>1, <2>1, NoRunFields
    <2> QED  BY <2>1, <2>2, <2>3 DEF IngestInv, ReadInv
  <1>7. ASSUME UNCHANGED db  PROVE StoredInv'
    <2> SUFFICES ASSUME NEW p \in Runs, NEW e \in run'[p].met,
                        ~dated, db[e].by = "ingest", run'[p].started <= db[e].stamp
                 PROVE  db[e].ver = ver[e]
      BY <1>7 DEF StoredInv
    <2>1. e \in run[p].met /\ run'[p].started = run[p].started  BY <1>1, <1>2
    <2> QED  BY <2>1 DEF IngestInv, StoredInv
  <1> QED  BY <1>1, <1>4, <1>5, <1>6, <1>7

LEMMA FailKept ==
    ASSUME Ingest!EventIngestAssumption, IngestInv, NEW r \in Runs, Ingest!Fail(r)
    PROVE  IngestInv'
  <1>1. run' = [run EXCEPT ![r] = Ingest!NoRun] /\ UNCHANGED <<clock, list, ver, dated, db, sync>>
    BY DEF Ingest!Fail
  <1>2. run' \in [Runs -> RunRecords] /\ VersionInv' /\ PagedInv' /\ ReadInv' /\ StoredInv'
    BY <1>1, NoRunFields, OneRun
  <1>3. IngestTypeInv'  BY <1>1, <1>2 DEF IngestInv, IngestTypeInv
  <1>4. StampInv'  BY <1>1 DEF IngestInv, StampInv
  <1> QED  BY <1>2, <1>3, <1>4 DEF IngestInv

\* The page at an offset: the places of the list that it holds.
LEMMA PageItems ==
    ASSUME Ingest!EventIngestAssumption, IngestTypeInv, NEW skip \in Nat
    PROVE  LET items == Ingest!PageOf(skip) IN
           /\ Len(items) \in Nat
           /\ \A i \in 1..Len(list) : skip < i /\ i <= skip + PageSize => list[i] \in Ingest!ToSet(items)
           /\ Len(items) < PageSize => Len(list) < skip + PageSize
  <1> DEFINE last == Ingest!LastOf(skip + PageSize, Len(list))
             items == SubSeq(list, skip + 1, last)
  <1>1. /\ Len(list) \in Nat /\ \A i \in 1..Len(list) : list[i] \in Ids
        /\ PageSize \in Nat /\ PageSize > 0
    BY DEF IngestTypeInv, Ingest!EventIngestAssumption
  <1>2. /\ last \in Nat /\ last <= Len(list) /\ last <= skip + PageSize
        /\ last = Len(list) \/ last = skip + PageSize
    BY <1>1 DEF Ingest!LastOf
  <1> HIDE DEF last
  <1>3. \A i \in (skip + 1)..last : list[i] \in Ids  BY <1>1, <1>2
  <1>4. /\ items \in Seq(Ids)
        /\ Len(items) = IF skip + 1 <= last THEN last - (skip + 1) + 1 ELSE 0
        /\ \A i \in 1..(last - (skip + 1) + 1) : items[i] = list[(skip + 1) + i - 1]
    BY <1>2, <1>3, SubSeqProperties
  <1>5. items = Ingest!PageOf(skip)  BY DEF Ingest!PageOf, last
  <1> HIDE DEF items
  <1>6. Len(items) \in Nat /\ DOMAIN items = 1..Len(items)  BY <1>4
  <1>7. ASSUME NEW i \in 1..Len(list), skip < i, i <= skip + PageSize
        PROVE  list[i] \in Ingest!ToSet(items)
    <2>1. i <= last  BY <1>2, <1>7, <1>1
    <2>2. /\ i - skip \in 1..(last - (skip + 1) + 1) /\ (skip + 1) + (i - skip) - 1 = i
          /\ i - skip \in 1..Len(items)
      BY <2>1, <1>2, <1>7, <1>1, <1>4
    <2>3. items[i - skip] = list[i]  BY <2>2, <1>4
    <2> QED  BY <2>2, <2>3, <1>6 DEF Ingest!ToSet
  <1>8. ASSUME Len(items) < PageSize  PROVE Len(list) < skip + PageSize
    <2>1. last # skip + PageSize  BY <1>4, <1>8, <1>1
    <2> QED  BY <2>1, <1>1, <1>2
  <1> QED  BY <1>5, <1>6, <1>7, <1>8

LEMMA PageKept ==
    ASSUME Ingest!EventIngestAssumption, IngestInv, NEW r \in Runs, Ingest!Page(r)
    PROVE  IngestInv'
  <1> DEFINE skip == run[r].skip
             items == Ingest!PageOf(skip)
             last == Ingest!Ends(r, Len(items))
             seen == Ingest!With(run[r].rows, items)
             rec == Ingest!After(r, items, last)
  <1>1. run[r].at = "page" /\ run' = [run EXCEPT ![r] = rec] /\ UNCHANGED <<clock, list, ver, dated, db, sync>>
    BY DEF Ingest!Page
  <1>2. run[r] \in RunRecords /\ skip \in Nat /\ run[r].rows \in [Ids -> 0..MaxClock] /\ skip < MaxEvents
    BY <1>1, RunFields DEF IngestInv, PagedInv
  <1>3. /\ MaxEvents \in Nat /\ PageSize \in Nat /\ PageSize > 0
        /\ ver \in [Ids -> 0..MaxClock] /\ Len(list) \in Nat
    BY DEF IngestInv, IngestTypeInv, Ingest!EventIngestAssumption
  <1>4. /\ Len(items) \in Nat
        /\ \A i \in 1..Len(list) : skip < i /\ i <= skip + PageSize => list[i] \in Ingest!ToSet(items)
        /\ Len(items) < PageSize => Len(list) < skip + PageSize
    BY <1>2, PageItems DEF IngestInv
  <1>5. /\ seen \in [Ids -> 0..MaxClock]
        /\ \A e \in Ids : seen[e] \in {run[r].rows[e], ver[e]}
        /\ \A e \in Ids \ Incomplete : e \in Ingest!ToSet(items) => seen[e] = ver[e]
    BY <1>2, <1>3 DEF Ingest!With, Ingest!Complete
  <1>6. ~last => skip + PageSize < Ingest!LastOf(Len(list), MaxEvents)
    BY <1>2, <1>3 DEF Ingest!Ends, Ingest!LastOf
  <1>7. last => Len(list) < skip + PageSize \/ skip + PageSize >= Len(list) \/ skip + PageSize >= MaxEvents
    BY <1>4 DEF Ingest!Ends, Ingest!LastOf
  <1>8. rec = IF ~last THEN [run[r] EXCEPT !.skip = @ + PageSize, !.rows = seen]
              ELSE IF \A e \in Ids : seen[e] = 0 THEN Ingest!NoRun
              ELSE [run[r] EXCEPT !.at = "commit", !.rows = seen]
    BY DEF Ingest!After
  <1>9. ~run[r].shrunk => \A e \in run[r].met \ Incomplete :
            seen[e] = ver[e] \/ \E i \in 1..Len(list) : skip + PageSize < i /\ list[i] = e
    <2> SUFFICES ASSUME ~run[r].shrunk, NEW e \in run[r].met \ Incomplete, seen[e] # ver[e]
                 PROVE  \E i \in 1..Len(list) : skip + PageSize < i /\ list[i] = e
      OBVIOUS
    <2>1. e \in Ids  BY RunFields DEF IngestInv
    <2>2. run[r].rows[e] # ver[e]  BY <2>1, <1>5
    <2>3. PICK i \in 1..Len(list) : skip < i /\ list[i] = e
      BY <1>1, <2>2 DEF IngestInv, PagedInv, Behind
    <2>4. e \notin Ingest!ToSet(items)  BY <1>5, <2>1
    <2>5. ~(i <= skip + PageSize)  BY <1>4, <2>3, <2>4
    <2> QED  BY <2>3, <2>5, <1>2, <1>3
  <1> HIDE DEF skip, items, last, seen, rec
  <1>10. CASE ~last
    <2>1. skip + PageSize < MaxEvents  BY <1>6, <1>10, <1>2, <1>3 DEF Ingest!LastOf
    <2>2. skip + PageSize \in 0..(MaxEvents + PageSize)  BY <2>1, <1>2, <1>3
    <2>3. rec = [run[r] EXCEPT !.skip = skip + PageSize, !.rows = seen]  BY <1>8, <1>10 DEF skip
    <2>4. /\ rec \in RunRecords /\ rec.at = "page" /\ rec.skip = skip + PageSize /\ rec.rows = seen
          /\ rec.started = run[r].started /\ rec.met = run[r].met /\ rec.shrunk = run[r].shrunk
      BY <2>2, <2>3, <1>1, <1>2, <1>5 DEF RunRecords
    <2>5. ~rec.shrunk => Behind(rec, rec.skip)  BY <2>4, <1>9 DEF Behind
    <2>6. \A e \in Ids : rec.rows[e] \in {run[r].rows[e], ver[e], 0}  BY <2>4, <1>5
    <2>7. run' \in [Runs -> RunRecords] /\ VersionInv' /\ PagedInv' /\ ReadInv' /\ StoredInv'
      BY <1>1, <2>1, <2>4, <2>5, <2>6, OneRun
    <2>8. IngestTypeInv' /\ StampInv'  BY <1>1, <2>7 DEF IngestInv, IngestTypeInv, StampInv
    <2> QED  BY <2>7, <2>8 DEF IngestInv
  <1>11. CASE last /\ rec = Ingest!NoRun
    <2>1. run' \in [Runs -> RunRecords] /\ VersionInv' /\ PagedInv' /\ ReadInv' /\ StoredInv'
      BY <1>1, <1>11, NoRunFields, OneRun
    <2>2. IngestTypeInv' /\ StampInv'  BY <1>1, <2>1 DEF IngestInv, IngestTypeInv, StampInv
    <2> QED  BY <2>1, <2>2 DEF IngestInv
  <1>12. CASE last /\ rec = [run[r] EXCEPT !.at = "commit", !.rows = seen]
    <2>1. /\ rec \in RunRecords /\ rec.at = "commit" /\ rec.rows = seen
          /\ rec.started = run[r].started /\ rec.met = run[r].met /\ rec.shrunk = run[r].shrunk
      BY <1>12, <1>2, <1>5 DEF RunRecords
    <2>2. \A i \in 1..Len(list) : skip + PageSize < i => MaxEvents < i
      BY <1>7, <1>12, <1>2, <1>3
    <2>3. ~rec.shrunk => Behind(rec, MaxEvents)  BY <2>1, <2>2, <1>9 DEF Behind
    <2>4. \A e \in Ids : rec.rows[e] \in {run[r].rows[e], ver[e], 0}  BY <2>1, <1>5
    <2>5. run' \in [Runs -> RunRecords] /\ VersionInv' /\ PagedInv' /\ ReadInv' /\ StoredInv'
      BY <1>1, <2>1, <2>3, <2>4, OneRun
    <2>6. IngestTypeInv' /\ StampInv'  BY <1>1, <2>5 DEF IngestInv, IngestTypeInv, StampInv
    <2> QED  BY <2>5, <2>6 DEF IngestInv
  <1> QED  BY <1>8, <1>10, <1>11, <1>12

LEMMA TriggerKept ==
    ASSUME Ingest!EventIngestAssumption, IngestInv, NEW r \in Runs, Ingest!Trigger(r)
    PROVE  IngestInv'
  <1> DEFINE rec == [Ingest!NoRun EXCEPT !.at = "page", !.started = clock', !.met = Ingest!ToSet(list)]
  <1>1. run' = [run EXCEPT ![r] = rec] /\ clock' = clock + 1 /\ clock < MaxClock
        /\ UNCHANGED <<list, ver, dated, db, sync>>
    BY DEF Ingest!Trigger, Ingest!Tick
  <1>2. /\ clock \in 1..MaxClock /\ clock' \in 1..MaxClock /\ list \in Seq(Ids)
        /\ run \in [Runs -> RunRecords] /\ ver \in [Ids -> 0..MaxClock] /\ db \in [Ids -> Ingest!Stored]
        /\ MaxEvents \in Nat /\ MaxEvents > 0
    BY <1>1 DEF IngestInv, IngestTypeInv, Ingest!EventIngestAssumption
  <1>3. \A e \in Ingest!ToSet(list) : e \in Ids /\ \E i \in 1..Len(list) : list[i] = e
    <2>1. DOMAIN list = 1..Len(list) /\ \A i \in 1..Len(list) : list[i] \in Ids  BY <1>2
    <2> QED  BY <2>1 DEF Ingest!ToSet
  <1>4. /\ rec \in RunRecords /\ rec.at = "page" /\ rec.started = clock' /\ rec.met = Ingest!ToSet(list)
        /\ rec.skip = 0 /\ rec.shrunk = FALSE /\ \A e \in Ids : rec.rows[e] = 0
    <2> DEFINE no == Ingest!NoRun
               met == Ingest!ToSet(list)
    <2>1. no \in RunRecords /\ no.skip = 0 /\ no.shrunk = FALSE /\ \A e \in Ids : no.rows[e] = 0
      BY NoRunFields DEF Ingest!NoRun
    <2>2. clock' \in 0..MaxClock /\ met \subseteq Ids  BY <1>2, <1>3
    <2>3. rec = [no EXCEPT !.at = "page", !.started = clock', !.met = met]  OBVIOUS
    <2> HIDE DEF no, met, rec
    <2>4. rec \in RunRecords  BY <2>1, <2>2, <2>3 DEF RunRecords
    <2>5. /\ rec.at = "page" /\ rec.started = clock' /\ rec.met = met
          /\ rec.skip = no.skip /\ rec.shrunk = no.shrunk /\ rec.rows = no.rows
      BY <2>1, <2>3 DEF RunRecords
    <2> QED  BY <2>1, <2>4, <2>5 DEF met
  <1> HIDE DEF rec
  <1>5. run' \in [Runs -> RunRecords] /\ run'[r] = rec /\ \A q \in Runs \ {r} : run'[q] = run[q]
    BY <1>1, <1>2, <1>4
  <1>6. \A q \in Runs : run[q].started <= clock /\ run[q].started \in Nat  BY RunFields DEF IngestInv, VersionInv
  <1>7. IngestTypeInv'  BY <1>1, <1>2, <1>5 DEF IngestInv, IngestTypeInv
  <1>8. VersionInv'
    <2>1. \A e \in Ids : ver[e] <= clock'  BY <1>1, <1>2 DEF IngestInv, VersionInv
    <2>2. \A q \in Runs : run'[q].started <= clock'
      <3>1. \A q \in Runs \ {r} : run'[q].started <= clock'  BY <1>1, <1>2, <1>5, <1>6
      <3>2. run'[r].started <= clock'  BY <1>2, <1>4, <1>5
      <3> QED  BY <3>1, <3>2
    <2>3. \A q \in Runs : \A e \in Ids : run'[q].rows[e] <= ver[e]
      BY <1>2, <1>4, <1>5 DEF IngestInv, VersionInv
    <2>4. \A q \in Runs : \A e \in run'[q].met : ver[e] > 0
      BY <1>3, <1>4, <1>5 DEF IngestInv, VersionInv
    <2> QED  BY <1>1, <2>1, <2>2, <2>3, <2>4 DEF IngestInv, VersionInv
  <1>9. StampInv'  BY <1>1, <1>2 DEF IngestInv, StampInv, Ingest!Stored
  <1>10. PagedInv'
    <2>1. \A q, n : Behind(q, n)' <=> Behind(q, n)  BY <1>1 DEF Behind
    <2>2. Behind(rec, 0)  BY <1>3, <1>4, <1>2 DEF Behind
    <2>3. ASSUME NEW q \in Runs
          PROVE  /\ run'[q].at = "idle" => run'[q].met = {}
                 /\ run'[q].at = "page" => run'[q].skip < MaxEvents
                 /\ run'[q].at = "page" /\ ~run'[q].shrunk => Behind(run'[q], run'[q].skip)
                 /\ run'[q].at = "commit" /\ ~run'[q].shrunk => Behind(run'[q], MaxEvents)
      <3>1. CASE q = r  BY <3>1, <1>2, <1>4, <1>5, <2>2
      <3>2. CASE q # r  BY <3>2, <1>5 DEF IngestInv, PagedInv
      <3> QED  BY <3>1, <3>2
    <2> QED  BY <2>1, <2>3 DEF PagedInv
  <1>11. ReadInv'
    <2> SUFFICES ASSUME NEW p \in Runs, NEW q \in Runs, NEW e \in run'[p].met,
                        run'[p].started <= run'[q].started, run'[q].rows[e] # 0
                 PROVE  run'[q].rows[e] = ver[e]
      BY <1>1 DEF ReadInv
    <2>1. e \in Ids  BY <1>3, <1>4, <1>5, RunFields DEF IngestInv
    <2>2. q # r  BY <2>1, <1>4, <1>5
    <2>3. p # r  BY <2>2, <1>1, <1>2, <1>4, <1>5, <1>6
    <2> QED  BY <2>2, <2>3, <1>5 DEF IngestInv, ReadInv
  <1>12. StoredInv'
    <2> SUFFICES ASSUME NEW p \in Runs, NEW e \in run'[p].met,
                        ~dated, db[e].by = "ingest", run'[p].started <= db[e].stamp
                 PROVE  db[e].ver = ver[e]
      BY <1>1 DEF StoredInv
    <2>1. e \in Ids  BY <1>3, <1>4, <1>5, RunFields DEF IngestInv
    <2>2. db[e].stamp <= clock /\ db[e].stamp \in Nat  BY <2>1, <1>2 DEF IngestInv, StampInv, Ingest!Stored
    <2>3. p # r  BY <2>2, <1>1, <1>2, <1>4, <1>5
    <2> QED  BY <2>3, <1>5 DEF IngestInv, StoredInv
  <1> QED  BY <1>7, <1>8, <1>9, <1>10, <1>11, <1>12 DEF IngestInv

\* What a commit makes of a row.
LEMMA CommitRows ==
    ASSUME Ingest!EventIngestAssumption, IngestInv, NEW r \in Runs, Ingest!Commit(r)
    PROVE  /\ db' \in [Ids -> Ingest!Stored]
           /\ \A e \in Ids :
                 \/ db'[e] = db[e] /\ (run[r].rows[e] = 0 \/ (IF dated THEN run[r].rows[e] ELSE run[r].started) < db[e].stamp)
                 \/ /\ run[r].rows[e] # 0 /\ db'[e].ver = run[r].rows[e] /\ db'[e].by = "ingest"
                    /\ db'[e].stamp = IF dated THEN run[r].rows[e] ELSE run[r].started
                    /\ db[e].stamp <= db'[e].stamp
  <1>1. /\ run[r].rows \in [Ids -> 0..MaxClock] /\ run[r].started \in 0..MaxClock
        /\ db \in [Ids -> Ingest!Stored]
    BY DEF IngestInv, IngestTypeInv, RunRecords
  <1> DEFINE row(e) == Ingest!Row(r, e)
  <1>2. \A e \in Ids : /\ row(e) \in Ingest!Stored /\ row(e).ver = run[r].rows[e] /\ row(e).by = "ingest"
                       /\ row(e).stamp = IF dated THEN run[r].rows[e] ELSE run[r].started
                       /\ row(e).stamp \in Nat /\ db[e].stamp \in Nat
    BY <1>1 DEF Ingest!Row, Ingest!Stored
  <1>3. db' = [e \in Ids |-> IF run[r].rows[e] # 0 /\ row(e).stamp >= db[e].stamp THEN row(e) ELSE db[e]]
    BY DEF Ingest!Commit
  <1> HIDE DEF row
  <1>4. ASSUME NEW e \in Ids
        PROVE  \/ db'[e] = db[e] /\ (run[r].rows[e] = 0 \/ row(e).stamp < db[e].stamp)
               \/ run[r].rows[e] # 0 /\ db'[e] = row(e) /\ db[e].stamp <= row(e).stamp
    BY <1>2, <1>3
  <1>5. db' \in [Ids -> Ingest!Stored]  BY <1>1, <1>2, <1>3
  <1>6. ASSUME NEW e \in Ids
        PROVE  \/ db'[e] = db[e] /\ (run[r].rows[e] = 0 \/ (IF dated THEN run[r].rows[e] ELSE run[r].started) < db[e].stamp)
               \/ /\ run[r].rows[e] # 0 /\ db'[e].ver = run[r].rows[e] /\ db'[e].by = "ingest"
                  /\ db'[e].stamp = IF dated THEN run[r].rows[e] ELSE run[r].started
                  /\ db[e].stamp <= db'[e].stamp
    <2>1. CASE db'[e] = db[e] /\ (run[r].rows[e] = 0 \/ row(e).stamp < db[e].stamp)
      BY <2>1, <1>2
    <2>2. CASE run[r].rows[e] # 0 /\ db'[e] = row(e) /\ db[e].stamp <= row(e).stamp
      BY <2>2, <1>2
    <2> QED  BY <1>4, <2>1, <2>2
  <1> QED  BY <1>5, <1>6

LEMMA CommitKept ==
    ASSUME Ingest!EventIngestAssumption, IngestInv, NEW r \in Runs, Ingest!Commit(r)
    PROVE  IngestInv'
  <1>1. run' = [run EXCEPT ![r] = Ingest!NoRun] /\ UNCHANGED <<clock, list, ver, dated, sync>>
    BY DEF Ingest!Commit
  <1>2. run' \in [Runs -> RunRecords] /\ VersionInv' /\ PagedInv' /\ ReadInv'
    BY <1>1, NoRunFields, OneRun
  <1>3. IngestTypeInv'  BY <1>1, <1>2, CommitRows DEF IngestInv, IngestTypeInv
  <1>4. StampInv'
    <2> SUFFICES ASSUME NEW e \in Ids
                 PROVE  /\ db'[e].ver <= ver[e] /\ db'[e].stamp <= clock
                        /\ dated => db'[e].stamp = db'[e].ver
                        /\ db'[e].by = "none" => db'[e].stamp = 0
      BY <1>1 DEF StampInv
    <2>1. /\ run[r].rows[e] <= ver[e] /\ ver[e] <= clock /\ run[r].started <= clock
          /\ run[r].rows[e] \in Nat /\ ver[e] \in Nat /\ clock \in Nat
      BY RunFields DEF IngestInv, VersionInv, IngestTypeInv
    <2>2. CASE db'[e] = db[e]  BY <2>2 DEF IngestInv, StampInv
    <2>3. CASE db'[e] # db[e]
      <3>1. /\ db'[e].ver = run[r].rows[e] /\ db'[e].by = "ingest"
            /\ db'[e].stamp = IF dated THEN run[r].rows[e] ELSE run[r].started
        BY <2>3, CommitRows
      <3> QED  BY <3>1, <2>1
    <2> QED  BY <2>2, <2>3
  <1>5. StoredInv'
    <2> SUFFICES ASSUME NEW p \in Runs, NEW e \in run'[p].met,
                        ~dated, db'[e].by = "ingest", run'[p].started <= db'[e].stamp
                 PROVE  db'[e].ver = ver[e]
      BY <1>1 DEF StoredInv
    <2>1. p # r /\ run'[p] = run[p]  BY <1>1, NoRunFields DEF IngestInv, IngestTypeInv
    <2>2. e \in Ids  BY <2>1, RunFields DEF IngestInv
    <2>3. CASE db'[e] = db[e]  BY <2>1, <2>3 DEF IngestInv, StoredInv
    <2>4. CASE db'[e] # db[e]
      <3>1. run[r].rows[e] # 0 /\ db'[e].ver = run[r].rows[e] /\ db'[e].stamp = run[r].started
        BY <2>2, <2>4, CommitRows
      <3> QED  BY <3>1, <2>1 DEF IngestInv, ReadInv
    <2> QED  BY <2>3, <2>4
  <1> QED  BY <1>2, <1>3, <1>4, <1>5 DEF IngestInv

\* An event changes, or leaves: the runs under way do not count on it any more.
LEMMA RunsDisturbed ==
    ASSUME IngestTypeInv, NEW e \in Ids, NEW left \in BOOLEAN, run' = Ingest!Disturbed(e, left)
    PROVE  /\ run' \in [Runs -> RunRecords]
           /\ \A r \in Runs :
                 /\ run'[r].at = run[r].at /\ run'[r].started = run[r].started
                 /\ run'[r].skip = run[r].skip /\ run'[r].rows = run[r].rows
                 /\ run'[r].met \subseteq run[r].met
                 /\ run[r].at # "idle" => e \notin run'[r].met /\ run'[r].shrunk = (run[r].shrunk \/ left)
  <1>1. ASSUME NEW r \in Runs
        PROVE  /\ run'[r] \in RunRecords
               /\ run'[r].at = run[r].at /\ run'[r].started = run[r].started
               /\ run'[r].skip = run[r].skip /\ run'[r].rows = run[r].rows
               /\ run'[r].met \subseteq run[r].met
               /\ run[r].at # "idle" => e \notin run'[r].met /\ run'[r].shrunk = (run[r].shrunk \/ left)
    <2> DEFINE rec == run[r]
    <2>1. rec \in RunRecords  BY RunFields
    <2>2. run'[r] = IF rec.at = "idle" THEN rec
                    ELSE [rec EXCEPT !.met = rec.met \ {e}, !.shrunk = (rec.shrunk \/ left)]
      BY DEF Ingest!Disturbed
    <2> HIDE DEF rec
    <2>3. CASE rec.at = "idle"
      <3>1. run'[r] = rec  BY <2>2, <2>3
      <3> QED  BY <2>1, <2>3, <3>1 DEF rec
    <2>4. CASE rec.at # "idle"
      <3>1. rec.met \ {e} \subseteq Ids /\ (rec.shrunk \/ left) \in BOOLEAN  BY <2>1 DEF RunRecords
      <3>2. run'[r] = [rec EXCEPT !.met = rec.met \ {e}, !.shrunk = (rec.shrunk \/ left)]  BY <2>2, <2>4
      <3>3. run'[r] \in RunRecords  BY <2>1, <3>1, <3>2 DEF RunRecords
      <3>4. /\ run'[r].at = rec.at /\ run'[r].started = rec.started
            /\ run'[r].skip = rec.skip /\ run'[r].rows = rec.rows
            /\ run'[r].met = rec.met \ {e} /\ run'[r].shrunk = (rec.shrunk \/ left)
        BY <2>1, <3>2 DEF RunRecords
      <3> QED  BY <3>3, <3>4 DEF rec
    <2> QED  BY <2>3, <2>4
  <1>2. run' = [r \in Runs |-> run'[r]]  BY DEF Ingest!Disturbed
  <1> QED  BY <1>1, <1>2

\* No other event comes nearer to the head of the list when one is put there.
LEMMA ListChanged ==
    ASSUME IngestTypeInv, NEW e \in Ids, list' = <<e>> \o Ingest!RemoveFirst(list, e)
    PROVE  /\ list' \in Seq(Ids) /\ Apart(list')
           /\ \A k \in 1..Len(list') : list'[k] = e \/ \E i \in 1..Len(list) : list'[k] = list[i]
           /\ \A i \in 1..Len(list) : list[i] # e => \E k \in 1..Len(list') : i <= k /\ list'[k] = list[i]
  <1> DEFINE t == Ingest!RemoveFirst(list, e)
  <1>1. /\ t \in Seq(Ids) /\ Apart(t)
        /\ \A k \in 1..Len(t) : t[k] # e /\ \E i \in 1..Len(list) : t[k] = list[i]
        /\ \A i \in 1..Len(list) : list[i] # e => \E k \in 1..Len(t) : k <= i /\ i <= k + 1 /\ t[k] = list[i]
    BY WithoutFirst DEF IngestTypeInv
  <1>2. list' = <<e>> \o t  OBVIOUS
  <1> HIDE DEF t
  <1>3. /\ list' \in Seq(Ids) /\ Len(list') = Len(t) + 1
        /\ list'[1] = e /\ \A k \in 2..Len(list') : list'[k] = t[k - 1] /\ k - 1 \in 1..Len(t)
        /\ Len(t) \in Nat
    <2> DEFINE h == <<e>>
               l == h \o t
    <2>1. h \in Seq(Ids) /\ Len(h) = 1 /\ h[1] = e  OBVIOUS
    <2>2. list' = l  BY <1>2
    <2> HIDE DEF h
    <2>t. t \in Seq(Ids)  BY <1>1
    <2>3. /\ l \in Seq(Ids) /\ Len(l) = Len(h) + Len(t)
          /\ \A i \in 1..(Len(h) + Len(t)) : l[i] = IF i <= Len(h) THEN h[i] ELSE t[i - Len(h)]
      BY ONLY <2>1, <2>t, ConcatProperties
    <2> HIDE DEF l
    <2>4. /\ list' \in Seq(Ids) /\ Len(list') = 1 + Len(t)
          /\ \A i \in 1..(1 + Len(t)) : list'[i] = IF i <= 1 THEN h[i] ELSE t[i - 1]
      BY <2>1, <2>2, <2>3
    <2>5. Len(t) \in Nat  BY <1>1
    <2>6. Len(list') = Len(t) + 1 /\ 1 \in 1..(1 + Len(t))  BY <2>4, <2>5
    <2>7. \A k \in 2..Len(list') : k \in 1..(1 + Len(t)) /\ ~(k <= 1) /\ k - 1 \in 1..Len(t)  BY <2>5, <2>6
    <2> QED  BY <2>1, <2>4, <2>5, <2>6, <2>7
  <1>4. \A k \in 1..Len(list') : k = 1 \/ k \in 2..Len(list')  BY <1>3
  <1>5. Apart(list')
    <2> SUFFICES ASSUME NEW i \in 1..Len(list'), NEW j \in 1..Len(list'), list'[i] = list'[j]  PROVE i = j
      BY DEF Apart
    <2>1. CASE i = 1 \/ j = 1  BY <2>1, <1>1, <1>3, <1>4
    <2>2. CASE i # 1 /\ j # 1
      <3>1. /\ i \in 2..Len(list') /\ j \in 2..Len(list')
            /\ list'[i] = t[i - 1] /\ list'[j] = t[j - 1] /\ i - 1 \in 1..Len(t) /\ j - 1 \in 1..Len(t)
        BY <2>2, <1>3, <1>4
      <3>2. i - 1 = j - 1  BY <3>1, <1>1 DEF Apart
      <3> QED  BY <3>1, <3>2
    <2> QED  BY <2>1, <2>2
  <1>6. \A k \in 1..Len(list') : list'[k] = e \/ \E i \in 1..Len(list) : list'[k] = list[i]
    BY <1>1, <1>3, <1>4
  <1>7. ASSUME NEW i \in 1..Len(list), list[i] # e
        PROVE  \E k \in 1..Len(list') : i <= k /\ list'[k] = list[i]
    <2>1. PICK k \in 1..Len(t) : i <= k + 1 /\ t[k] = list[i]  BY <1>1, <1>7
    <2>2. k + 1 \in 2..Len(list') /\ (k + 1) - 1 = k  BY <2>1, <1>3
    <2>3. list'[k + 1] = list[i]  BY <2>1, <2>2, <1>3
    <2>4. k + 1 \in 1..Len(list')  BY <2>2
    <2> QED  BY <2>1, <2>3, <2>4
  <1> QED  BY <1>3, <1>5, <1>6, <1>7

LEMMA ChangeKept ==
    ASSUME Ingest!EventIngestAssumption, IngestInv, NEW e \in Ids, Ingest!Change(e)
    PROVE  IngestInv'
  <1>1. /\ clock < MaxClock /\ clock' = clock + 1 /\ list' = <<e>> \o Ingest!RemoveFirst(list, e)
        /\ ver' = [ver EXCEPT ![e] = clock'] /\ run' = Ingest!Disturbed(e, FALSE)
        /\ UNCHANGED <<dated, db, sync>>
    BY DEF Ingest!Change, Ingest!Tick
  <1>2. /\ clock \in 1..MaxClock /\ clock' \in 1..MaxClock /\ ver \in [Ids -> 0..MaxClock]
        /\ clock <= clock' /\ clock' \in 0..MaxClock /\ clock' > 0
    BY <1>1 DEF IngestInv, IngestTypeInv, Ingest!EventIngestAssumption
  <1>3. /\ ver' \in [Ids -> 0..MaxClock] /\ ver'[e] = clock'
        /\ \A f \in Ids \ {e} : ver'[f] = ver[f]
    BY <1>1, <1>2
  <1>4. \A f \in Ids : ver[f] <= ver'[f] /\ ver[f] \in Nat /\ ver'[f] \in Nat /\ ver'[f] <= clock'
    BY <1>2, <1>3 DEF IngestInv, VersionInv
  <1>5. /\ run' \in [Runs -> RunRecords]
        /\ \A r \in Runs :
              /\ run'[r].at = run[r].at /\ run'[r].started = run[r].started
              /\ run'[r].skip = run[r].skip /\ run'[r].rows = run[r].rows
              /\ run'[r].met \subseteq run[r].met
              /\ run[r].at # "idle" => e \notin run'[r].met /\ run'[r].shrunk = (run[r].shrunk \/ FALSE)
    BY <1>1, RunsDisturbed DEF IngestInv
  <1>6. \A r \in Runs : e \notin run'[r].met /\ run[r].met \subseteq Ids
    BY <1>5, RunFields DEF IngestInv, PagedInv
  <1>7. /\ list' \in Seq(Ids) /\ Apart(list')
        /\ \A k \in 1..Len(list') : list'[k] = e \/ \E i \in 1..Len(list) : list'[k] = list[i]
        /\ \A i \in 1..Len(list) : list[i] # e => \E k \in 1..Len(list') : i <= k /\ list'[k] = list[i]
    BY <1>1, ListChanged DEF IngestInv
  <1>8. IngestTypeInv'  BY <1>1, <1>2, <1>3, <1>5, <1>7 DEF IngestInv, IngestTypeInv
  <1>9. VersionInv'
    <2>1. ASSUME NEW k \in 1..Len(list')  PROVE ver'[list'[k]] > 0
      <3>1. CASE list'[k] = e  BY <3>1, <1>2, <1>3
      <3>2. CASE list'[k] # e
        <4>1. PICK i \in 1..Len(list) : list'[k] = list[i]  BY <3>2, <1>7
        <4>2. ver[list[i]] > 0  BY DEF IngestInv, VersionInv
        <4>3. list[i] \in Ids
          <5>1. list \in Seq(Ids)  BY DEF IngestInv, IngestTypeInv
          <5> QED  BY <5>1
        <4> QED  BY <4>1, <4>2, <4>3, <1>4
      <3> QED  BY <3>1, <3>2
    <2>2. ASSUME NEW r \in Runs
          PROVE  /\ run'[r].started <= clock' /\ \A f \in Ids : run'[r].rows[f] <= ver'[f]
                 /\ \A f \in run'[r].met : ver'[f] > 0
      <3>1. run[r].started <= clock /\ run[r].started \in Nat
        BY RunFields DEF IngestInv, VersionInv
      <3>2. run'[r].started <= clock'  BY <3>1, <1>5, <1>2
      <3>3. ASSUME NEW f \in Ids  PROVE run'[r].rows[f] <= ver'[f]
        <4>1. run[r].rows[f] <= ver[f] /\ run[r].rows[f] \in Nat  BY RunFields DEF IngestInv, VersionInv
        <4> QED  BY <4>1, <1>4, <1>5
      <3>4. ASSUME NEW f \in run'[r].met  PROVE ver'[f] > 0
        <4>1. f \in Ids /\ f # e /\ ver[f] > 0  BY <1>5, <1>6 DEF IngestInv, VersionInv
        <4> QED  BY <4>1, <1>3
      <3> QED  BY <3>2, <3>3, <3>4
    <2>3. sync.ver <= ver'[sync.id]
      <3>1. sync.ver <= ver[sync.id] /\ sync.id \in Ids /\ sync.ver \in Nat
        BY DEF IngestInv, VersionInv, IngestTypeInv
      <3> QED  BY <3>1, <1>4
    <2>4. sync.at # "write" => sync.ver = 0  BY DEF IngestInv, VersionInv
    <2> QED  BY <1>1, <1>4, <2>1, <2>2, <2>3, <2>4 DEF VersionInv
  <1>10. StampInv'
    <2>1. ASSUME NEW f \in Ids  PROVE db[f].ver <= ver'[f] /\ db[f].stamp <= clock'
      <3>1. /\ db[f].ver <= ver[f] /\ db[f].stamp <= clock /\ db[f].ver \in Nat /\ db[f].stamp \in Nat
        BY DEF IngestInv, StampInv, IngestTypeInv, Ingest!Stored
      <3> QED  BY <3>1, <1>2, <1>4
    <2> QED  BY <1>1, <2>1 DEF IngestInv, StampInv
  <1>11. PagedInv'
    <2> SUFFICES ASSUME NEW r \in Runs
                 PROVE  /\ run'[r].at = "idle" => run'[r].met = {}
                        /\ run'[r].at = "page" => run'[r].skip < MaxEvents
                        /\ run'[r].at = "page" /\ ~run'[r].shrunk => Behind(run[r], run[r].skip)'
                        /\ run'[r].at = "commit" /\ ~run'[r].shrunk => Behind(run[r], MaxEvents)'
      BY DEF PagedInv
    <2>1. ASSUME NEW n \in Nat, Behind(run[r], n), run[r].at # "idle"
          PROVE  \A f \in run'[r].met \ Incomplete :
                     run'[r].rows[f] = ver'[f] \/ \E k \in 1..Len(list') : n < k /\ list'[k] = f
      <3> SUFFICES ASSUME NEW f \in run'[r].met \ Incomplete, run'[r].rows[f] # ver'[f]
                   PROVE  \E k \in 1..Len(list') : n < k /\ list'[k] = f
        OBVIOUS
      <3>1. f # e /\ f \in Ids /\ f \in run[r].met \ Incomplete  BY <1>5, <1>6
      <3>2. run[r].rows[f] # ver[f]  BY <3>1, <1>3, <1>5
      <3>3. PICK i \in 1..Len(list) : n < i /\ list[i] = f  BY <2>1, <3>1, <3>2 DEF Behind
      <3>4. PICK k \in 1..Len(list') : i <= k /\ list'[k] = list[i]  BY <1>7, <3>1, <3>3
      <3>5. n < k  BY <3>3, <3>4
      <3> QED  BY <3>3, <3>4, <3>5
    <2>2. run[r].skip \in Nat /\ MaxEvents \in Nat  BY RunFields DEF IngestInv, Ingest!EventIngestAssumption
    <2>3. /\ run[r].at = "page" /\ ~run[r].shrunk => Behind(run[r], run[r].skip)
          /\ run[r].at = "commit" /\ ~run[r].shrunk => Behind(run[r], MaxEvents)
          /\ run[r].at = "idle" => run[r].met = {}
          /\ run[r].at = "page" => run[r].skip < MaxEvents
      BY DEF IngestInv, PagedInv
    <2>4. run'[r].at = "page" /\ ~run'[r].shrunk => Behind(run[r], run[r].skip)'
      <3> SUFFICES ASSUME run'[r].at = "page", ~run'[r].shrunk  PROVE Behind(run[r], run[r].skip)'
        OBVIOUS
      <3>1. run[r].at = "page" /\ ~run[r].shrunk  BY <1>5
      <3>2. Behind(run[r], run[r].skip)  BY <2>3, <3>1
      <3>3. \A f \in run'[r].met \ Incomplete :
                run'[r].rows[f] = ver'[f] \/ \E k \in 1..Len(list') : run'[r].skip < k /\ list'[k] = f
        BY <2>1, <2>2, <3>1, <3>2, <1>5
      <3> QED  BY <3>3 DEF Behind
    <2>5. run'[r].at = "commit" /\ ~run'[r].shrunk => Behind(run[r], MaxEvents)'
      <3> SUFFICES ASSUME run'[r].at = "commit", ~run'[r].shrunk  PROVE Behind(run[r], MaxEvents)'
        OBVIOUS
      <3>1. run[r].at = "commit" /\ ~run[r].shrunk  BY <1>5
      <3>2. Behind(run[r], MaxEvents)  BY <2>3, <3>1
      <3>3. \A f \in run'[r].met \ Incomplete :
                run'[r].rows[f] = ver'[f] \/ \E k \in 1..Len(list') : MaxEvents < k /\ list'[k] = f
        BY <2>1, <2>2, <3>1, <3>2
      <3> QED  BY <3>3 DEF Behind
    <2> QED  BY <2>3, <2>4, <2>5, <1>5
  <1>12. ReadInv'
    <2> SUFFICES ASSUME NEW p \in Runs, NEW q \in Runs, NEW f \in run'[p].met,
                        run'[p].started <= run'[q].started, run'[q].rows[f] # 0
                 PROVE  run'[q].rows[f] = ver'[f]
      BY DEF ReadInv
    <2>1. f \in run[p].met /\ f \in Ids \ {e}  BY <1>5, <1>6
    <2>2. run[q].rows[f] = ver[f]  BY <2>1, <1>5 DEF IngestInv, ReadInv
    <2> QED  BY <2>1, <2>2, <1>3, <1>5
  <1>13. StoredInv'
    <2> SUFFICES ASSUME NEW p \in Runs, NEW f \in run'[p].met,
                        ~dated, db[f].by = "ingest", run'[p].started <= db[f].stamp
                 PROVE  db[f].ver = ver'[f]
      BY <1>1 DEF StoredInv
    <2>1. f \in run[p].met /\ f \in Ids \ {e}  BY <1>5, <1>6
    <2>2. db[f].ver = ver[f]  BY <2>1, <1>5 DEF IngestInv, StoredInv
    <2> QED  BY <2>1, <2>2, <1>3
  <1> QED  BY <1>8, <1>9, <1>10, <1>11, <1>12, <1>13 DEF IngestInv

LEMMA LeaveKept ==
    ASSUME Ingest!EventIngestAssumption, IngestInv, NEW e \in Ids, Ingest!Leave(e)
    PROVE  IngestInv'
  <1>1. /\ list' = Ingest!RemoveFirst(list, e) /\ run' = Ingest!Disturbed(e, TRUE)
        /\ UNCHANGED <<clock, ver, dated, db, sync>>
    BY DEF Ingest!Leave
  <1>2. /\ run' \in [Runs -> RunRecords]
        /\ \A r \in Runs :
              /\ run'[r].at = run[r].at /\ run'[r].started = run[r].started
              /\ run'[r].skip = run[r].skip /\ run'[r].rows = run[r].rows
              /\ run'[r].met \subseteq run[r].met
              /\ run[r].at # "idle" => e \notin run'[r].met /\ run'[r].shrunk = (run[r].shrunk \/ TRUE)
    BY <1>1, RunsDisturbed DEF IngestInv
  <1>3. /\ list' \in Seq(Ids) /\ Apart(list')
        /\ \A k \in 1..Len(list') : \E i \in 1..Len(list) : list'[k] = list[i]
    <2> DEFINE t == Ingest!RemoveFirst(list, e)
    <2>1. /\ t \in Seq(Ids) /\ Apart(t)
          /\ \A k \in 1..Len(t) : t[k] # e /\ \E i \in 1..Len(list) : t[k] = list[i]
      BY WithoutFirst DEF IngestInv, IngestTypeInv
    <2>2. list' = t  BY <1>1
    <2> HIDE DEF t
    <2> QED  BY <2>1, <2>2 DEF Apart
  <1>4. IngestTypeInv'  BY <1>1, <1>2, <1>3 DEF IngestInv, IngestTypeInv
  <1>5. VersionInv'
    <2>1. \A k \in 1..Len(list') : ver[list'[k]] > 0  BY <1>3 DEF IngestInv, VersionInv
    <2>2. \A r \in Runs : /\ run'[r].started <= clock /\ \A f \in Ids : run'[r].rows[f] <= ver[f]
                          /\ \A f \in run'[r].met : ver[f] > 0
      BY <1>2 DEF IngestInv, VersionInv
    <2> QED  BY <1>1, <2>1, <2>2 DEF IngestInv, VersionInv
  <1>6. StampInv'  BY <1>1 DEF IngestInv, StampInv
  <1>7. PagedInv'
    <2>1. \A r \in Runs : /\ run'[r].at = "idle" => run'[r].met = {}
                          /\ run'[r].at = "page" => run'[r].skip < MaxEvents
                          /\ run'[r].at # "idle" => run'[r].shrunk
      BY <1>2 DEF IngestInv, PagedInv
    <2> QED  BY <2>1 DEF PagedInv
  <1>8. ReadInv'
    <2> SUFFICES ASSUME NEW p \in Runs, NEW q \in Runs, NEW f \in run'[p].met,
                        run'[p].started <= run'[q].started, run'[q].rows[f] # 0
                 PROVE  run'[q].rows[f] = ver[f]
      BY <1>1 DEF ReadInv
    <2> QED  BY <1>2 DEF IngestInv, ReadInv
  <1>9. StoredInv'
    <2> SUFFICES ASSUME NEW p \in Runs, NEW f \in run'[p].met,
                        ~dated, db[f].by = "ingest", run'[p].started <= db[f].stamp
                 PROVE  db[f].ver = ver[f]
      BY <1>1 DEF StoredInv
    <2> QED  BY <1>2 DEF IngestInv, StoredInv
  <1> QED  BY <1>4, <1>5, <1>6, <1>7, <1>8, <1>9 DEF IngestInv

LEMMA SyncKept ==
    ASSUME Ingest!EventIngestAssumption, IngestInv,
           (\E e \in Ids : Ingest!Sync(e)) \/ Ingest!SyncFetch \/ Ingest!SyncWrite
    PROVE  IngestInv'
  <1>0. /\ sync \in [at : {"idle", "fetch", "write"}, id : Ids, ver : 0..MaxClock]
        /\ sync.id \in Ids /\ sync.ver \in 0..MaxClock /\ sync.ver <= ver[sync.id]
        /\ sync.at # "write" => sync.ver = 0
        /\ ver \in [Ids -> 0..MaxClock] /\ clock \in 1..MaxClock /\ \A e \in Ids : ver[e] <= clock
        /\ db \in [Ids -> Ingest!Stored]
    BY DEF IngestInv, IngestTypeInv, VersionInv
  <1>n. /\ Ingest!NoSync \in [at : {"idle", "fetch", "write"}, id : Ids, ver : 0..MaxClock]
        /\ Ingest!NoSync.id \in Ids /\ Ingest!NoSync.ver = 0
        /\ \A e \in Ids : 0 <= ver[e]
    <2>1. (CHOOSE e \in Ids : TRUE) \in Ids  BY <1>0
    <2>2. 0 \in 0..MaxClock  BY DEF Ingest!EventIngestAssumption
    <2> QED  BY <1>0, <2>1, <2>2 DEF Ingest!NoSync
  <1>1. ASSUME sync' \in [at : {"idle", "fetch", "write"}, id : Ids, ver : 0..MaxClock],
               sync'.ver <= ver[sync'.id], sync'.at # "write" => sync'.ver = 0,
               UNCHANGED <<clock, list, ver, dated, db, run>>
        PROVE  IngestInv'
    <2>1. IngestTypeInv' /\ VersionInv' /\ StampInv' /\ ReadInv' /\ StoredInv'
      BY <1>1 DEF IngestInv, IngestTypeInv, VersionInv, StampInv, ReadInv, StoredInv
    <2>2. PagedInv'  BY <1>1 DEF IngestInv, PagedInv, Behind
    <2> QED  BY <2>1, <2>2 DEF IngestInv
  <1>2. CASE \E e \in Ids : Ingest!Sync(e)
    <2>1. PICK e \in Ids : Ingest!Sync(e)  BY <1>2
    <2>2. sync' = [sync EXCEPT !.at = "fetch", !.id = e] /\ UNCHANGED <<clock, list, ver, dated, db, run>>
          /\ sync.at = "idle"
      BY <2>1 DEF Ingest!Sync
    <2>3. /\ sync' \in [at : {"idle", "fetch", "write"}, id : Ids, ver : 0..MaxClock]
          /\ sync'.ver = sync.ver /\ sync'.id = e
      BY <2>2, <1>0
    <2>4. sync'.ver = 0 /\ sync'.ver <= ver[sync'.id]  BY <2>2, <2>3, <1>0, <1>n
    <2> QED  BY <2>2, <2>3, <2>4, <1>1
  <1>3. CASE Ingest!SyncFetch
    <2>1. sync' \in {Ingest!NoSync, [sync EXCEPT !.at = "write", !.ver = ver[sync.id]]}
          /\ UNCHANGED <<clock, list, ver, dated, db, run>>
      BY <1>3 DEF Ingest!SyncFetch
    <2>2. CASE sync' = Ingest!NoSync  BY <2>1, <2>2, <1>0, <1>1, <1>n
    <2>3. CASE sync' = [sync EXCEPT !.at = "write", !.ver = ver[sync.id]]
      <3>1. /\ sync' \in [at : {"idle", "fetch", "write"}, id : Ids, ver : 0..MaxClock]
            /\ sync'.id = sync.id /\ sync'.ver = ver[sync.id] /\ sync'.at = "write"
        BY <2>3, <1>0
      <3>2. sync'.ver <= ver[sync'.id]  BY <3>1, <1>0
      <3> QED  BY <2>1, <3>1, <3>2, <1>1
    <2> QED  BY <2>1, <2>2, <2>3
  <1>4. CASE Ingest!SyncWrite
    <2> DEFINE id == sync.id
               row == [ver |-> sync.ver, stamp |-> IF dated THEN sync.ver ELSE clock', by |-> "sync"]
    <2>1. /\ clock < MaxClock /\ clock' = clock + 1 /\ db' = [db EXCEPT ![id] = row]
          /\ sync' = Ingest!NoSync /\ UNCHANGED <<list, ver, dated, run>>
      BY <1>4 DEF Ingest!SyncWrite, Ingest!Tick
    <2>2. clock' \in 1..MaxClock /\ clock' \in 0..MaxClock /\ clock <= clock'
      BY <2>1, <1>0 DEF Ingest!EventIngestAssumption
    <2>3. /\ row \in Ingest!Stored /\ row.ver = sync.ver /\ row.by = "sync"
          /\ row.stamp = IF dated THEN sync.ver ELSE clock'
      BY <2>2, <1>0 DEF Ingest!Stored
    <2>4. id \in Ids /\ sync.ver <= ver[id] /\ ver[id] <= clock  BY <1>0
    <2> HIDE DEF row, id
    <2>5. db' \in [Ids -> Ingest!Stored] /\ db'[id] = row /\ \A f \in Ids \ {id} : db'[f] = db[f]
      BY <2>1, <2>3, <2>4, <1>0
    <2>6. IngestTypeInv'  BY <2>1, <2>2, <2>5, <1>n DEF IngestInv, IngestTypeInv
    <2>7. VersionInv'
      <3>1. \A e \in Ids : ver[e] <= clock'
        <4>1. \A e \in Ids : ver[e] <= clock /\ ver[e] \in Nat /\ clock \in Nat /\ clock' \in Nat  BY <1>0, <2>2
        <4> QED  BY <4>1, <2>2
      <3>2. ASSUME NEW r \in Runs  PROVE run[r].started <= clock'
        <4>1. run[r].started <= clock /\ run[r].started \in Nat  BY RunFields DEF IngestInv, VersionInv
        <4> QED  BY <4>1, <2>2, <1>0
      <3> QED  BY <2>1, <3>1, <3>2, <1>n DEF IngestInv, VersionInv
    <2>8. StampInv'
      <3> SUFFICES ASSUME NEW f \in Ids
                   PROVE  /\ db'[f].ver <= ver[f] /\ db'[f].stamp <= clock'
                          /\ dated => db'[f].stamp = db'[f].ver
                          /\ db'[f].by = "none" => db'[f].stamp = 0
        BY <2>1 DEF StampInv
      <3>1. CASE f = id
        <4>1. row.stamp <= clock'  BY <2>2, <2>3, <2>4, <1>0
        <4> QED  BY <3>1, <4>1, <2>3, <2>4, <2>5
      <3>2. CASE f # id
        <4>1. db[f].stamp \in Nat /\ db[f].stamp <= clock  BY <1>0 DEF IngestInv, StampInv, Ingest!Stored
        <4>2. db[f].stamp <= clock'  BY <4>1, <2>2, <1>0
        <4> QED  BY <3>2, <4>2, <2>5 DEF IngestInv, StampInv
      <3> QED  BY <3>1, <3>2
    <2>9. PagedInv' /\ ReadInv'  BY <2>1 DEF IngestInv, PagedInv, ReadInv, Behind
    <2>10. StoredInv'
      <3> SUFFICES ASSUME NEW p \in Runs, NEW f \in run[p].met,
                          ~dated, db'[f].by = "ingest", run[p].started <= db'[f].stamp
                   PROVE  db'[f].ver = ver[f]
        BY <2>1 DEF StoredInv
      <3>1. f \in Ids  BY RunFields DEF IngestInv
      <3>2. f # id  BY <2>3, <2>5
      <3> QED  BY <3>1, <3>2, <2>5 DEF IngestInv, StoredInv
    <2> QED  BY <2>6, <2>7, <2>8, <2>9, <2>10 DEF IngestInv
  <1> QED  BY <1>2, <1>3, <1>4

LEMMA IngestBegins ==
    ASSUME Ingest!EventIngestAssumption, Ingest!Init
    PROVE  IngestInv
  <1>1. PICK first \in Ids : list = <<first>> /\ ver = [e \in Ids |-> IF e = first THEN 1 ELSE 0]
    BY DEF Ingest!Init
  <1>2. MaxClock \in Nat /\ MaxClock >= 1 /\ 1 \in 1..MaxClock /\ 0 \in 0..MaxClock /\ 1 \in 0..MaxClock
    BY DEF Ingest!EventIngestAssumption
  <1>3. clock = 1 /\ dated \in BOOLEAN /\ db = [e \in Ids |-> Ingest!None]
        /\ run = [r \in Runs |-> Ingest!NoRun] /\ sync = Ingest!NoSync
    BY DEF Ingest!Init
  <1>4. /\ Ingest!None \in Ingest!Stored /\ Ingest!None.ver = 0 /\ Ingest!None.stamp = 0
    BY <1>2 DEF Ingest!None, Ingest!Stored
  <1>5. /\ sync \in [at : {"idle", "fetch", "write"}, id : Ids, ver : 0..MaxClock] /\ sync.ver = 0 /\ sync.id \in Ids
    BY <1>1, <1>2, <1>3 DEF Ingest!NoSync
  <1>6. list \in Seq(Ids) /\ Apart(list) /\ \A i \in 1..Len(list) : list[i] = first
    BY <1>1 DEF Apart
  <1>7. ver \in [Ids -> 0..MaxClock] /\ ver[first] = 1 /\ \A e \in Ids : ver[e] <= 1 /\ 0 <= ver[e]
    BY <1>1, <1>2
  <1>8. \A r \in Runs : run[r] = Ingest!NoRun  BY <1>3
  <1>9. IngestTypeInv  BY <1>2, <1>3, <1>4, <1>5, <1>6, <1>7, NoRunFields DEF IngestTypeInv
  <1>10. VersionInv
    BY <1>3, <1>5, <1>6, <1>7, <1>8, NoRunFields DEF VersionInv
  <1>11. StampInv  BY <1>3, <1>4, <1>7 DEF StampInv
  <1>12. PagedInv /\ ReadInv /\ StoredInv
    BY <1>8, NoRunFields DEF PagedInv, ReadInv, StoredInv
  <1> QED  BY <1>9, <1>10, <1>11, <1>12 DEF IngestInv

LEMMA IngestKept ==
    ASSUME Ingest!EventIngestAssumption, IngestInv, [Ingest!Next]_ingestVars
    PROVE  IngestInv'
  <1>1. CASE UNCHANGED ingestVars
    BY <1>1 DEF ingestVars, IngestInv, IngestTypeInv, VersionInv, StampInv, PagedInv, ReadInv, StoredInv, Behind
  <1>2. CASE Ingest!Next
    BY <1>2, ChangeKept, LeaveKept, SyncKept, TriggerKept, PageKept, FailKept, CommitKept DEF Ingest!Next
  <1> QED  BY <1>1, <1>2

\* When a run is over, its transaction took nothing back.
LEMMA CommitsForward ==
    ASSUME Ingest!EventIngestAssumption, IngestInv, [Ingest!Next]_ingestVars, NEW r \in Runs
    PROVE  Ingest!NeverBack(r)
  <1> SUFFICES ASSUME run[r].at = "commit", run'[r].at = "idle", dated, NEW e \in Ids
               PROVE  db'[e].ver >= db[e].ver
    BY DEF Ingest!NeverBack
  <1>0. db[e].ver \in Nat /\ db[e].stamp = db[e].ver /\ dated \in BOOLEAN /\ run[r].rows[e] \in Nat
    BY RunFields DEF IngestInv, IngestTypeInv, StampInv, Ingest!Stored
  <1>1. CASE UNCHANGED db  BY <1>1, <1>0
  <1>2. CASE Ingest!SyncWrite
    <2>1. run' = run  BY <1>2 DEF Ingest!SyncWrite
    <2> QED  BY <2>1
  <1>3. ASSUME NEW q \in Runs, Ingest!Commit(q)  PROVE db'[e].ver >= db[e].ver
    <2>1. CASE db'[e] = db[e]  BY <2>1, <1>0
    <2>2. CASE db'[e] # db[e]
      <3>1. db'[e].ver = run[q].rows[e] /\ db'[e].stamp = run[q].rows[e] /\ db[e].stamp <= db'[e].stamp
        BY <1>3, <2>2, CommitRows
      <3>2. run[q].rows[e] \in Nat  BY RunFields DEF IngestInv
      <3> QED  BY <3>1, <3>2, <1>0
    <2> QED  BY <2>1, <2>2
  <1>4. CASE UNCHANGED ingestVars  BY <1>4, <1>1 DEF ingestVars
  <1>5. CASE Ingest!Next
    <2>1. UNCHANGED db \/ Ingest!SyncWrite \/ \E q \in Runs : Ingest!Commit(q)
      BY <1>5 DEF Ingest!Next, Ingest!Change, Ingest!Leave, Ingest!Sync, Ingest!Trigger, Ingest!Page,
                  Ingest!Fail, Ingest!SyncFetch
    <2> QED  BY <2>1, <1>1, <1>2, <1>3
  <1> QED  BY <1>4, <1>5

\* And it has brought the database up to date with what it met.
LEMMA CommitsUpToDate ==
    ASSUME Ingest!EventIngestAssumption, IngestInv, NEW r \in Runs
    PROVE  Ingest!CatchesUp(r)
  <1> SUFFICES ASSUME Ingest!Commit(r), ~run[r].shrunk, NEW e \in (run[r].met \cap Ingest!Window) \ Incomplete
               PROVE  db'[e].ver = ver[e] \/ (~dated /\ db[e].by = "sync")
    BY DEF Ingest!CatchesUp
  <1>1. run[r].at = "commit"  BY DEF Ingest!Commit
  <1>2. e \in Ids /\ ver[e] > 0 /\ ver[e] \in Nat
    BY RunFields DEF IngestInv, VersionInv, IngestTypeInv
  <1>3. run[r].rows[e] = ver[e]
    <2>1. PICK i \in 1..Ingest!LastOf(Len(list), MaxEvents) : list[i] = e  BY DEF Ingest!Window
    <2>2. Len(list) \in Nat /\ MaxEvents \in Nat  BY DEF IngestInv, IngestTypeInv, Ingest!EventIngestAssumption
    <2>3. i \in 1..Len(list) /\ i <= MaxEvents  BY <2>1, <2>2 DEF Ingest!LastOf
    <2>4. \A k \in 1..Len(list) : list[k] = e => k = i
      BY <2>1, <2>3 DEF IngestInv, IngestTypeInv, Apart
    <2>5. Behind(run[r], MaxEvents)  BY <1>1 DEF IngestInv, PagedInv
    <2>6. ~ \E k \in 1..Len(list) : MaxEvents < k /\ list[k] = e  BY <2>2, <2>3, <2>4
    <2> QED  BY <2>5, <2>6 DEF Behind
  <1>4. CASE db'[e] # db[e]  BY <1>2, <1>3, <1>4, CommitRows
  <1>5. CASE db'[e] = db[e] /\ ~((IF dated THEN run[r].rows[e] ELSE run[r].started) < db[e].stamp)
    <2>1. db'[e].ver = run[r].rows[e]  BY <1>2, <1>3, <1>5, CommitRows
    <2> QED  BY <2>1, <1>3
  <1>6. CASE db'[e] = db[e] /\ (IF dated THEN run[r].rows[e] ELSE run[r].started) < db[e].stamp
    <2>0. /\ db[e].ver \in Nat /\ db[e].stamp \in Nat /\ dated \in BOOLEAN /\ run[r].started \in Nat
          /\ db[e].by \in {"none", "ingest", "sync"}
      BY <1>2, RunFields DEF IngestInv, IngestTypeInv, Ingest!Stored
    <2>1. ~dated
      <3>1. dated => db[e].stamp = db[e].ver /\ db[e].ver <= ver[e]  BY <1>2 DEF IngestInv, StampInv
      <3> QED  BY <3>1, <1>2, <1>3, <1>6, <2>0
    <2>2. run[r].started < db[e].stamp  BY <1>6, <2>1
    <2>3. db[e].by # "none"  BY <2>2, <2>0, <1>2 DEF IngestInv, StampInv
    <2>4. CASE db[e].by = "ingest"
      <3>1. db[e].ver = ver[e]  BY <2>0, <2>1, <2>2, <2>4 DEF IngestInv, StoredInv
      <3> QED  BY <3>1, <1>6
    <2> QED  BY <2>0, <2>1, <2>3, <2>4
  <1> QED  BY <1>4, <1>5, <1>6

\* A transaction of ingest-events never takes the database back where the
\* provider dates its events, and brings it up to date with what it met, for any
\* number of overlapping runs, any page size and however the list changes.
THEOREM Commits == ServerSpec => RunCommits
  <1>1. Ingest!EventIngestAssumption  BY ServerConstants
  <1>2. ServerInit => IngestInv  BY <1>1, IngestBegins DEF ServerInit
  <1>3. [ServerNext]_<<mode, vars, ingestVars, apiVars, httpVars>> => [Ingest!Next]_ingestVars
    BY DEF ServerNext
  <1>4. IngestInv /\ [Ingest!Next]_ingestVars => IngestInv'  BY <1>1, IngestKept
  <1>5. IngestInv /\ [Ingest!Next]_ingestVars
           => [\A r \in Runs : Ingest!NeverBack(r) /\ Ingest!CatchesUp(r)]_(Ingest!vars)
    BY <1>1, CommitsForward, CommitsUpToDate
  <1>6. ServerSpec => [][Ingest!Next]_ingestVars
    BY <1>3, PTL DEF ServerSpec
  <1>7. ServerSpec => []IngestInv  BY <1>2, <1>4, <1>6, PTL DEF ServerSpec
  <1> QED  BY <1>5, <1>6, <1>7, PTL DEF RunCommits, Ingest!RunCommits

-----------------------------------------------------------------------------
(* The bodies that the functions read *)

\* Up to its q-th byte, s has a second half exactly behind each first one.
Joined(s, q) == \A i \in 1..q : s[i] = "tail" <=> (i # 1 /\ s[i - 1] = "lead")

HttpInv ==
    /\ reader \in Http!Readers /\ msg \in Http!Messages
    /\ phase \in {"wait", "body", "sleep", "done"} /\ got \in 0..Len(msg.bytes)
    /\ phase = "wait" => msg = Http!Empty /\ got = 0 /\ decoder = "clean" /\ ~broke
    /\ phase = "body" =>
          /\ Http!HeadFault(msg) = "none" /\ got <= Limit /\ ~broke
          /\ reader \in Http!Streaming =>
                decoder # "bad" /\ decoder = Http!Decoded("clean", SubSeq(msg.bytes, 1, got))
    /\ Http!BodyRead

\* What a decoder makes of the beginning of a body.
LEMMA DecodedPrefix ==
    ASSUME NEW s \in Seq(Http!Bytes), NEW q \in 0..Len(s)
    PROVE  Http!Decoded("clean", SubSeq(s, 1, q)) =
             IF q = 0 THEN "clean" ELSE IF ~Joined(s, q) THEN "bad"
             ELSE IF s[q] = "lead" THEN "half" ELSE "clean"
  <1> DEFINE c == SubSeq(s, 1, q)
  <1>0. Len(s) \in Nat /\ q \in Nat /\ q <= Len(s)  OBVIOUS
  <1>1. c \in Seq(Http!Bytes) /\ Len(c) = q /\ DOMAIN c = 1..q /\ \A i \in 1..q : c[i] = s[i]
    <2>1. \A i \in 1..q : s[i] \in Http!Bytes  BY <1>0
    <2> QED  BY <1>0, <2>1, SubSeqProperties
  <1> HIDE DEF c
  <1>2. CASE q = 0
    <2>1. c = <<>>  BY <1>1, <1>2
    <2> QED  BY <1>2, <2>1 DEF Http!Decoded, c
  <1>3. CASE q # 0
    <2>1. c # <<>> /\ Http!Last(c) = s[q]  BY <1>0, <1>1, <1>3 DEF Http!Last
    <2>2. Http!Paired("clean", c) <=> Joined(s, q)
      <3> DEFINE L(i) == c[i] = "tail" <=> IF i = 1 THEN "clean" = "half" ELSE c[i - 1] = "lead"
                 R(i) == s[i] = "tail" <=> (i # 1 /\ s[i - 1] = "lead")
      <3>1. ASSUME NEW i \in 1..q  PROVE L(i) <=> R(i)
        <4>1. i # 1 => i - 1 \in 1..q  BY <1>0
        <4> QED  BY <4>1, <1>1
      <3>2. Http!Paired("clean", c) <=> \A i \in 1..q : L(i)  BY <1>1 DEF Http!Paired
      <3>3. Joined(s, q) <=> \A i \in 1..q : R(i)  BY DEF Joined
      <3> HIDE DEF L, R
      <3> QED  BY <3>1, <3>2, <3>3
    <2>3. Http!Decoded("clean", c) =
             IF ~Joined(s, q) THEN "bad" ELSE IF s[q] = "lead" THEN "half" ELSE "clean"
      BY <2>1, <2>2 DEF Http!Decoded
    <2> QED  BY <1>3, <2>3 DEF c
  <1> QED  BY <1>2, <1>3

\* Decoding on from there comes to what decoding at once does.
LEMMA DecodedOn ==
    ASSUME NEW s \in Seq(Http!Bytes), NEW p \in 0..Len(s), NEW n \in Nat \ {0}, p + n <= Len(s),
           NEW d, d = Http!Decoded("clean", SubSeq(s, 1, p)), d # "bad"
    PROVE  Http!Decoded(d, SubSeq(s, p + 1, p + n)) = Http!Decoded("clean", SubSeq(s, 1, p + n))
  <1> DEFINE q == p + n
             c == SubSeq(s, p + 1, p + n)
  <1>0. Len(s) \in Nat /\ p \in Nat /\ q \in 1..Len(s) /\ q \in 0..Len(s)  OBVIOUS
  <1>1. c \in Seq(Http!Bytes) /\ Len(c) = n /\ DOMAIN c = 1..n /\ \A i \in 1..n : c[i] = s[p + i]
    <2>1. q \in p..Len(s) /\ q - p = n  BY <1>0
    <2> QED  BY <2>1, Slice
  <1> HIDE DEF c
  <1>2. c # <<>> /\ Http!Last(c) = s[q]  BY <1>1 DEF Http!Last
  <1>3. d = IF p = 0 THEN "clean" ELSE IF ~Joined(s, p) THEN "bad" ELSE IF s[p] = "lead" THEN "half" ELSE "clean"
    BY DecodedPrefix
  <1>4. Joined(s, p)  BY <1>0, <1>3 DEF Joined
  <1>5. d = "half" <=> p # 0 /\ s[p] = "lead"  BY <1>3, <1>4
  <1>6. Http!Paired(d, c) <=> Joined(s, q)
    <2> DEFINE L(i) == c[i] = "tail" <=> IF i = 1 THEN d = "half" ELSE c[i - 1] = "lead"
               R(j) == s[j] = "tail" <=> (j # 1 /\ s[j - 1] = "lead")
    <2>1. ASSUME NEW i \in 1..n  PROVE L(i) <=> R(p + i)
      <3>1. CASE i = 1  BY <3>1, <1>0, <1>1, <1>5
      <3>2. CASE i # 1
        <4>1. i - 1 \in 1..n /\ p + (i - 1) = (p + i) - 1 /\ p + i # 1  BY <3>2, <1>0
        <4> QED  BY <3>2, <4>1, <1>1
      <3> QED  BY <3>1, <3>2
    <2>2. Http!Paired(d, c) <=> \A i \in 1..n : L(i)  BY <1>1 DEF Http!Paired
    <2>3. Joined(s, q) <=> \A j \in 1..q : R(j)  BY DEF Joined
    <2>4. \A j \in 1..p : R(j)  BY <1>4 DEF Joined
    <2>5. \A j \in 1..q : j \in 1..p \/ (j - p \in 1..n /\ p + (j - p) = j)  BY <1>0
    <2>6. \A i \in 1..n : p + i \in 1..q  BY <1>0
    <2> HIDE DEF L, R
    <2>7. ASSUME \A i \in 1..n : L(i), NEW j \in 1..q  PROVE R(j)
      <3>1. CASE j \in 1..p  BY <3>1, <2>4
      <3>2. CASE j - p \in 1..n /\ p + (j - p) = j  BY <3>2, <2>7, <2>1
      <3> QED  BY <3>1, <3>2, <2>5
    <2>8. ASSUME \A j \in 1..q : R(j), NEW i \in 1..n  PROVE L(i)  BY <2>8, <2>1, <2>6
    <2> QED  BY <2>2, <2>3, <2>7, <2>8
  <1>7. Http!Decoded("clean", SubSeq(s, 1, q)) =
          IF ~Joined(s, q) THEN "bad" ELSE IF s[q] = "lead" THEN "half" ELSE "clean"
    BY <1>0, DecodedPrefix
  <1> QED  BY <1>2, <1>6, <1>7 DEF Http!Decoded, c

\* A body whose beginning cannot be decoded cannot be decoded.
LEMMA BadStaysBad ==
    ASSUME NEW s \in Seq(Http!Bytes), NEW q \in 0..Len(s), Http!Decoded("clean", SubSeq(s, 1, q)) = "bad"
    PROVE  Http!Decoded("clean", s) = "bad"
  <1>1. Len(s) \in Nat /\ q # 0 /\ ~Joined(s, q)  BY DecodedPrefix
  <1>2. ~Joined(s, Len(s)) /\ Len(s) # 0 /\ Len(s) \in 0..Len(s)  BY <1>1 DEF Joined
  <1>3. SubSeq(s, 1, Len(s)) = s  BY SubSeqFull
  <1>4. Http!Decoded("clean", SubSeq(s, 1, Len(s))) = "bad"  BY <1>2, DecodedPrefix
  <1> QED  BY <1>3, <1>4

\* The parts of a message.
LEMMA MessageFields ==
    ASSUME HttpInv
    PROVE  /\ msg.bytes \in Seq(Http!Bytes) /\ Len(msg.bytes) \in Nat /\ got \in Nat /\ got <= Len(msg.bytes)
           /\ msg.typed \in BOOLEAN /\ msg.json \in BOOLEAN
           /\ msg.declared \in {"absent", "bad", "within", "above"}
  <1>1. msg.bytes \in Http!Bodies /\ msg.typed \in BOOLEAN /\ msg.json \in BOOLEAN
        /\ msg.declared \in {"absent", "bad", "within", "above"} /\ got \in 0..Len(msg.bytes)
    BY DEF HttpInv, Http!Messages
  <1>2. PICK n \in 0..MaxBytes : msg.bytes \in [1..n -> Http!Bytes]  BY <1>1 DEF Http!Bodies
  <1>3. msg.bytes \in Seq(Http!Bytes) /\ Len(msg.bytes) \in Nat  BY <1>2
  <1> QED  BY <1>1, <1>3

\* A request that has no answer yet.
LEMMA EmptyIsMessage == Http!Empty \in Http!Messages /\ Http!Empty.bytes = <<>> /\ 0 \in 0..Len(Http!Empty.bytes)
  <1>1. 0 \in 0..MaxBytes /\ <<>> \in [1..0 -> Http!Bytes]
    BY ServerConstants DEF Http!BoundedHttpAssumption
  <1>2. <<>> \in Http!Bodies  BY <1>1 DEF Http!Bodies
  <1>3. Http!Empty \in Http!Messages /\ Http!Empty.bytes = <<>>  BY <1>2 DEF Http!Empty, Http!Messages
  <1> QED  BY <1>3

\* The head, and answers without a body.
LEMMA HeadKept ==
    ASSUME HttpInv,
           (\E code \in Http!Statuses : Http!Refuse(code)) \/ (\E m \in Http!Messages : Http!HeadArrives(m))
    PROVE  HttpInv'
  <1>1. CASE \E code \in Http!Statuses : Http!Refuse(code)
    <2>1. /\ reader = "upstream" /\ phase = "wait" /\ freed' /\ UNCHANGED <<reader, msg, got, decoder, broke>>
          /\ (phase' = "sleep" /\ result' = "none") \/ (phase' = "done" /\ result' = "status")
      BY <1>1 DEF Http!Refuse, Http!GiveUp, Http!End
    <2>2. msg = Http!Empty /\ ~Http!Sound(msg)  BY <2>1 DEF HttpInv, Http!Sound, Http!Empty
    <2>3. Http!BodyRead'
      BY <2>1, <2>2 DEF Http!BodyRead, Http!Sound
    <2> QED  BY <2>1, <2>3 DEF HttpInv
  <1>2. ASSUME NEW m \in Http!Messages, Http!HeadArrives(m)  PROVE HttpInv'
    <2>1. /\ phase = "wait" /\ msg' = m /\ UNCHANGED <<reader, asked, got, decoder, broke>>
          /\ freed' = (Http!HeadFault(m) # "none" /\ reader = "upstream")
          /\ IF Http!HeadFault(m) = "none" THEN phase' = "body" /\ result' = "none"
             ELSE phase' = "done" /\ result' = Http!HeadFault(m)
      BY <1>2 DEF Http!HeadArrives, Http!End
    <2>2. reader \in Http!Readers /\ got = 0 /\ decoder = "clean" /\ ~broke /\ Limit \in Nat
      BY <2>1, ServerConstants DEF HttpInv, Http!BoundedHttpAssumption
    <2>3. m.bytes \in Seq(Http!Bytes) /\ Len(m.bytes) \in Nat
      <3>1. PICK n \in 0..MaxBytes : m.bytes \in [1..n -> Http!Bytes]
        BY DEF Http!Messages, Http!Bodies
      <3> QED  BY <3>1
    <2>4. got' \in 0..Len(msg'.bytes) /\ got' <= Limit  BY <2>1, <2>2, <2>3
    <2>5. "clean" = Http!Decoded("clean", SubSeq(m.bytes, 1, 0))  BY <2>3, DecodedPrefix
    <2>6. Http!BodyRead'
      <3>1. Http!HeadFault(m)' = Http!HeadFault(m)  BY <2>1 DEF Http!HeadFault
      <3>2. CASE phase' = "done"
        <4>1. Http!HeadFault(m) # "none" /\ result' = Http!HeadFault(m) /\ Http!HeadFault(m) # "ok"
          BY <3>2, <2>1 DEF Http!HeadFault
        <4>2. ~(m.typed /\ m.declared \in {"absent", "within"})  BY <4>1 DEF Http!HeadFault
        <4> QED  BY <4>1, <4>2, <2>1 DEF Http!BodyRead, Http!Sound
      <3> QED  BY <3>2 DEF Http!BodyRead
    <2>7. phase' = "body" => Http!HeadFault(msg)' = "none"
      BY <2>1 DEF Http!HeadFault
    <2> QED  BY <2>1, <2>2, <2>4, <2>5, <2>6, <2>7 DEF HttpInv
  <1> QED  BY <1>1, <1>2

\* The chunks of the body.
LEMMA ChunkKept ==
    ASSUME HttpInv, NEW n \in 1..MaxBytes, Http!Overflow(n) \/ Http!StreamChunk(n) \/ Http!KeepChunk(n)
    PROVE  HttpInv'
  <1>0. n \in Nat \ {0} /\ Limit \in Nat  BY ServerConstants DEF Http!BoundedHttpAssumption
  <1>1. phase = "body" /\ got + n <= Len(msg.bytes) /\ UNCHANGED <<reader, msg, broke>>
    BY DEF Http!Overflow, Http!StreamChunk, Http!KeepChunk
  <1>2. /\ Http!HeadFault(msg) = "none" /\ ~broke /\ reader \in Http!Readers /\ msg \in Http!Messages
        /\ got \in Nat /\ Len(msg.bytes) \in Nat /\ msg.bytes \in Seq(Http!Bytes)
    BY <1>1, MessageFields DEF HttpInv
  <1>3. Http!HeadFault(msg)' = Http!HeadFault(msg)  BY <1>1 DEF Http!HeadFault
  <1>4. CASE Http!Overflow(n)
    <2>1. /\ got' = got /\ phase' = "done" /\ result' \in {"large", "json"} /\ got + n > Limit
          /\ freed' \/ reader = "request"
      BY <1>4 DEF Http!Overflow, Http!TooMany, Http!End
    <2>2. ~Http!Sound(msg)  BY <1>0, <1>1, <1>2, <2>1 DEF Http!Sound
    <2>3. Http!BodyRead'  BY <1>1, <2>1, <2>2 DEF Http!BodyRead, Http!Sound
    <2>4. got' \in 0..Len(msg.bytes)  BY <2>1 DEF HttpInv
    <2> QED  BY <1>1, <1>2, <2>1, <2>3, <2>4 DEF HttpInv
  <1>5. CASE Http!StreamChunk(n)
    <2>1. /\ reader \in Http!Streaming /\ ~(got + n > Limit) /\ got' = got + n
          /\ decoder' = Http!Decoded(decoder, SubSeq(msg.bytes, got + 1, got + n))
          /\ IF decoder' = "bad" THEN phase' = "done" /\ result' = "json" ELSE phase' = phase /\ result' = result
      BY <1>5 DEF Http!StreamChunk, Http!TooMany, Http!End
    <2>2. decoder # "bad" /\ decoder = Http!Decoded("clean", SubSeq(msg.bytes, 1, got))
      BY <1>1, <2>1 DEF HttpInv
    <2>3. got' \in 0..Len(msg.bytes) /\ got \in 0..Len(msg.bytes) /\ got' <= Limit
      BY <1>0, <1>1, <1>2, <2>1
    <2>4. decoder' = Http!Decoded("clean", SubSeq(msg.bytes, 1, got'))
      BY <1>0, <1>1, <1>2, <2>1, <2>2, <2>3, DecodedOn
    <2>5. Http!BodyRead'
      <3>1. CASE decoder' = "bad"
        <4>1. ~Http!Sound(msg)  BY <3>1, <1>2, <2>3, <2>4, BadStaysBad DEF Http!Sound
        <4>2. reader # "upstream"  BY <2>1 DEF Http!Streaming
        <4> QED  BY <3>1, <4>1, <4>2, <1>1, <2>1 DEF Http!BodyRead, Http!Sound
      <3>2. CASE decoder' # "bad"  BY <3>2, <1>1, <2>1 DEF Http!BodyRead
      <3> QED  BY <3>1, <3>2
    <2>6. /\ phase' \in {"body", "done"}
          /\ phase' = "body" => decoder' # "bad" /\ decoder' = Http!Decoded("clean", SubSeq(msg.bytes, 1, got))'
      BY <1>1, <2>1, <2>4
    <2> QED  BY <1>1, <1>2, <1>3, <2>3, <2>5, <2>6 DEF HttpInv
  <1>6. CASE Http!KeepChunk(n)
    <2>1. reader \notin Http!Streaming /\ ~(got + n > Limit) /\ got' = got + n /\ UNCHANGED <<phase, result>>
      BY <1>6 DEF Http!KeepChunk, Http!TooMany
    <2>2. got' \in 0..Len(msg.bytes) /\ got' <= Limit  BY <1>0, <1>1, <1>2, <2>1
    <2>3. Http!BodyRead'  BY <1>1, <2>1 DEF Http!BodyRead
    <2> QED  BY <1>1, <1>2, <1>3, <2>1, <2>2, <2>3 DEF HttpInv
  <1> QED  BY <1>4, <1>5, <1>6

\* Its end, a lost connection and the next attempt.
LEMMA EndKept ==
    ASSUME HttpInv, Http!Finish \/ Http!Break \/ Http!Again
    PROVE  HttpInv'
  <1>1. CASE Http!Finish
    <2>1. /\ phase = "body" /\ got = Len(msg.bytes) /\ freed' /\ phase' = "done"
          /\ UNCHANGED <<reader, msg, got, broke>>
          /\ decoder' = IF reader \in Http!Streaming THEN decoder ELSE Http!Decoded("clean", msg.bytes)
          /\ result' = IF decoder' # "clean" THEN (IF reader \in Http!Streaming THEN "json" ELSE "encoding")
                       ELSE IF msg.json THEN "ok" ELSE "json"
      BY <1>1 DEF Http!Finish, Http!End
    <2>2. Http!HeadFault(msg) = "none" /\ got <= Limit /\ ~broke  BY <2>1 DEF HttpInv
    <2>3. decoder' = Http!Decoded("clean", msg.bytes)
      <3>1. SubSeq(msg.bytes, 1, got) = msg.bytes  BY <2>1, MessageFields, SubSeqFull
      <3> QED  BY <2>1, <3>1 DEF HttpInv
    <2>4. result' = "ok" <=> (msg.json /\ Http!Decoded("clean", msg.bytes) = "clean")  BY <2>1, <2>3
    <2>5. result' = "ok" <=> Http!Sound(msg)
      <3>1. msg.typed  BY <2>2 DEF Http!HeadFault
      <3> QED  BY <2>1, <2>2, <2>4, <3>1 DEF Http!Sound
    <2>6. Http!BodyRead'  BY <2>1, <2>2, <2>5 DEF Http!BodyRead, Http!Sound
    <2> QED  BY <2>1, <2>6 DEF HttpInv
  <1>2. CASE Http!Break
    <2>1. /\ freed' /\ broke' /\ UNCHANGED <<reader, msg, got>>
          /\ (phase' = "sleep" /\ result' = "none") \/ (phase' = "done" /\ result' \in {"json", "network"})
      BY <1>2 DEF Http!Break, Http!GiveUp, Http!End
    <2>2. Http!BodyRead'  BY <2>1 DEF Http!BodyRead
    <2> QED  BY <2>1, <2>2 DEF HttpInv
  <1>3. CASE Http!Again
    <2>1. phase' = "wait" /\ msg' = Http!Empty /\ got' = 0 /\ decoder' = "clean" /\ ~broke' /\ UNCHANGED reader
      BY <1>3 DEF Http!Again
    <2>2. Http!BodyRead'  BY <2>1 DEF Http!BodyRead
    <2> QED  BY <2>1, <2>2, EmptyIsMessage DEF HttpInv
  <1> QED  BY <1>1, <1>2, <1>3

\* Whatever length is declared, however a body is cut into chunks and however
\* often it is asked for: what is accepted is a sound message, and no sound one
\* that arrives is refused.
THEOREM ReadsBodies == ServerSpec => []BodyRead
  <1>1. ServerInit => HttpInv
    <2> SUFFICES ASSUME Http!Init  PROVE HttpInv  BY DEF ServerInit
    <2> QED  BY EmptyIsMessage DEF Http!Init, HttpInv, Http!BodyRead
  <1>2. HttpInv /\ [ServerNext]_<<mode, vars, ingestVars, apiVars, httpVars>> => HttpInv'
    <2>1. ASSUME HttpInv, UNCHANGED httpVars  PROVE HttpInv'
      BY <2>1 DEF httpVars, HttpInv, Http!BodyRead, Http!Sound, Http!HeadFault
    <2>2. ASSUME HttpInv, Http!Next  PROVE HttpInv'
      BY <2>2, HeadKept, ChunkKept, EndKept DEF Http!Next
    <2>3. [ServerNext]_<<mode, vars, ingestVars, apiVars, httpVars>> => Http!Next \/ UNCHANGED httpVars
      BY DEF ServerNext
    <2> QED  BY <2>1, <2>2, <2>3
  <1>3. HttpInv => BodyRead  BY DEF HttpInv, BodyRead
  <1> QED  BY <1>1, <1>2, <1>3, PTL DEF ServerSpec

-----------------------------------------------------------------------------
(* The feed *)

Answers == [items : Seq(Ids), total : Api!Skips, left : 0..TTL]

\* The answer is what the provider would say now.
Current(answer, skip) ==
    answer.items = Api!Fetched(skip).items /\ answer.total = Len(source)

ApiTypeInv ==
    /\ quiet \in 0..TTL
    /\ source \in Seq(Ids) /\ Apart(source)
    /\ cache \in [Isolates -> [Api!Skips -> Answers]]
    /\ walk = [at |-> walk.at, skip |-> walk.skip, got |-> walk.got, calm |-> walk.calm, rss |-> walk.rss]
    /\ walk.skip \in Api!Skips /\ walk.calm \in BOOLEAN /\ walk.rss \in BOOLEAN

\* An answer that was fetched after the list changed last is current.
CacheInv ==
    \A i \in Isolates : \A s \in Api!Skips :
        cache[i][s].left > 0 /\ TTL - cache[i][s].left < quiet => Current(cache[i][s], s)

\* What the feed shows is the list up to the cursor.
WalkInv ==
    /\ walk.at = "idle" => walk.skip = 0 /\ walk.got = <<>>
    /\ walk.calm => quiet = TTL
    /\ walk.calm /\ ~walk.rss /\ Bad \cap Api!ToSet(source) = {} =>
          IF walk.at = "done" THEN walk.got = source
          ELSE walk.got = SubSeq(source, 1, walk.skip) /\ walk.skip <= Len(source)

ApiInv == ApiTypeInv /\ CacheInv /\ WalkInv

\* A list in which nothing is twice, without its n-th element or with another one.
LEMMA RemovedApart ==
    ASSUME NEW S, NEW s \in Seq(S), Apart(s), NEW n \in 1..Len(s)
    PROVE  Api!RemoveAt(s, n) \in Seq(S) /\ Apart(Api!RemoveAt(s, n))
  <1> DEFINE d == SubSeq(s, 1, n - 1) \o SubSeq(s, n + 1, Len(s))
  <1>1. /\ d \in Seq(S) /\ Len(d) = Len(s) - 1
        /\ \A i \in 1..Len(d) : d[i] = IF i < n THEN s[i] ELSE s[i + 1]
    BY WithoutOne
  <1>2. Api!RemoveAt(s, n) = d  BY DEF Api!RemoveAt
  <1> HIDE DEF d
  <1>3. Len(s) \in Nat /\ n \in Nat /\ 1 <= n /\ n <= Len(s)  OBVIOUS
  <1>4. Apart(d)
    <2> SUFFICES ASSUME NEW i \in 1..Len(d), NEW j \in 1..Len(d), d[i] = d[j]  PROVE i = j
      BY DEF Apart
    <2>1. /\ (IF i < n THEN i ELSE i + 1) \in 1..Len(s) /\ d[i] = s[IF i < n THEN i ELSE i + 1]
          /\ (IF j < n THEN j ELSE j + 1) \in 1..Len(s) /\ d[j] = s[IF j < n THEN j ELSE j + 1]
      BY <1>1, <1>3
    <2>2. (IF i < n THEN i ELSE i + 1) = (IF j < n THEN j ELSE j + 1)  BY <2>1 DEF Apart
    <2> QED  BY <2>2, <1>1, <1>3
  <1> QED  BY <1>1, <1>2, <1>4

LEMMA InsertedApart ==
    ASSUME NEW S, NEW s \in Seq(S), Apart(s), NEW e \in S \ Api!ToSet(s), NEW n \in 1..(Len(s) + 1)
    PROVE  Api!InsertAt(s, n, e) \in Seq(S) /\ Apart(Api!InsertAt(s, n, e))
  <1> DEFINE a == SubSeq(s, 1, n - 1)
             h == <<e>>
             b == SubSeq(s, n, Len(s))
             f == a \o h
             d == f \o b
  <1>0. Len(s) \in Nat /\ n \in Nat /\ 1 <= n /\ n <= Len(s) + 1 /\ \A i \in 1..Len(s) : s[i] \in S
    OBVIOUS
  <1>1. a \in Seq(S) /\ Len(a) = n - 1 /\ \A i \in 1..(n - 1) : a[i] = s[i]
    BY <1>0, SubSeqProperties
  <1>2. b \in Seq(S) /\ Len(b) = (Len(s) + 1) - n /\ \A i \in 1..((Len(s) + 1) - n) : b[i] = s[n + i - 1]
    BY <1>0, SubSeqProperties
  <1>3. h \in Seq(S) /\ Len(h) = 1 /\ h[1] = e  OBVIOUS
  <1> HIDE DEF a, h, b
  <1>s. a \in Seq(S) /\ h \in Seq(S) /\ b \in Seq(S)  BY <1>1, <1>2, <1>3
  <1>4. /\ f \in Seq(S) /\ Len(f) = Len(a) + Len(h)
        /\ \A i \in 1..(Len(a) + Len(h)) : f[i] = IF i <= Len(a) THEN a[i] ELSE h[i - Len(a)]
    BY ONLY <1>s, ConcatProperties
  <1> HIDE DEF f
  <1>f. f \in Seq(S)  BY <1>4
  <1>5. /\ d \in Seq(S) /\ Len(d) = Len(f) + Len(b)
        /\ \A i \in 1..(Len(f) + Len(b)) : d[i] = IF i <= Len(f) THEN f[i] ELSE b[i - Len(f)]
    BY ONLY <1>s, <1>f, ConcatProperties
  <1> HIDE DEF d
  <1>6. Len(f) = n /\ f[n] = e /\ \A i \in 1..(n - 1) : f[i] = s[i]
    <2>1. Len(f) = n  BY <1>0, <1>1, <1>3, <1>4
    <2>2. n \in 1..(Len(a) + Len(h)) /\ ~(n <= Len(a)) /\ n - Len(a) = 1  BY <1>0, <1>1, <1>3
    <2>3. \A i \in 1..(n - 1) : i \in 1..(Len(a) + Len(h)) /\ i <= Len(a)  BY <1>0, <1>1, <1>3
    <2> QED  BY <2>1, <2>2, <2>3, <1>1, <1>3, <1>4
  <1>7. /\ Len(d) = Len(s) + 1 /\ d[n] = e
        /\ \A i \in 1..Len(d) : i < n => i \in 1..Len(s) /\ d[i] = s[i]
        /\ \A i \in 1..Len(d) : i > n => i - 1 \in 1..Len(s) /\ d[i] = s[i - 1]
    <2>1. Len(d) = Len(s) + 1 /\ n \in 1..Len(d)  BY <1>0, <1>2, <1>5, <1>6
    <2>2. d[n] = e  BY <2>1, <1>0, <1>5, <1>6
    <2>3. ASSUME NEW i \in 1..Len(d), i < n  PROVE i \in 1..Len(s) /\ d[i] = s[i]
      BY <2>1, <2>3, <1>0, <1>5, <1>6
    <2>4. ASSUME NEW i \in 1..Len(d), i > n  PROVE i - 1 \in 1..Len(s) /\ d[i] = s[i - 1]
      <3>1. i - n \in 1..((Len(s) + 1) - n) /\ n + (i - n) - 1 = i - 1 /\ i - 1 \in 1..Len(s) /\ ~(i <= n)
        BY <2>1, <2>4, <1>0
      <3>2. b[i - n] = s[i - 1]  BY <3>1, <1>2
      <3> QED  BY <3>1, <3>2, <2>1, <1>5, <1>6
    <2> QED  BY <2>1, <2>2, <2>3, <2>4
  <1>8. \A i \in 1..Len(s) : s[i] # e  BY DEF Api!ToSet
  <1>9. Apart(d)
    <2> SUFFICES ASSUME NEW i \in 1..Len(d), NEW j \in 1..Len(d), d[i] = d[j]  PROVE i = j
      BY DEF Apart
    <2>1. i \in Nat /\ j \in Nat  BY <1>0, <1>7
    <2>2. \A k \in Nat : k < n \/ k = n \/ k > n  BY <1>0
    <2>3. CASE i = n \/ j = n  BY <2>1, <2>2, <2>3, <1>7, <1>8
    <2>4. CASE i < n /\ j < n  BY <2>4, <1>7 DEF Apart
    <2>5. CASE i > n /\ j > n
      <3>1. i - 1 = j - 1  BY <2>5, <1>7 DEF Apart
      <3> QED  BY <3>1, <2>1
    <2>6. CASE (i < n /\ j > n) \/ (i > n /\ j < n)
      <3>1. ASSUME NEW k \in 1..Len(d), NEW m \in 1..Len(d), k < n, m > n, d[k] = d[m]  PROVE FALSE
        <4>1. k = m - 1  BY <3>1, <1>7 DEF Apart
        <4> QED  BY <4>1, <3>1, <1>0, <1>7
      <3> QED  BY <2>6, <3>1
    <2> QED  BY <2>1, <2>2, <2>3, <2>4, <2>5, <2>6
  <1> QED  BY <1>5, <1>9 DEF d, f, a, h, b, Api!InsertAt

\* EventApi counts the events as this module does.
LEMMA SkipsAre == Api!Skips = 0..Cardinality(Ids)
  <1>1. Api!Cardinality(Ids) = Cardinality(Ids)  BY DEF Api!Cardinality, Cardinality
  <1> QED  BY <1>1 DEF Api!Skips

\* The offsets reach to the end of every list.
LEMMA ListFits ==
    ASSUME Api!EventApiAssumption, NEW s \in Seq(Ids), Apart(s)
    PROVE  Len(s) \in Api!Skips /\ Cardinality(Ids) \in Nat
  <1>1. IsFiniteSet(Ids)  BY DEF Api!EventApiAssumption, Api!IsFiniteSet, IsFiniteSet
  <1>2. Len(s) \in Nat /\ s \in [1..Len(s) -> Ids]  OBVIOUS
  <1>3. s \in Injection(1..Len(s), Ids)  BY <1>2 DEF Injection, IsInjective, Apart
  <1>4. Cardinality(1..Len(s)) <= Cardinality(Ids)  BY <1>1, <1>3, FS_Injection
  <1>5. Cardinality(1..Len(s)) = Len(s)  BY <1>2, FS_Interval
  <1>6. Cardinality(Ids) \in Nat  BY <1>1, FS_CardinalityType
  <1> QED  BY <1>2, <1>4, <1>5, <1>6, SkipsAre

LEMMA ApiFacts ==
    ASSUME Api!EventApiAssumption, ApiTypeInv
    PROVE  /\ Len(source) \in Nat /\ Len(source) \in Api!Skips /\ Cardinality(Ids) \in Nat
           /\ TTL \in Nat /\ TTL > 0 /\ PageTake \in Nat /\ PageTake > 0 /\ quiet \in 0..TTL
           /\ 0 \in Api!Skips /\ Api!Skips \subseteq Nat
           /\ \A n \in Nat : n <= Len(source) => n \in Api!Skips
           /\ Api!Nothing \in Answers /\ Api!Nothing.left = 0
  <1>1. /\ Len(source) \in Nat /\ TTL \in Nat /\ TTL > 0 /\ PageTake \in Nat /\ PageTake > 0
        /\ quiet \in 0..TTL
    BY DEF ApiTypeInv, Api!EventApiAssumption
  <1>2. Len(source) \in Api!Skips /\ Cardinality(Ids) \in Nat  BY ListFits DEF ApiTypeInv
  <1>3. 0 \in Api!Skips /\ Api!Skips \subseteq Nat  BY <1>2, SkipsAre
  <1>4. \A n \in Nat : n <= Len(source) => n \in Api!Skips  BY <1>1, <1>2, SkipsAre
  <1>5. Api!Nothing \in Answers /\ Api!Nothing.left = 0
    <2>1. 0 \in 0..TTL /\ <<>> \in Seq(Ids)  BY <1>1
    <2> QED  BY <2>1, <1>3 DEF Api!Nothing, Answers
  <1> QED  BY <1>1, <1>2, <1>3, <1>4, <1>5

LEMMA ApiBegins ==
    ASSUME Api!EventApiAssumption, Api!Init
    PROVE  ApiInv
  <1>1. /\ source = <<>> /\ quiet = 0 /\ walk = Api!NoWalk
        /\ cache = [i \in Isolates |-> [s \in Api!Skips |-> Api!Nothing]]
    BY DEF Api!Init
  <1>2. source \in Seq(Ids) /\ Apart(source)  BY <1>1 DEF Apart
  <1>3. Cardinality(Ids) \in Nat /\ TTL \in Nat /\ <<>> \in Seq(Ids)
    BY <1>2, ListFits DEF Api!EventApiAssumption
  <1>4. 0 \in Api!Skips  BY <1>3, SkipsAre
  <1>5. Api!Nothing \in Answers /\ Api!Nothing.left = 0
    BY <1>3, <1>4 DEF Api!Nothing, Answers
  <1>6. ApiTypeInv  BY <1>1, <1>2, <1>3, <1>4, <1>5 DEF ApiTypeInv, Api!NoWalk
  <1>7. CacheInv  BY <1>1, <1>5 DEF CacheInv
  <1>8. WalkInv  BY <1>1 DEF WalkInv, Api!NoWalk
  <1> QED  BY <1>6, <1>7, <1>8 DEF ApiInv

LEMMA TickKept ==
    ASSUME Api!EventApiAssumption, ApiInv, Api!Tick
    PROVE  ApiInv'
  <1> DEFINE Aged(i, s) == IF cache[i][s].left <= 1 THEN Api!Nothing ELSE [cache[i][s] EXCEPT !.left = @ - 1]
  <1>0. /\ TTL \in Nat /\ TTL > 0 /\ quiet \in 0..TTL /\ Api!Nothing \in Answers /\ Api!Nothing.left = 0
        /\ cache \in [Isolates -> [Api!Skips -> Answers]]
    BY ApiFacts DEF ApiInv, ApiTypeInv
  <1>1. /\ quiet' = IF quiet < TTL THEN quiet + 1 ELSE TTL
        /\ cache' = [i \in Isolates |-> [s \in Api!Skips |-> Aged(i, s)]]
        /\ UNCHANGED <<source, walk>>
    BY DEF Api!Tick
  <1>2. quiet' \in 0..TTL /\ (quiet = TTL => quiet' = TTL)  BY <1>0, <1>1
  <1>3. ASSUME NEW i \in Isolates, NEW s \in Api!Skips
        PROVE  /\ Aged(i, s) \in Answers
               /\ Aged(i, s).left > 0 =>
                     /\ Aged(i, s).items = cache[i][s].items /\ Aged(i, s).total = cache[i][s].total
                     /\ cache[i][s].left \in Nat /\ cache[i][s].left > 1 /\ Aged(i, s).left = cache[i][s].left - 1
    <2>1. cache[i][s] \in Answers  BY <1>0
    <2>2. cache[i][s].left \in 0..TTL /\ cache[i][s].items \in Seq(Ids) /\ cache[i][s].total \in Api!Skips
      BY <2>1 DEF Answers
    <2>3. CASE cache[i][s].left <= 1
      <3>1. Aged(i, s) = Api!Nothing  BY <2>3
      <3> HIDE DEF Aged
      <3> QED  BY <3>1, <1>0
    <2>4. CASE ~(cache[i][s].left <= 1)
      <3>1. Aged(i, s) = [cache[i][s] EXCEPT !.left = @ - 1]  BY <2>4
      <3>2. cache[i][s].left - 1 \in 0..TTL /\ cache[i][s].left > 1 /\ cache[i][s].left \in Nat
        BY <2>2, <2>4, <1>0
      <3> HIDE DEF Aged
      <3>3. /\ Aged(i, s) \in Answers /\ Aged(i, s).left = cache[i][s].left - 1
            /\ Aged(i, s).items = cache[i][s].items /\ Aged(i, s).total = cache[i][s].total
        BY <3>1, <3>2, <2>1 DEF Answers
      <3> QED  BY <3>2, <3>3
    <2> QED  BY <2>3, <2>4
  <1>4. \A i \in Isolates : \A s \in Api!Skips : cache'[i][s] = Aged(i, s)  BY <1>1
  <1> HIDE DEF Aged
  <1>5. ApiTypeInv'
    <2>1. cache' \in [Isolates -> [Api!Skips -> Answers]]  BY <1>1, <1>3
    <2> QED  BY <2>1, <1>1, <1>2 DEF ApiInv, ApiTypeInv
  <1>6. CacheInv'
    <2> SUFFICES ASSUME NEW i \in Isolates, NEW s \in Api!Skips,
                        cache'[i][s].left > 0, TTL - cache'[i][s].left < quiet'
                 PROVE  Current(cache[i][s], s)'
      BY DEF CacheInv
    <2>1. /\ cache'[i][s].items = cache[i][s].items /\ cache'[i][s].total = cache[i][s].total
          /\ cache[i][s].left \in Nat /\ cache[i][s].left > 1 /\ cache'[i][s].left = cache[i][s].left - 1
      BY <1>3, <1>4
    <2>2. cache[i][s].left > 0 /\ TTL - cache[i][s].left < quiet  BY <2>1, <1>0, <1>1
    <2>3. Current(cache[i][s], s)  BY <2>2 DEF ApiInv, CacheInv
    <2>4. Api!Fetched(s)' = Api!Fetched(s)  BY <1>1 DEF Api!Fetched
    <2> QED  BY <2>1, <2>3, <2>4, <1>1 DEF Current
  <1>7. WalkInv'  BY <1>1, <1>2 DEF ApiInv, WalkInv
  <1> QED  BY <1>5, <1>6, <1>7 DEF ApiInv

LEMMA ListKept ==
    ASSUME Api!EventApiAssumption, ApiInv, Api!Change
    PROVE  ApiInv'
  <1>1. /\ quiet' = 0 /\ walk' = [walk EXCEPT !.calm = FALSE] /\ UNCHANGED cache
        /\ \/ \E i \in DOMAIN source : source' = Api!RemoveAt(source, i)
           \/ \E e \in Ids \ Api!ToSet(source), i \in 1..(Len(source) + 1) : source' = Api!InsertAt(source, i, e)
    BY DEF Api!Change
  <1>2. source \in Seq(Ids) /\ Apart(source) /\ DOMAIN source = 1..Len(source)  BY DEF ApiInv, ApiTypeInv
  <1>3. source' \in Seq(Ids) /\ Apart(source')
    <2>1. CASE \E i \in DOMAIN source : source' = Api!RemoveAt(source, i)
      <3>1. PICK i \in 1..Len(source) : source' = Api!RemoveAt(source, i)  BY <2>1, <1>2
      <3>2. Api!RemoveAt(source, i) \in Seq(Ids) /\ Apart(Api!RemoveAt(source, i))
        BY <1>2, RemovedApart
      <3> QED  BY <3>1, <3>2
    <2>2. CASE \E e \in Ids \ Api!ToSet(source), i \in 1..(Len(source) + 1) : source' = Api!InsertAt(source, i, e)
      <3>1. PICK e \in Ids \ Api!ToSet(source), i \in 1..(Len(source) + 1) : source' = Api!InsertAt(source, i, e)
        BY <2>2
      <3>2. Api!InsertAt(source, i, e) \in Seq(Ids) /\ Apart(Api!InsertAt(source, i, e))
        BY <1>2, InsertedApart
      <3> QED  BY <3>1, <3>2
    <2> QED  BY <2>1, <2>2, <1>1
  <1>4. /\ walk' = [at |-> walk.at, skip |-> walk.skip, got |-> walk.got, calm |-> FALSE, rss |-> walk.rss]
    BY <1>1 DEF ApiInv, ApiTypeInv
  <1>5. 0 \in 0..TTL  BY DEF Api!EventApiAssumption
  <1>6. ApiTypeInv'  BY <1>1, <1>3, <1>4, <1>5 DEF ApiInv, ApiTypeInv, Apart
  <1>7. CacheInv'
    <2> SUFFICES ASSUME NEW i \in Isolates, NEW s \in Api!Skips, TTL - cache[i][s].left < 0  PROVE FALSE
      BY <1>1 DEF CacheInv
    <2>1. cache[i][s].left \in 0..TTL  BY DEF ApiInv, ApiTypeInv, Answers
    <2> QED  BY <2>1 DEF Api!EventApiAssumption
  <1>8. WalkInv'  BY <1>4 DEF ApiInv, WalkInv
  <1> QED  BY <1>6, <1>7, <1>8 DEF ApiInv

\* The feed asks for a page, is left, or reads the RSS feeds.
LEMMA FeedKept ==
    ASSUME Api!EventApiAssumption, ApiInv, Api!Load \/ Api!Leave \/ Api!Rss
    PROVE  ApiInv'
  <1>0. /\ walk = [at |-> walk.at, skip |-> walk.skip, got |-> walk.got, calm |-> walk.calm, rss |-> walk.rss]
        /\ walk.skip \in Api!Skips /\ walk.calm \in BOOLEAN /\ walk.rss \in BOOLEAN
        /\ 0 \in Api!Skips /\ Api!Skips \subseteq Nat /\ Len(source) \in Nat /\ quiet \in 0..TTL
        /\ \A n \in Nat : n <= Len(source) => n \in Api!Skips
        /\ PageTake \in Nat /\ source \in Seq(Ids)
    BY ApiFacts DEF ApiInv, ApiTypeInv
  <1>1. UNCHANGED <<source, quiet, cache>>  BY DEF Api!Load, Api!Leave, Api!Rss
  <1>2. CacheInv'  BY <1>1 DEF ApiInv, CacheInv, Current, Api!Fetched
  <1>3. ASSUME NEW a, NEW s \in Api!Skips, NEW g, NEW c \in BOOLEAN, NEW r \in BOOLEAN,
               walk' = [at |-> a, skip |-> s, got |-> g, calm |-> c, rss |-> r], WalkInv'
        PROVE  ApiInv'
    <2>1. ApiTypeInv'  BY <1>1, <1>3 DEF ApiInv, ApiTypeInv, Apart
    <2> QED  BY <2>1, <1>2, <1>3 DEF ApiInv
  <1>4. CASE Api!Load
    <2>1. /\ walk.at \in {"idle", "next"}
          /\ walk' = [walk EXCEPT !.at = "edge", !.calm = IF walk.at = "idle" THEN quiet = TTL ELSE @]
      BY <1>4 DEF Api!Load
    <2>2. walk' = [at |-> "edge", skip |-> walk.skip, got |-> walk.got,
                   calm |-> IF walk.at = "idle" THEN quiet = TTL ELSE walk.calm, rss |-> walk.rss]
      BY <1>0, <2>1
    <2>3. WalkInv'
      <3>1. CASE walk.at = "idle"
        <4>1. walk.skip = 0 /\ walk.got = <<>> /\ SubSeq(source, 1, 0) = <<>>
          BY <3>1, SubSeqEmpty DEF ApiInv, WalkInv
        <4>2. walk'.at = "edge" /\ walk'.skip = 0 /\ walk'.got = <<>> /\ (walk'.calm => quiet = TTL)
          BY <3>1, <4>1, <2>2
        <4> QED  BY <4>1, <4>2, <1>0, <1>1 DEF WalkInv
      <3>2. CASE walk.at = "next"  BY <3>2, <1>1, <2>2 DEF ApiInv, WalkInv
      <3> QED  BY <2>1, <3>1, <3>2
    <2> DEFINE c == IF walk.at = "idle" THEN quiet = TTL ELSE walk.calm
    <2>4. c \in BOOLEAN /\ walk' = [at |-> "edge", skip |-> walk.skip, got |-> walk.got, calm |-> c, rss |-> walk.rss]
      BY <1>0, <2>2
    <2> HIDE DEF c
    <2> QED  BY <2>3, <2>4, <1>0, <1>3
  <1>5. CASE Api!Leave
    <2>1. walk' = Api!NoWalk  BY <1>5 DEF Api!Leave
    <2>2. WalkInv'  BY <2>1 DEF WalkInv, Api!NoWalk
    <2> QED  BY <2>1, <2>2, <1>0, <1>3 DEF Api!NoWalk
  <1>6. CASE Api!Rss
    <2>1. PICK feed \in {source, Api!Reverse(source)} :
             walk' = [Api!Shown(SubSeq(feed, walk.skip + 1,
                                       IF walk.skip + PageTake < Len(feed) THEN walk.skip + PageTake ELSE Len(feed)),
                                IF walk.skip + PageTake < Len(feed) THEN {walk.skip + PageTake} ELSE {})
                        EXCEPT !.rss = TRUE]
      BY <1>6 DEF Api!Rss
    <2> DEFINE next == IF walk.skip + PageTake < Len(feed) THEN {walk.skip + PageTake} ELSE {}
               items == SubSeq(feed, walk.skip + 1,
                               IF walk.skip + PageTake < Len(feed) THEN walk.skip + PageTake ELSE Len(feed))
    <2>2. Len(feed) = Len(source)  BY <1>0 DEF Api!Reverse
    <2>3. next = {} \/ (next = {walk.skip + PageTake} /\ walk.skip + PageTake \in Api!Skips)
      BY <1>0, <2>2
    <2>4. walk' = [Api!Shown(items, next) EXCEPT !.rss = TRUE]  BY <2>1
    <2> HIDE DEF next, items
    <2>5. walk' = [at |-> IF next = {} THEN "done" ELSE "next",
                   skip |-> IF next = {} THEN walk.skip ELSE CHOOSE n \in next : TRUE,
                   got |-> walk.got \o items, calm |-> walk.calm, rss |-> TRUE]
      <3> DEFINE w == walk
      <3>1. w = [at |-> w.at, skip |-> w.skip, got |-> w.got, calm |-> w.calm, rss |-> w.rss]  BY <1>0
      <3> QED  BY <2>4, <3>1 DEF Api!Shown
    <2>6. (IF next = {} THEN walk.skip ELSE CHOOSE n \in next : TRUE) \in Api!Skips  BY <1>0, <2>3
    <2>7. WalkInv'  BY <1>1, <2>5 DEF ApiInv, WalkInv
    <2> DEFINE s == IF next = {} THEN walk.skip ELSE CHOOSE n \in next : TRUE
               a == IF next = {} THEN "done" ELSE "next"
               g == walk.got \o items
    <2>8. s \in Api!Skips /\ walk' = [at |-> a, skip |-> s, got |-> g, calm |-> walk.calm, rss |-> TRUE]
      BY <2>5, <2>6
    <2> HIDE DEF s, a, g
    <2> QED  BY <2>7, <2>8, <1>0, <1>3
  <1> QED  BY <1>4, <1>5, <1>6

\* What an instance of the function answers is well formed, and current if the
\* list has not changed for the lifetime of an answer.
LEMMA AnswerGiven ==
    ASSUME Api!EventApiAssumption, ApiInv, NEW i \in Isolates, NEW s \in Api!Skips
    PROVE  /\ Api!Answer(i, s) \in Answers
           /\ quiet = TTL => Current(Api!Answer(i, s), s)
           /\ TTL - Api!Answer(i, s).left < quiet => Current(Api!Answer(i, s), s)
  <1> DEFINE upto == IF s + PageTake < Len(source) THEN s + PageTake ELSE Len(source)
             fresh == [items |-> SubSeq(source, s + 1, upto), total |-> Len(source), left |-> TTL]
             stored == cache[i][s]
             answer == Api!Answer(i, s)
  <1>0. /\ Len(source) \in Nat /\ Len(source) \in Api!Skips /\ s \in Nat /\ PageTake \in Nat
        /\ TTL \in Nat /\ TTL > 0 /\ quiet \in 0..TTL
        /\ stored \in Answers /\ source \in Seq(Ids)
    BY ApiFacts DEF ApiInv, ApiTypeInv
  <1>1. fresh \in Answers
    <2>1. SubSeq(source, s + 1, upto) \in Seq(Ids)
      <3>1. upto \in Int /\ upto <= Len(source)  BY <1>0
      <3>2. \A j \in (s + 1)..upto : source[j] \in Ids  BY <3>1, <1>0
      <3> HIDE DEF upto
      <3> QED  BY <3>1, <3>2, <1>0, SubSeqProperties
    <2>2. TTL \in 0..TTL  BY <1>0
    <2> HIDE DEF upto
    <2> QED  BY <2>1, <2>2, <1>0 DEF Answers
  <1>2. fresh = Api!Fetched(s)  BY DEF Api!Fetched
  <1> HIDE DEF fresh
  <1>3. fresh.total = Len(source) /\ fresh.items = Api!Fetched(s).items
    BY <1>2 DEF Api!Fetched
  <1>4. Current(fresh, s)  BY <1>3 DEF Current
  <1>5. stored.left \in 0..TTL  BY <1>0 DEF Answers
  <1>6. CASE stored.left > 0
    <2>1. answer = stored  BY <1>6 DEF Api!Answer
    <2>2. TTL - stored.left < quiet => Current(stored, s)  BY <1>6 DEF ApiInv, CacheInv
    <2>3. quiet = TTL => TTL - stored.left < quiet  BY <1>0, <1>5, <1>6
    <2> HIDE DEF stored, answer
    <2> QED  BY <2>1, <2>2, <2>3, <1>0 DEF answer
  <1>7. CASE ~(stored.left > 0)
    <2>1. answer = fresh  BY <1>2, <1>7 DEF Api!Answer
    <2> HIDE DEF stored, answer
    <2> QED  BY <2>1, <1>1, <1>4 DEF answer
  <1> QED  BY <1>6, <1>7

\* An instance keeps an answer or forgets all of them.
LEMMA StoreKept ==
    ASSUME Api!EventApiAssumption, ApiInv, UNCHANGED <<source, quiet>>, NEW i \in Isolates, NEW s \in Api!Skips,
           cache' \in {cache, [cache EXCEPT ![i][s] = Api!Answer(i, s)],
                       [cache EXCEPT ![i] = [t \in Api!Skips |-> Api!Nothing]]}
    PROVE  cache' \in [Isolates -> [Api!Skips -> Answers]] /\ CacheInv'
  <1> DEFINE answer == Api!Answer(i, s)
             new == [cache[i] EXCEPT ![s] = answer]
             empty == [t \in Api!Skips |-> Api!Nothing]
  <1>0. /\ cache \in [Isolates -> [Api!Skips -> Answers]] /\ answer \in Answers
        /\ TTL - answer.left < quiet => Current(answer, s)
        /\ Api!Nothing \in Answers /\ Api!Nothing.left = 0
    BY AnswerGiven, ApiFacts DEF ApiInv, ApiTypeInv
  <1> HIDE DEF answer
  <1>1. \A a, t : Current(a, t)' <=> Current(a, t)
    BY DEF Current, Api!Fetched
  <1>2. /\ \A j \in Isolates : \A t \in Api!Skips :
              cache'[j][t] = cache[j][t] \/ cache'[j][t] = Api!Nothing \/ (t = s /\ cache'[j][t] = answer)
        /\ cache' \in [Isolates -> [Api!Skips -> Answers]]
    <2>1. CASE cache' = cache  BY <2>1, <1>0
    <2>2. CASE cache' = [cache EXCEPT ![i][s] = Api!Answer(i, s)]
      <3>1. cache' = [cache EXCEPT ![i] = new]  BY <2>2 DEF answer
      <3>2. new \in [Api!Skips -> Answers] /\ \A t \in Api!Skips : new[t] = IF t = s THEN answer ELSE cache[i][t]
        BY <1>0
      <3> HIDE DEF new
      <3> QED  BY <3>1, <3>2, <1>0
    <2>3. CASE cache' = [cache EXCEPT ![i] = [t \in Api!Skips |-> Api!Nothing]]
      <3>1. cache' = [cache EXCEPT ![i] = empty]  BY <2>3
      <3>2. empty \in [Api!Skips -> Answers] /\ \A t \in Api!Skips : empty[t] = Api!Nothing  BY <1>0
      <3> HIDE DEF empty
      <3> QED  BY <3>1, <3>2, <1>0
    <2> QED  BY <2>1, <2>2, <2>3
  <1>3. CacheInv'
    <2> SUFFICES ASSUME NEW j \in Isolates, NEW t \in Api!Skips,
                        cache'[j][t].left > 0, TTL - cache'[j][t].left < quiet
                 PROVE  Current(cache[j][t], t)'
      BY DEF CacheInv
    <2> DEFINE a == cache'[j][t]
    <2>1. Current(a, t)
      <3>1. CASE a = cache[j][t]  BY <3>1 DEF ApiInv, CacheInv
      <3>2. CASE a = Api!Nothing  BY <3>2, <1>0
      <3>3. CASE t = s /\ a = answer  BY <3>3, <1>0
      <3> QED  BY <3>1, <3>2, <3>3, <1>2
    <2>2. Current(cache[j][t], t)' <=> a.items = Api!Fetched(t).items /\ a.total = Len(source)
      BY DEF Current, Api!Fetched
    <2> QED  BY <2>1, <2>2 DEF Current
  <1> QED  BY <1>2, <1>3

\* A page is shown.
LEMMA ServedKept ==
    ASSUME Api!EventApiAssumption, ApiInv, NEW i \in Isolates, Api!Served(i),
           walk.at \in {"edge", "direct"}, UNCHANGED <<source, quiet>>
    PROVE  ApiInv'
  <1> DEFINE skip == walk.skip
             answer == Api!Answer(i, skip)
             items == Api!Readable(answer)
             next == Api!NextSkip(skip, answer)
  <1>0. /\ walk = [at |-> walk.at, skip |-> walk.skip, got |-> walk.got, calm |-> walk.calm, rss |-> walk.rss]
        /\ skip \in Api!Skips /\ skip \in Nat /\ walk.calm \in BOOLEAN /\ walk.rss \in BOOLEAN
        /\ Len(source) \in Nat /\ PageTake \in Nat /\ PageTake > 0 /\ source \in Seq(Ids) /\ Apart(source)
        /\ Cardinality(Ids) \in Nat /\ quiet \in 0..TTL
    BY ApiFacts DEF ApiInv, ApiTypeInv
  <1>1. walk' = Api!Shown(items, next) /\ cache' = [cache EXCEPT ![i][skip] = answer]
    BY DEF Api!Served
  <1>2. answer \in Answers /\ (quiet = TTL => Current(answer, skip))  BY <1>0, AnswerGiven
  <1>3. cache' \in [Isolates -> [Api!Skips -> Answers]] /\ CacheInv'  BY <1>0, <1>1, StoreKept
  <1>4. /\ next = {} \/ next = {skip + PageTake}
        /\ next # {} => skip + PageTake < answer.total
        /\ Len(items) = PageTake /\ skip + PageTake < answer.total => next # {}
    BY DEF Api!NextSkip
  <1> DEFINE s == IF next = {} THEN skip ELSE CHOOSE n \in next : TRUE
             a == IF next = {} THEN "done" ELSE "next"
             g == walk.got \o items
  <1>c. /\ walk.calm => quiet = TTL
        /\ walk.calm /\ ~walk.rss /\ Bad \cap Api!ToSet(source) = {} =>
              walk.got = SubSeq(source, 1, skip) /\ skip <= Len(source)
    BY DEF ApiInv, WalkInv
  <1>r. Bad \cap Api!ToSet(answer.items) = {} => items = answer.items  BY DEF Api!Readable
  <1> HIDE DEF items, next
  <1>5. walk' = [at |-> a, skip |-> s, got |-> g, calm |-> walk.calm, rss |-> walk.rss]
    <2> DEFINE w == walk
    <2>1. w = [at |-> w.at, skip |-> w.skip, got |-> w.got, calm |-> w.calm, rss |-> w.rss]  BY <1>0
    <2> QED  BY <1>1, <2>1 DEF Api!Shown
  <1> HIDE DEF answer, skip
  <1>6. s \in Api!Skips /\ (next # {} => s = skip + PageTake)
    <2>1. answer.total \in 0..Cardinality(Ids)  BY <1>2, SkipsAre DEF Answers
    <2>2. next # {} => skip + PageTake \in Api!Skips  BY <2>1, <1>0, <1>4, SkipsAre
    <2> QED  BY <2>2, <1>0, <1>4
  <1> HIDE DEF s
  <1>7. ASSUME walk.calm, ~walk.rss, Bad \cap Api!ToSet(source) = {}
        PROVE  IF next = {} THEN g = source ELSE g = SubSeq(source, 1, s) /\ s <= Len(source)
    <2> DEFINE upto == IF skip + PageTake < Len(source) THEN skip + PageTake ELSE Len(source)
               page == SubSeq(source, skip + 1, upto)
    <2>1. walk.got = SubSeq(source, 1, skip) /\ skip <= Len(source) /\ Current(answer, skip)
      BY <1>7, <1>c, <1>2
    <2>2. answer.items = page /\ answer.total = Len(source)
      BY <2>1 DEF Current, Api!Fetched
    <2>3. upto \in Nat /\ skip <= upto /\ upto <= Len(source)  BY <1>0, <2>1
    <2>4. skip + PageTake < Len(source) => upto = skip + PageTake  OBVIOUS
    <2>5. ~(skip + PageTake < Len(source)) => upto = Len(source)  OBVIOUS
    <2> HIDE DEF upto
    <2>6. /\ Len(page) = upto - skip /\ page \in Seq(Ids)
          /\ \A j \in 1..(upto - skip) : page[j] = source[skip + j]
      BY <1>0, <2>1, <2>3, Slice
    <2>7. items = page
      <3> HIDE DEF page
      <3>1. \A j \in 1..Len(page) : skip + j \in 1..Len(source) /\ page[j] = source[skip + j]
        BY <1>0, <2>3, <2>6
      <3>2. DOMAIN page = 1..Len(page) /\ DOMAIN source = 1..Len(source)  BY <2>6, <1>0
      <3>3. Api!ToSet(page) \subseteq Api!ToSet(source)  BY <3>1, <3>2 DEF Api!ToSet
      <3> QED  BY <3>3, <2>2, <1>7, <1>r
    <2>8. g = SubSeq(source, 1, upto)
      <3>1. 1 \in 1..(Len(source) + 1) /\ skip \in (1 - 1)..Len(source) /\ upto \in skip..Len(source)
        BY <1>0, <2>1, <2>3
      <3>2. SubSeq(source, 1, skip) \o SubSeq(source, skip + 1, upto) = SubSeq(source, 1, upto)
        BY <3>1, <1>0, ConcatAdjacentSubSeq
      <3> QED  BY <3>2, <2>1, <2>7
    <2> HIDE DEF page, g
    <2>9. CASE skip + PageTake < Len(source)
      <3>1. upto = skip + PageTake /\ Len(page) = PageTake  BY <2>9, <2>4, <2>6, <1>0
      <3>2. next # {}  BY <3>1, <2>2, <2>7, <2>9, <1>4
      <3>3. s = upto  BY <3>1, <3>2, <1>6
      <3> QED  BY <3>2, <3>3, <2>3, <2>8
    <2>10. CASE ~(skip + PageTake < Len(source))
      <3>1. next = {} /\ upto = Len(source)  BY <2>10, <2>2, <2>5, <1>4
      <3>2. SubSeq(source, 1, Len(source)) = source  BY <1>0, SubSeqFull
      <3> QED  BY <3>1, <3>2, <2>8
    <2> QED  BY <2>9, <2>10
  <1> HIDE DEF g
  <1>8. WalkInv'
    <2>1. /\ walk'.at = (IF next = {} THEN "done" ELSE "next") /\ walk'.got = g /\ walk'.skip = s
          /\ walk'.calm = walk.calm /\ walk'.rss = walk.rss /\ walk'.at # "idle"
      BY <1>5
    <2>2. Api!ToSet(source)' = Api!ToSet(source)  BY DEF Api!ToSet
    <2> QED  BY <2>1, <2>2, <1>7, <1>c DEF WalkInv
  <1>9. ApiTypeInv'
    <2> HIDE DEF a
    <2> QED  BY <1>0, <1>3, <1>5, <1>6 DEF ApiTypeInv, Apart
  <1> QED  BY <1>3, <1>8, <1>9 DEF ApiInv

\* The edge, the function itself, and a new instance of it.
LEMMA IsolateKept ==
    ASSUME Api!EventApiAssumption, ApiInv, NEW i \in Isolates,
           Api!Edge(i) \/ Api!Direct(i) \/ Api!Recycle(i)
    PROVE  ApiInv'
  <1>0. /\ walk = [at |-> walk.at, skip |-> walk.skip, got |-> walk.got, calm |-> walk.calm, rss |-> walk.rss]
        /\ walk.skip \in Api!Skips /\ walk.calm \in BOOLEAN /\ walk.rss \in BOOLEAN
        /\ UNCHANGED <<source, quiet>>
    BY DEF ApiInv, ApiTypeInv, Api!Edge, Api!Direct, Api!Recycle
  <1>1. ASSUME Api!Served(i), walk.at \in {"edge", "direct"}  PROVE ApiInv'
    BY <1>0, <1>1, ServedKept
  <1>2. ASSUME cache' \in {cache, [cache EXCEPT ![i][walk.skip] = Api!Answer(i, walk.skip)],
                           [cache EXCEPT ![i] = [t \in Api!Skips |-> Api!Nothing]]},
               walk' = walk \/ (walk.at \in {"edge", "direct"} /\ \E a \in {"direct", "failed", "rss"} :
                                   walk' = [walk EXCEPT !.at = a])
        PROVE  ApiInv'
    <2>1. cache' \in [Isolates -> [Api!Skips -> Answers]] /\ CacheInv'  BY <1>0, <1>2, StoreKept
    <2>2. CASE walk' = walk
      BY <2>1, <2>2, <1>0 DEF ApiInv, ApiTypeInv, WalkInv, Apart
    <2>3. ASSUME NEW a \in {"direct", "failed", "rss"}, walk' = [walk EXCEPT !.at = a], walk.at \in {"edge", "direct"}
          PROVE  ApiInv'
      <3>1. walk' = [at |-> a, skip |-> walk.skip, got |-> walk.got, calm |-> walk.calm, rss |-> walk.rss]
        BY <2>3, <1>0
      <3>2. WalkInv'
        <4>1. Api!ToSet(source)' = Api!ToSet(source)  BY <1>0 DEF Api!ToSet
        <4> QED  BY <3>1, <4>1, <2>3, <1>0 DEF ApiInv, WalkInv
      <3>3. ApiTypeInv'  BY <3>1, <2>1, <1>0 DEF ApiInv, ApiTypeInv, Apart
      <3> QED  BY <2>1, <3>2, <3>3 DEF ApiInv
    <2> QED  BY <2>2, <2>3, <1>2
  <1>3. CASE Api!Edge(i)
    <2>1. walk.at = "edge" /\ (\/ Api!Served(i)
                               \/ /\ walk' = [walk EXCEPT !.at = "direct"]
                                  /\ cache' \in {cache, [cache EXCEPT ![i][walk.skip] = Api!Answer(i, walk.skip)]}
                               \/ walk' = [walk EXCEPT !.at = "failed"] /\ cache' = cache)
      BY <1>3 DEF Api!Edge
    <2> QED  BY <2>1, <1>1, <1>2
  <1>4. CASE Api!Direct(i)
    <2>1. walk.at = "direct" /\ (\/ Api!Served(i)
                                 \/ /\ walk' \in {[walk EXCEPT !.at = "rss"], [walk EXCEPT !.at = "failed"]}
                                    /\ cache' = cache)
      BY <1>4 DEF Api!Direct
    <2> QED  BY <2>1, <1>1, <1>2
  <1>5. CASE Api!Recycle(i)
    <2>1. walk' = walk /\ cache' = [cache EXCEPT ![i] = [s \in Api!Skips |-> Api!Nothing]]
      BY <1>5 DEF Api!Recycle
    <2> QED  BY <2>1, <1>2
  <1> QED  BY <1>3, <1>4, <1>5

\* A feed that reaches its end over a list that keeps still shows all of it in
\* order, whichever instances and whichever way served its pages.
THEOREM FeedsWhole == ServerSpec => []FeedWhole
  <1>1. Api!EventApiAssumption  BY ServerConstants
  <1>2. ServerInit => ApiInv  BY <1>1, ApiBegins DEF ServerInit
  <1>3. ApiInv /\ [ServerNext]_<<mode, vars, ingestVars, apiVars, httpVars>> => ApiInv'
    <2>1. ASSUME ApiInv, UNCHANGED apiVars  PROVE ApiInv'
      BY <2>1 DEF apiVars, ApiInv, ApiTypeInv, CacheInv, WalkInv, Current, Apart, Api!Fetched, Api!ToSet
    <2>2. ASSUME ApiInv, Api!Next  PROVE ApiInv'
      BY <2>2, <1>1, TickKept, ListKept, FeedKept, IsolateKept DEF Api!Next
    <2>3. [ServerNext]_<<mode, vars, ingestVars, apiVars, httpVars>> => Api!Next \/ UNCHANGED apiVars
      BY DEF ServerNext
    <2> QED  BY <2>1, <2>2, <2>3
  <1>4. ApiInv => FeedWhole  BY DEF ApiInv, WalkInv, FeedWhole, Api!FeedWhole
  <1> QED  BY <1>2, <1>3, <1>4, PTL DEF ServerSpec

-----------------------------------------------------------------------------
(* The other types *)

\* Where the feed stands, and that a page holds the provider's events and no
\* more of them than was asked for.
ApiSides ==
    /\ walk.at \in {"idle", "edge", "direct", "rss", "next", "done", "failed"}
    /\ walk.got \in Seq(Ids)
    /\ \A i \in Isolates : \A s \in Api!Skips : Len(cache[i][s].items) <= PageTake

\* The chosen places of a list are a list again.
LEMMA ChosenAre ==
    ASSUME NEW S, NEW s \in Seq(S), NEW kept \in SUBSET DOMAIN s, NEW f,
           f = [k \in 1..Api!Cardinality(kept) |->
                    s[CHOOSE i \in kept : Api!Cardinality({j \in kept : j <= i}) = k]]
    PROVE  f \in Seq(S)
  <1> DEFINE Upto(i) == {j \in kept : j <= i}
             N == Cardinality(kept)
             r == [i \in kept |-> Cardinality(Upto(i))]
             nth(k) == CHOOSE i \in kept : Api!Cardinality({j \in kept : j <= i}) = k
  <1>f. f = [k \in 1..Api!Cardinality(kept) |-> s[nth(k)]]  OBVIOUS
  <1>0. \A T : Api!Cardinality(T) = Cardinality(T)  BY DEF Api!Cardinality, Cardinality
  <1>1. kept \subseteq 1..Len(s) /\ Len(s) \in Nat  OBVIOUS
  <1>2. IsFiniteSet(1..Len(s)) /\ Cardinality(1..Len(s)) = Len(s)
    <2>1. 1 \in Int /\ Len(s) \in Int /\ (IF 1 > Len(s) THEN 0 ELSE Len(s) - 1 + 1) = Len(s)  BY <1>1
    <2> QED  BY <2>1, FS_Interval
  <1>3. IsFiniteSet(kept) /\ N \in Nat
    BY <1>1, <1>2, FS_Subset, FS_CardinalityType
  <1>4. ASSUME NEW i \in kept
        PROVE  IsFiniteSet(Upto(i)) /\ Cardinality(Upto(i)) \in 1..N
    <2>1. Upto(i) \in SUBSET kept /\ i \in Upto(i)  BY <1>1
    <2> HIDE DEF Upto
    <2>2. IsFiniteSet(Upto(i)) /\ Cardinality(Upto(i)) <= N  BY <1>3, <2>1, FS_Subset
    <2>3. Cardinality(Upto(i)) \in Nat /\ Cardinality(Upto(i)) # 0
      BY <2>1, <2>2, FS_CardinalityType, FS_EmptySet
    <2> HIDE DEF N
    <2> QED  BY <1>3, <2>2, <2>3
  <1>5. ASSUME NEW i \in kept, NEW j \in kept, i < j
        PROVE  Cardinality(Upto(i)) # Cardinality(Upto(j))
    <2>1. Upto(i) \in SUBSET Upto(j) /\ j \in Upto(j) /\ j \notin Upto(i)  BY <1>1, <1>5
    <2> HIDE DEF Upto
    <2> QED  BY <1>4, <2>1, FS_Subset
  <1> HIDE DEF Upto, N
  <1>6. r \in Injection(kept, 1..N)
    <2>1. r \in [kept -> 1..N]  BY <1>4
    <2>2. ASSUME NEW i \in kept, NEW j \in kept, i # j  PROVE r[i] # r[j]
      <3>1. i < j \/ j < i  BY <1>1, <2>2
      <3>2. r[i] = Cardinality(Upto(i)) /\ r[j] = Cardinality(Upto(j))  OBVIOUS
      <3> HIDE DEF r
      <3> QED  BY <1>5, <3>1, <3>2
    <2> HIDE DEF r
    <2> QED  BY <2>1, <2>2 DEF Injection, IsInjective
  <1>7. IsFiniteSet(1..N) /\ Cardinality(1..N) = N
    <2>1. 1 \in Int /\ N \in Int /\ (IF 1 > N THEN 0 ELSE N - 1 + 1) = N  BY <1>3
    <2> QED  BY <2>1, FS_Interval
  <1>8. r \in Surjection(kept, 1..N)
    <2> HIDE DEF r
    <2> QED  BY <1>3, <1>6, <1>7, FS_Injection DEF N
  <1>9. ASSUME NEW k \in 1..N  PROVE nth(k) \in kept
    <2>1. PICK i \in kept : r[i] = k  BY <1>8 DEF Surjection
    <2>2. Api!Cardinality({j \in kept : j <= i}) = k  BY <1>0, <2>1 DEF Upto
    <2> QED  BY <2>2
  <1> HIDE DEF nth
  <1>10. \A k \in 1..N : s[nth(k)] \in S  BY <1>1, <1>9
  <1>11. f \in [1..N -> S]  BY <1>0, <1>f, <1>10 DEF N
  <1> QED  BY ONLY <1>3, <1>11

\* What mapEvent leaves of an answer is events of it.
LEMMA ReadableAre ==
    ASSUME NEW answer, answer.items \in Seq(Ids)
    PROVE  Api!Readable(answer) \in Seq(Ids)
  <1> DEFINE kept == {i \in DOMAIN answer.items : answer.items[i] \notin Bad}
             f == [k \in 1..Api!Cardinality(kept) |->
                      answer.items[CHOOSE i \in kept : Api!Cardinality({j \in kept : j <= i}) = k]]
  <1>1. Api!Readable(answer) = answer.items \/ Api!Readable(answer) = f  BY DEF Api!Readable
  <1>2. kept \in SUBSET DOMAIN answer.items  OBVIOUS
  <1> HIDE DEF kept
  <1>3. f \in Seq(Ids)  BY <1>2, ChosenAre
  <1> HIDE DEF f
  <1> QED  BY <1>1, <1>3

\* A part of a list of events, up to its end.
LEMMA PartIs ==
    ASSUME NEW S, NEW s \in Seq(S), NEW n \in Nat, NEW size \in Nat, NEW upto,
           upto = IF n + size < Len(s) THEN n + size ELSE Len(s)
    PROVE  SubSeq(s, n + 1, upto) \in Seq(S) /\ Len(SubSeq(s, n + 1, upto)) <= size
  <1>0. Len(s) \in Nat /\ n \in Nat /\ size \in Nat  OBVIOUS
  <1>1. n + 1 \in Int /\ upto \in Int /\ upto <= Len(s) /\ upto <= n + size  BY <1>0
  <1>2. \A j \in (n + 1)..upto : s[j] \in S  BY <1>0, <1>1
  <1>3. /\ SubSeq(s, n + 1, upto) \in Seq(S)
        /\ Len(SubSeq(s, n + 1, upto)) = IF n + 1 <= upto THEN upto - (n + 1) + 1 ELSE 0
    BY <1>1, <1>2, SubSeqProperties
  <1> QED  BY <1>0, <1>1, <1>3

\* An answer has a page at the most.
LEMMA AnswerFits ==
    ASSUME Api!EventApiAssumption, ApiInv, ApiSides, NEW i \in Isolates, NEW s \in Api!Skips
    PROVE  Len(Api!Answer(i, s).items) <= PageTake
  <1> DEFINE upto == IF s + PageTake < Len(source) THEN s + PageTake ELSE Len(source)
  <1>0. source \in Seq(Ids) /\ s \in Nat /\ PageTake \in Nat  BY ApiFacts DEF ApiInv, ApiTypeInv
  <1>1. Api!Fetched(s).items = SubSeq(source, s + 1, upto)  BY DEF Api!Fetched
  <1>2. upto = IF s + PageTake < Len(source) THEN s + PageTake ELSE Len(source)  OBVIOUS
  <1> HIDE DEF upto
  <1>3. Len(SubSeq(source, s + 1, upto)) <= PageTake  BY <1>0, <1>2, PartIs
  <1>4. Api!Answer(i, s) = cache[i][s] \/ Api!Answer(i, s) = Api!Fetched(s)  BY DEF Api!Answer
  <1> QED  BY <1>1, <1>3, <1>4 DEF ApiSides

\* What a page brings to the feed is events.
LEMMA ShownTyped ==
    ASSUME ApiInv, ApiSides, NEW items \in Seq(Ids), NEW next, NEW w, w = Api!Shown(items, next)
    PROVE  /\ w = [at |-> w.at, skip |-> w.skip, got |-> w.got, calm |-> w.calm, rss |-> w.rss]
           /\ w.at \in {"next", "done"} /\ w.got \in Seq(Ids)
  <1> DEFINE g == walk.got \o items
             a == IF next = {} THEN "done" ELSE "next"
             s == IF next = {} THEN walk.skip ELSE CHOOSE n \in next : TRUE
  <1>1. walk = [at |-> walk.at, skip |-> walk.skip, got |-> walk.got, calm |-> walk.calm, rss |-> walk.rss]
    BY DEF ApiInv, ApiTypeInv
  <1>2. g \in Seq(Ids) /\ a \in {"next", "done"}  BY DEF ApiSides
  <1>3. w = [walk EXCEPT !.got = g, !.at = a, !.skip = s]  BY <1>1 DEF Api!Shown
  <1> HIDE DEF g, a, s
  <1>4. w = [at |-> a, skip |-> s, got |-> g, calm |-> walk.calm, rss |-> walk.rss]  BY <1>1, <1>3
  <1> QED  BY <1>2, <1>4

\* Every step keeps that.
LEMMA ApiSidesKept ==
    ASSUME Api!EventApiAssumption, ApiInv, ApiSides, Api!Next
    PROVE  ApiSides'
  <1> DEFINE Fits(c) == \A i \in Isolates : \A s \in Api!Skips : Len(c[i][s].items) <= PageTake
             Goes(w) == w.at \in {"idle", "edge", "direct", "rss", "next", "done", "failed"} /\ w.got \in Seq(Ids)
  <1>0. /\ walk = [at |-> walk.at, skip |-> walk.skip, got |-> walk.got, calm |-> walk.calm, rss |-> walk.rss]
        /\ walk.skip \in Api!Skips /\ Fits(cache) /\ Goes(walk)
        /\ cache \in [Isolates -> [Api!Skips -> Answers]]
        /\ PageTake \in Nat /\ walk.skip \in Nat /\ source \in Seq(Ids)
        /\ Len(Api!Nothing.items) = 0
    BY ApiFacts DEF ApiInv, ApiTypeInv, ApiSides, Api!Nothing
  <1>w. ASSUME Fits(cache'), Goes(walk')  PROVE ApiSides'  BY <1>w DEF ApiSides
  <1>a. ASSUME NEW a \in {"edge", "direct", "rss", "failed"}, walk' = [walk EXCEPT !.at = a]  PROVE Goes(walk')
    <2>1. walk' = [at |-> a, skip |-> walk.skip, got |-> walk.got, calm |-> walk.calm, rss |-> walk.rss]
      BY <1>a, <1>0
    <2> QED  BY <2>1, <1>0
  <1>s. ASSUME NEW i \in Isolates, Api!Served(i)  PROVE Goes(walk')
    <2> DEFINE answer == Api!Answer(i, walk.skip)
               items == Api!Readable(answer)
               next == Api!NextSkip(walk.skip, answer)
    <2>1. walk' = Api!Shown(items, next)  BY <1>s DEF Api!Served
    <2>2. answer \in Answers  BY <1>0, AnswerGiven
    <2>3. answer.items \in Seq(Ids)  BY <2>2 DEF Answers
    <2> HIDE DEF answer
    <2>4. items \in Seq(Ids)  BY <2>3, ReadableAre
    <2> HIDE DEF items, next
    <2> QED  BY <2>1, <2>4, ShownTyped
  <1>c. ASSUME NEW i \in Isolates,
               cache' \in {cache, [cache EXCEPT ![i][walk.skip] = Api!Answer(i, walk.skip)]}
        PROVE  Fits(cache')
    <2> DEFINE answer == Api!Answer(i, walk.skip)
               new == [cache[i] EXCEPT ![walk.skip] = answer]
    <2>1. Len(answer.items) <= PageTake  BY <1>0, AnswerFits
    <2>2. CASE cache' = cache  BY <2>2, <1>0
    <2>3. CASE cache' = [cache EXCEPT ![i][walk.skip] = Api!Answer(i, walk.skip)]
      <3>1. cache' = [cache EXCEPT ![i] = new]  BY <2>3
      <3> HIDE DEF answer
      <3>2. \A t \in Api!Skips : new[t] = cache[i][t] \/ new[t] = answer  BY <1>0
      <3> HIDE DEF new
      <3>3. \A j \in Isolates : cache'[j] = cache[j] \/ (j = i /\ cache'[j] = new)  BY <3>1, <1>0
      <3> QED  BY <3>2, <3>3, <2>1, <1>0
    <2> QED  BY <2>2, <2>3, <1>c
  <1>1. CASE Api!Tick
    <2>1. ASSUME NEW i \in Isolates, NEW s \in Api!Skips
          PROVE  cache'[i][s].items = cache[i][s].items \/ cache'[i][s] = Api!Nothing
      <3>1. cache'[i][s] = IF cache[i][s].left <= 1 THEN Api!Nothing ELSE [cache[i][s] EXCEPT !.left = @ - 1]
        BY <1>1 DEF Api!Tick
      <3>2. cache[i][s] \in Answers  BY <1>0
      <3>3. [cache[i][s] EXCEPT !.left = @ - 1].items = cache[i][s].items  BY <3>2 DEF Answers
      <3> QED  BY <3>1, <3>3
    <2>2. walk' = walk  BY <1>1 DEF Api!Tick
    <2> QED  BY <2>1, <2>2, <1>0, <1>w
  <1>2. CASE Api!Change
    <2>1. walk' = [walk EXCEPT !.calm = FALSE] /\ cache' = cache  BY <1>2 DEF Api!Change
    <2>2. walk' = [at |-> walk.at, skip |-> walk.skip, got |-> walk.got, calm |-> FALSE, rss |-> walk.rss]
      BY <2>1, <1>0
    <2> QED  BY <2>1, <2>2, <1>0, <1>w
  <1>3. CASE Api!Load
    <2> DEFINE c == IF walk.at = "idle" THEN quiet = TTL ELSE walk.calm
    <2>1. walk' = [walk EXCEPT !.at = "edge", !.calm = c] /\ cache' = cache  BY <1>3, <1>0 DEF Api!Load
    <2> HIDE DEF c
    <2>2. walk' = [at |-> "edge", skip |-> walk.skip, got |-> walk.got, calm |-> c, rss |-> walk.rss]
      BY <2>1, <1>0
    <2> QED  BY <2>1, <2>2, <1>0, <1>w
  <1>4. CASE Api!Leave
    <2>1. walk' = Api!NoWalk /\ cache' = cache  BY <1>4 DEF Api!Leave
    <2>2. Goes(Api!NoWalk)
      <3>1. <<>> \in Seq(Ids)  OBVIOUS
      <3> QED  BY <3>1 DEF Api!NoWalk
    <2> QED  BY <2>1, <2>2, <1>0, <1>w
  <1>5. CASE Api!Rss
    <2>1. PICK feed \in {source, Api!Reverse(source)} :
             walk' = [Api!Shown(SubSeq(feed, walk.skip + 1,
                                       IF walk.skip + PageTake < Len(feed) THEN walk.skip + PageTake ELSE Len(feed)),
                                IF walk.skip + PageTake < Len(feed) THEN {walk.skip + PageTake} ELSE {})
                        EXCEPT !.rss = TRUE]
      BY <1>5 DEF Api!Rss
    <2> DEFINE next == IF walk.skip + PageTake < Len(feed) THEN {walk.skip + PageTake} ELSE {}
               upto == IF walk.skip + PageTake < Len(feed) THEN walk.skip + PageTake ELSE Len(feed)
               items == SubSeq(feed, walk.skip + 1, upto)
               shown == Api!Shown(items, next)
    <2>2. walk' = [shown EXCEPT !.rss = TRUE] /\ cache' = cache  BY <1>5, <2>1 DEF Api!Rss
    <2>3. feed \in Seq(Ids)
      <3>1. Len(source) \in Nat /\ \A k \in 1..Len(source) : source[k] \in Ids  BY <1>0
      <3>2. Api!Reverse(source) \in [1..Len(source) -> Ids]  BY <3>1 DEF Api!Reverse
      <3> QED  BY <3>1, <3>2, <1>0
    <2>4. upto = IF walk.skip + PageTake < Len(feed) THEN walk.skip + PageTake ELSE Len(feed)  OBVIOUS
    <2> HIDE DEF next, upto
    <2>5. items \in Seq(Ids)  BY <2>3, <2>4, <1>0, PartIs
    <2> HIDE DEF items
    <2>6. /\ shown = [at |-> shown.at, skip |-> shown.skip, got |-> shown.got, calm |-> shown.calm, rss |-> shown.rss]
          /\ shown.at \in {"next", "done"} /\ shown.got \in Seq(Ids)
      BY <2>5, ShownTyped
    <2> HIDE DEF shown
    <2>7. walk'.at = shown.at /\ walk'.got = shown.got  BY <2>2, <2>6
    <2> QED  BY <2>2, <2>6, <2>7, <1>0, <1>w
  <1>6. ASSUME NEW i \in Isolates, Api!Edge(i)  PROVE ApiSides'
    <2>1. \/ Api!Served(i) /\ cache' = [cache EXCEPT ![i][walk.skip] = Api!Answer(i, walk.skip)]
          \/ /\ \E a \in {"direct", "failed"} : walk' = [walk EXCEPT !.at = a]
             /\ cache' \in {cache, [cache EXCEPT ![i][walk.skip] = Api!Answer(i, walk.skip)]}
      BY <1>6 DEF Api!Edge, Api!Served
    <2> QED  BY <2>1, <1>a, <1>s, <1>c, <1>w
  <1>7. ASSUME NEW i \in Isolates, Api!Direct(i)  PROVE ApiSides'
    <2>1. \/ Api!Served(i) /\ cache' = [cache EXCEPT ![i][walk.skip] = Api!Answer(i, walk.skip)]
          \/ (\E a \in {"rss", "failed"} : walk' = [walk EXCEPT !.at = a]) /\ cache' = cache
      BY <1>7 DEF Api!Direct, Api!Served
    <2> QED  BY <2>1, <1>a, <1>s, <1>c, <1>w
  <1>8. ASSUME NEW i \in Isolates, Api!Recycle(i)  PROVE ApiSides'
    <2> DEFINE empty == [t \in Api!Skips |-> Api!Nothing]
    <2>1. walk' = walk /\ cache' = [cache EXCEPT ![i] = empty]  BY <1>8 DEF Api!Recycle
    <2>2. \A t \in Api!Skips : empty[t] = Api!Nothing  OBVIOUS
    <2> HIDE DEF empty
    <2>3. \A j \in Isolates : cache'[j] = cache[j] \/ cache'[j] = empty  BY <2>1, <1>0
    <2> QED  BY <2>1, <2>2, <2>3, <1>0, <1>w
  <1> QED  BY <1>1, <1>2, <1>3, <1>4, <1>5, <1>6, <1>7, <1>8 DEF Api!Next

\* The attempts, the decoder and the histories of a reader, and that it has a
\* result when it is done.
HttpSides ==
    /\ asked \in 0..Attempts /\ decoder \in {"clean", "half", "bad"}
    /\ freed \in BOOLEAN /\ broke \in BOOLEAN
    /\ (result # "none") = (phase = "done")
    /\ phase = "sleep" => asked < Attempts

LEMMA HttpSidesKept ==
    ASSUME HttpInv, HttpSides, Http!Next
    PROVE  HttpSides'
  <1>0. Attempts \in Nat  BY ServerConstants DEF Http!BoundedHttpAssumption
  <1>d. \A d \in {"clean", "half", "bad"} : \A c : Http!Decoded(d, c) \in {"clean", "half", "bad"}
    BY DEF Http!Decoded
  <1>1. ASSUME NEW code \in Http!Statuses, Http!Refuse(code)  PROVE HttpSides'
    BY <1>1 DEF HttpSides, Http!Refuse, Http!GiveUp, Http!End
  <1>2. ASSUME NEW m \in Http!Messages, Http!HeadArrives(m)  PROVE HttpSides'
    <2>1. Http!HeadFault(m) = "none" => phase' = "body" /\ result' = "none"
      BY <1>2 DEF Http!HeadArrives
    <2>2. Http!HeadFault(m) # "none" => phase' = "done" /\ result' = Http!HeadFault(m)
      BY <1>2 DEF Http!HeadArrives, Http!End
    <2>3. freed' \in BOOLEAN /\ UNCHANGED <<asked, decoder, broke>>  BY <1>2 DEF Http!HeadArrives
    <2> QED  BY <2>1, <2>2, <2>3 DEF HttpSides
  <1>3. ASSUME NEW n \in 1..MaxBytes, Http!Overflow(n) \/ Http!KeepChunk(n)  PROVE HttpSides'
    BY <1>3 DEF HttpSides, Http!Overflow, Http!KeepChunk, Http!End
  <1>4. ASSUME NEW n \in 1..MaxBytes, Http!StreamChunk(n)  PROVE HttpSides'
    <2>1. decoder' = Http!Decoded(decoder, SubSeq(msg.bytes, got + 1, got + n))
      BY <1>4 DEF Http!StreamChunk
    <2>2. decoder' \in {"clean", "half", "bad"}  BY <2>1, <1>d DEF HttpSides
    <2>3. /\ UNCHANGED <<asked, freed, broke>> /\ phase = "body"
          /\ (phase' = "done" /\ result' = "json") \/ UNCHANGED <<phase, result>>
      BY <1>4 DEF Http!StreamChunk, Http!End
    <2> QED  BY <2>2, <2>3 DEF HttpSides
  <1>5. CASE Http!Finish
    <2>1. decoder' \in {"clean", "half", "bad"}
      <3>1. decoder' = decoder \/ decoder' = Http!Decoded("clean", msg.bytes)  BY <1>5 DEF Http!Finish
      <3> QED  BY <3>1, <1>d DEF HttpSides
    <2>2. freed' = TRUE /\ UNCHANGED <<asked, broke>> /\ phase' = "done" /\ result' \in {"json", "encoding", "ok"}
      BY <1>5 DEF Http!Finish, Http!End
    <2> QED  BY <2>1, <2>2 DEF HttpSides
  <1>6. CASE Http!Break
    BY <1>6 DEF HttpSides, Http!Break, Http!GiveUp, Http!End
  <1>7. CASE Http!Again
    <2>1. /\ phase = "sleep" /\ phase' = "wait" /\ asked' = asked + 1 /\ result' = result
          /\ decoder' = "clean" /\ freed' = FALSE /\ broke' = FALSE
      BY <1>7 DEF Http!Again
    <2>2. asked \in 0..Attempts /\ asked < Attempts /\ result = "none"  BY <2>1 DEF HttpSides
    <2>3. asked' \in 0..Attempts  BY <1>0, <2>1, <2>2
    <2> QED  BY <2>1, <2>2, <2>3 DEF HttpSides
  <1> QED  BY <1>1, <1>2, <1>3, <1>4, <1>5, <1>6, <1>7 DEF Http!Next

\* The types of what the five functions keep: the rows of the outbox and the
\* workers' locals, the events and the runs of ingest-events, the caches and the
\* pages of a feed, and the readers of bodies.
THEOREM ServerTypes == ServerSpec => []ServerTypeOK
  <1> DEFINE Step == [ServerNext]_<<mode, vars, ingestVars, apiVars, httpVars>>
  <1>1. Ingest!EventIngestAssumption /\ Api!EventApiAssumption /\ Http!BoundedHttpAssumption
    BY ServerConstants
  <1>2. ServerInit => IngestInv /\ ApiInv /\ ApiSides /\ HttpInv /\ HttpSides
    <2> SUFFICES ASSUME Ingest!Init, Api!Init, Http!Init
                 PROVE  IngestInv /\ ApiInv /\ ApiSides /\ HttpInv /\ HttpSides
      BY DEF ServerInit
    <2>1. IngestInv /\ ApiInv  BY <1>1, IngestBegins, ApiBegins
    <2>2. ApiSides
      <3>1. walk = Api!NoWalk /\ cache = [i \in Isolates |-> [s \in Api!Skips |-> Api!Nothing]]  BY DEF Api!Init
      <3>2. PageTake \in Nat /\ <<>> \in Seq(Ids) /\ Len(Api!Nothing.items) = 0
        BY <1>1 DEF Api!EventApiAssumption, Api!Nothing
      <3>3. \A i \in Isolates : \A s \in Api!Skips : cache[i][s] = Api!Nothing  BY <3>1
      <3> QED  BY <3>1, <3>2, <3>3 DEF ApiSides, Api!NoWalk
    <2>3. HttpInv  BY EmptyIsMessage DEF Http!Init, HttpInv, Http!BodyRead
    <2>4. HttpSides
      <3>1. asked = 1 /\ 1 \in 0..Attempts  BY <1>1 DEF Http!Init, Http!BoundedHttpAssumption
      <3> QED  BY <3>1 DEF Http!Init, HttpSides
    <2> QED  BY <2>1, <2>2, <2>3, <2>4
  <1>3. IngestInv /\ Step => IngestInv'
    <2>1. Step => [Ingest!Next]_ingestVars  BY DEF ServerNext
    <2> HIDE DEF Step
    <2> QED  BY <2>1, <1>1, IngestKept
  <1>4. ApiInv /\ ApiSides /\ Step => ApiInv' /\ ApiSides'
    <2>1. ASSUME ApiInv, ApiSides, UNCHANGED apiVars  PROVE ApiInv' /\ ApiSides'
      BY <2>1 DEF apiVars, ApiInv, ApiTypeInv, ApiSides, CacheInv, WalkInv, Current, Apart, Api!Fetched, Api!ToSet
    <2>2. ASSUME ApiInv, Api!Next  PROVE ApiInv'
      BY <2>2, <1>1, TickKept, ListKept, FeedKept, IsolateKept DEF Api!Next
    <2>3. Step => Api!Next \/ UNCHANGED apiVars  BY DEF ServerNext
    <2> HIDE DEF Step
    <2> QED  BY <2>1, <2>2, <2>3, <1>1, ApiSidesKept
  <1>5. HttpInv /\ HttpSides /\ Step => HttpInv' /\ HttpSides'
    <2>1. ASSUME HttpInv, HttpSides, UNCHANGED httpVars  PROVE HttpInv' /\ HttpSides'
      BY <2>1 DEF httpVars, HttpInv, HttpSides, Http!BodyRead, Http!Sound, Http!HeadFault
    <2>2. ASSUME HttpInv, Http!Next  PROVE HttpInv'
      BY <2>2, HeadKept, ChunkKept, EndKept DEF Http!Next
    <2>3. Step => Http!Next \/ UNCHANGED httpVars  BY DEF ServerNext
    <2> HIDE DEF Step
    <2> QED  BY <2>1, <2>2, <2>3, HttpSidesKept
  <1>6. IngestInv => Ingest!IngestTypeOK
    <2> SUFFICES ASSUME IngestInv  PROVE Ingest!IngestTypeOK  OBVIOUS
    <2>1. list \in Seq(Ids) /\ Apart(list)  BY DEF IngestInv, IngestTypeInv
    <2>2. Ingest!IsInjective(list)  BY <2>1 DEF Apart, Ingest!IsInjective
    <2>3. clock \in 0..MaxClock
      <3>1. clock \in 1..MaxClock  BY DEF IngestInv, IngestTypeInv
      <3>2. MaxClock \in Nat  BY <1>1 DEF Ingest!EventIngestAssumption
      <3> QED  BY <3>1, <3>2
    <2> QED  BY <2>1, <2>2, <2>3 DEF IngestInv, IngestTypeInv, StampInv, RunRecords, Ingest!IngestTypeOK
  <1>7. ApiInv /\ ApiSides => Api!ApiTypeOK
    <2> SUFFICES ASSUME ApiInv, ApiSides  PROVE Api!ApiTypeOK  OBVIOUS
    <2>1. source \in Seq(Ids) /\ Apart(source)  BY DEF ApiInv, ApiTypeInv
    <2>2. Api!IsInjective(source)  BY <2>1 DEF Apart, Api!IsInjective
    <2>3. \A i \in Isolates : \A s \in Api!Skips : cache[i][s] \in Answers  BY DEF ApiInv, ApiTypeInv
    <2>4. \A i \in Isolates : \A s \in Api!Skips : cache[i][s].left \in 0..TTL  BY <2>3 DEF Answers
    <2>5. walk.skip \in Nat  BY <1>1, ApiFacts DEF ApiInv, ApiTypeInv
    <2> QED  BY <2>1, <2>2, <2>4, <2>5 DEF ApiInv, ApiTypeInv, ApiSides, Api!ApiTypeOK
  <1>8. HttpInv /\ HttpSides => Http!HttpTypeOK
    BY DEF HttpInv, HttpSides, Http!HttpTypeOK
  <1>9. ServerSpec => [](OutboxTypeOK /\ ReceiptTypeOK)  BY IsOutbox, OutboxTypes
  <1> QED  BY <1>2, <1>3, <1>4, <1>5, <1>6, <1>7, <1>8, <1>9, PTL DEF ServerSpec, ServerTypeOK
=============================================================================
