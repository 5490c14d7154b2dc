---------------------------- MODULE EventIngest ----------------------------
(* How the events of the provider (etkinlik.io) get into the database: runs  *)
(* of ingest-events, triggered by a scheduler through the edge, page through *)
(* the provider's list, most recently changed first, and commit what they    *)
(* read in one transaction; sync-event stores one event on demand.  Runs may *)
(* overlap, and the provider's list changes under them.                      *)
EXTENDS Naturals, Sequences, FiniteSets, SequencesExt

CONSTANTS Ids,         \* the provider's events
          Incomplete,  \* those without a field that mapEvent requires
          Runs,        \* invocations of ingest-events
          PageSize,    \* PAGE_SIZE
          MaxEvents,   \* MAX_EVENTS_PER_RUN
          MaxClock     \* bound: changes, runs and stamps

\* What the constants are.
EventIngestAssumption ==
    /\ Incomplete \subseteq Ids /\ {PageSize, MaxEvents, MaxClock} \subseteq Nat \ {0}

VARIABLES clock,
          list,   \* the upcoming events, by their last change (sort_by=updated)
          ver,    \* when each event was changed last: its content, and modified_at
          dated,  \* whether the provider gives modified_at
          db,     \* public.events
          run,    \* the runs
          sync    \* one call of sync-event
vars == <<clock, list, ver, dated, db, run, sync>>

None  == [ver |-> 0, stamp |-> 0, by |-> "none"]
Stored == [ver : 0..MaxClock, stamp : 0..MaxClock, by : {"none", "ingest", "sync"}]

\* at; started: ingested_at of its rows; skip and total of the loop; rows: the
\* content read of each event (0: not read).  History: met, the events
\* listed since the start and not changed; shrunk, an event has left the list.
NoRun  == [at |-> "idle", started |-> 0, skip |-> 0, rows |-> [e \in Ids |-> 0],
           met |-> {}, shrunk |-> FALSE]
NoSync == [at |-> "idle", id |-> CHOOSE e \in Ids : TRUE, ver |-> 0]

IngestTypeOK ==
    /\ clock \in 0..MaxClock
    /\ list \in Seq(Ids) /\ IsInjective(list)
    /\ ver \in [Ids -> 0..MaxClock] /\ dated \in BOOLEAN
    /\ db \in [Ids -> Stored]
    /\ run \in [Runs -> [at : {"idle", "page", "commit"}, started : 0..MaxClock, skip : 0..(MaxEvents + PageSize),
                         rows : [Ids -> 0..MaxClock], met : SUBSET Ids, shrunk : BOOLEAN]]
    /\ sync \in [at : {"idle", "fetch", "write"}, id : Ids, ver : 0..MaxClock]
    /\ \A e \in Ids : db[e].ver <= ver[e]

Init ==
    /\ clock = 1
    /\ \E first \in Ids : list = <<first>> /\ ver = [e \in Ids |-> IF e = first THEN 1 ELSE 0]
    /\ dated \in BOOLEAN
    /\ db = [e \in Ids |-> None] /\ run = [r \in Runs |-> NoRun] /\ sync = NoSync

Tick == clock < MaxClock /\ clock' = clock + 1

Complete(e) == e \notin Incomplete

-----------------------------------------------------------------------------
(* The provider *)

Disturbed(e, left) ==
    [r \in Runs |-> IF run[r].at = "idle" THEN run[r]
                    ELSE [run[r] EXCEPT !.met = @ \ {e}, !.shrunk = @ \/ left]]

\* An event is added, or an event is changed.
Change(e) ==
    /\ Tick
    /\ list' = <<e>> \o RemoveFirst(list, e)
    /\ ver' = [ver EXCEPT ![e] = clock']
    /\ run' = Disturbed(e, FALSE)
    /\ UNCHANGED <<dated, db, sync>>

\* It begins (start_gte is the time of each page), or is withdrawn.
Leave(e) ==
    /\ e \in ToSet(list)
    /\ list' = RemoveFirst(list, e)
    /\ run' = Disturbed(e, TRUE)
    /\ UNCHANGED <<clock, ver, dated, db, sync>>

-----------------------------------------------------------------------------
(* ingest-events *)

\* The edge lets one trigger through for each nonce; when it gives up waiting
\* for the origin, the run goes on and the scheduler may trigger another one.
Trigger(r) ==
    /\ run[r].at = "idle" /\ Tick
    /\ run' = [run EXCEPT ![r] = [NoRun EXCEPT !.at = "page", !.started = clock', !.met = ToSet(list)]]
    /\ UNCHANGED <<list, ver, dated, db, sync>>

LastOf(m, n) == IF m < n THEN m ELSE n
PageOf(skip) == SubSeq(list, skip + 1, LastOf(skip + PageSize, Len(list)))

\* rows by external_id: of two rows of an event the later one counts.
With(rows, items) == [e \in Ids |-> IF e \in ToSet(items) /\ Complete(e) THEN ver[e] ELSE rows[e]]

After(r, items, last) ==
    LET rows == With(run[r].rows, items) IN
    IF ~last THEN [run[r] EXCEPT !.skip = @ + PageSize, !.rows = rows]
    ELSE IF \A e \in Ids : rows[e] = 0 THEN NoRun
    ELSE [run[r] EXCEPT !.at = "commit", !.rows = rows]

Ends(r, read) ==
    \/ read < PageSize
    \/ run[r].skip + PageSize >= LastOf(Len(list), MaxEvents)

\* Mutant: the rows that mapEvent accepts decide whether this was the last page.
PageValid(r) ==
    /\ run[r].at = "page"
    /\ LET items == PageOf(run[r].skip)
           read  == Cardinality({e \in ToSet(items) : Complete(e)})
       IN  run' = [run EXCEPT ![r] = After(r, items, Ends(r, read))]
    /\ UNCHANGED <<clock, list, ver, dated, db, sync>>

\* fetchPage, the retries of fetchBoundedJson included.
Page(r) ==
    /\ run[r].at = "page"
    /\ LET items == PageOf(run[r].skip)
       IN  run' = [run EXCEPT ![r] = After(r, items, Ends(r, Len(items)))]
    /\ UNCHANGED <<clock, list, ver, dated, db, sync>>

\* A page cannot be read, the function is stopped or the transaction fails:
\* nothing is written.
Fail(r) ==
    /\ run[r].at # "idle"
    /\ run' = [run EXCEPT ![r] = NoRun]
    /\ UNCHANGED <<clock, list, ver, dated, db, sync>>

Row(r, e) == [ver |-> run[r].rows[e], stamp |-> IF dated THEN run[r].rows[e] ELSE run[r].started, by |-> "ingest"]

\* Mutant: the last transaction wins.
CommitAny(r) ==
    /\ run[r].at = "commit"
    /\ db' = [e \in Ids |-> IF run[r].rows[e] # 0 THEN Row(r, e) ELSE db[e]]
    /\ run' = [run EXCEPT ![r] = NoRun]
    /\ UNCHANGED <<clock, list, ver, dated, sync>>

\* ingest_events_batch: serialised by its lock; a row replaces the stored one
\* unless its version is older.
Commit(r) ==
    /\ run[r].at = "commit"
    /\ db' = [e \in Ids |-> IF run[r].rows[e] # 0 /\ Row(r, e).stamp >= db[e].stamp THEN Row(r, e) ELSE db[e]]
    /\ run' = [run EXCEPT ![r] = NoRun]
    /\ UNCHANGED <<clock, list, ver, dated, sync>>

-----------------------------------------------------------------------------
(* sync-event *)

\* Someone joins or saves an event that the database does not have.
Sync(e) ==
    /\ sync.at = "idle" /\ ver[e] # 0
    /\ db[e] = None
    /\ sync' = [sync EXCEPT !.at = "fetch", !.id = e]
    /\ UNCHANGED <<clock, list, ver, dated, db, run>>

SyncFetch ==
    /\ sync.at = "fetch"
    /\ sync' \in {NoSync, [sync EXCEPT !.at = "write", !.ver = ver[sync.id]]}
    /\ UNCHANGED <<clock, list, ver, dated, db, run>>

\* The upsert is unconditional, its ingested_at the time after the fetch.
SyncWrite ==
    /\ sync.at = "write" /\ Tick
    /\ db' = [db EXCEPT ![sync.id] = [ver |-> sync.ver, stamp |-> IF dated THEN sync.ver ELSE clock', by |-> "sync"]]
    /\ sync' = NoSync
    /\ UNCHANGED <<list, ver, dated, run>>

Next ==
    \/ \E e \in Ids : Change(e) \/ Leave(e) \/ Sync(e)
    \/ \E r \in Runs : Trigger(r) \/ Page(r) \/ Fail(r) \/ Commit(r)
    \/ SyncFetch \/ SyncWrite

Spec == Init /\ [][Next]_vars

-----------------------------------------------------------------------------
(* Properties *)

Window == {e \in ToSet(list) : \E i \in 1..LastOf(Len(list), MaxEvents) : list[i] = e}

\* "This prevents an older overlapping run from overwriting a newer committed
\* snapshot" (20260830110000:180): where the provider dates its events, a
\* transaction never takes an event back, not even to what a run that began
\* later has read earlier.
NeverBack(r) == (run[r].at = "commit" /\ run'[r].at = "idle" /\ dated) =>
                   \A e \in Ids : db'[e].ver >= db[e].ver

\* A run pages by offset through a list that changes, and may be overlapped by
\* others: when it commits, what was listed since it began and has not changed
\* is up to date in the database, if the list still has it among the first
\* MaxEvents and no event has left the list; only an undated event that
\* sync-event stamped after reading it stays behind.
CatchesUp(r) == (Commit(r) /\ ~run[r].shrunk) =>
                   \A e \in (run[r].met \cap Window) \ Incomplete :
                       db'[e].ver = ver[e] \/ (~dated /\ db[e].by = "sync")

RunCommits == [][\A r \in Runs : NeverBack(r) /\ CatchesUp(r)]_vars
=============================================================================
