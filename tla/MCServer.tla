------------------------------ MODULE MCServer ------------------------------
(* The edge functions of the server, one at a time: a behaviour belongs to   *)
(* one of five, which share nothing, and leaves the others as they begin.    *)
(* "dispatch" and "receipts" are the outbox with two invocations of the one  *)
(* or the other worker, "ingest" and "api" the two ways of the events, "http" *)
(* the bodies that the functions read.                                       *)
EXTENDS PushReceipts, Sequences

CONSTANTS Ids,                                              \* the provider's events
          Incomplete, Runs, PageSize, MaxEvents, MaxClock,  \* of EventIngest
          Odd, Bad, Isolates, PageTake, TTL,                \* of EventApi
          Limit, MaxBytes, Attempts,                        \* of BoundedHttp
          OnePhone, OneDispatcher                           \* what "receipts" is checked with

VARIABLES mode, clock, list, ver, dated, db, run, sync, source, quiet, cache, walk,
    reader, asked, msg, phase, got, decoder, result, freed, broke

ingestVars == <<clock, list, ver, dated, db, run, sync>>
apiVars    == <<source, quiet, cache, walk>>
httpVars   == <<reader, asked, msg, phase, got, decoder, result, freed, broke>>

Ingest == INSTANCE EventIngest

Api == INSTANCE EventApi

Http == INSTANCE BoundedHttp

ASSUME ServerConstants ==
    /\ Ingest!EventIngestAssumption /\ Api!EventApiAssumption /\ Http!BoundedHttpAssumption
    /\ OnePhone \in Tokens /\ OneDispatcher \in Dispatchers

ServerInit ==
    /\ mode \in {"dispatch", "receipts", "ingest", "api", "http"}
    /\ Init /\ Ingest!Init /\ Api!Init /\ Http!Init
    /\ active = IF mode = "receipts" THEN {OnePhone} ELSE Tokens
    /\ mode # "ingest" => list = <<CHOOSE e \in Ids : TRUE>> /\ dated
    /\ mode # "http" => reader = "shared"

\* One phone and one dispatcher at a time.
Alone == /\ active' \subseteq {OnePhone}
         /\ \A k \in Tasks : k[1] # OneDispatcher => at'[k] = "idle"

ServerNext ==
    /\ UNCHANGED mode
    /\ \/ mode = "dispatch" /\ OutboxStep /\ UNCHANGED <<ingestVars, apiVars, httpVars>>
       \/ mode = "receipts" /\ Next /\ Alone /\ UNCHANGED <<ingestVars, apiVars, httpVars>>
       \/ mode = "ingest" /\ Ingest!Next /\ UNCHANGED <<vars, apiVars, httpVars>>
       \/ mode = "api" /\ Api!Next /\ UNCHANGED <<vars, ingestVars, httpVars>>
       \/ mode = "http" /\ Http!Next /\ UNCHANGED <<vars, ingestVars, apiVars>>

ServerSpec == ServerInit /\ [][ServerNext]_<<mode, vars, ingestVars, apiVars, httpVars>>

-----------------------------------------------------------------------------
(* Properties: those of the five modules *)

\* The types of the stored rows, of the workers' locals and of the caches.
ServerTypeOK ==
    /\ OutboxTypeOK /\ ReceiptTypeOK
    /\ Ingest!IngestTypeOK
    /\ Api!ApiTypeOK
    /\ Http!HttpTypeOK

\* A transaction of ingest-events never takes the database back, and brings it
\* up to date with what it could have read.
RunCommits == Ingest!RunCommits

\* A feed that was read to its end shows every event once and in order.
FeedWhole == Api!FeedWhole

\* What is accepted of a body is a sound message, and no sound one is refused.
BodyRead == Http!BodyRead
=============================================================================
