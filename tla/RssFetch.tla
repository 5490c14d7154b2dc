------------------------------ MODULE RssFetch ------------------------------
(* The app reads the public RSS feeds of etkinlik.io when its API fails:     *)
(* rssEventService.ts over the retrying fetch of network.ts.  A feed lists   *)
(* no more than its newest items, so a load asks for one feed per format and *)
(* category, some at a time, and splits the feeds that came back full.  A    *)
(* load of a screen carries its signal; the loads of the search index have   *)
(* none and share their requests.                                            *)
EXTENDS Naturals, Sequences, FiniteSets, SequencesExt

CONSTANTS Loads,       \* calls of the loading functions
          Formats, Categories,
          Items,       \* the published events
          Limit,       \* rssFeedLimit
          Concurrency, \* rssRequestConcurrency
          Attempts,    \* attempts of createRetryingGetFetch
          Kinds,       \* the kinds of loads
          None,
          MaxTroubles  \* bound: attempts that fail, and caches that are emptied

\* What the constants are.  Items are numbers: a later one is newer.  A format
\* is an id of the catalog, none of the model's names for what has no format.
RssFetchAssumption ==
    /\ Items \subseteq Nat
    /\ IsFiniteSet(Items) /\ IsFiniteSet(Formats) /\ IsFiniteSet(Categories)
    /\ Limit \in Nat \ {0} /\ Concurrency \in Nat \ {0}
    /\ Attempts \in Nat \ {0} /\ MaxTroubles \in Nat
    /\ Kinds \subseteq Formats \cup {"preview", "index", "broad"}
    /\ None \notin Loads \cup Formats \cup Categories
    /\ Formats \cap {"catalog", "preview", "index", "broad"} = {}
    /\ None \notin {"catalog", "kept"} /\ "kept" \notin Loads

VARIABLES published,  \* what the server lists: the kind of each item
          feedCache,  \* the feeds of feedCache that are fresh
          shared,     \* feedRequests and catalogRequest: who began the request
          req,        \* the requests under way
          load,       \* the loads
          troubles
vars == <<published, feedCache, shared, req, load, troubles>>

-----------------------------------------------------------------------------
(* Feeds *)

\* A feed is asked for by a format, a category or both (turIds, kategoriIds).
Feeds   == [format : Formats \cup {None}, category : Categories \cup {None}]
All     == [format |-> None, category |-> None]
Catalog == [format |-> "catalog", category |-> "catalog"]

In(feed, i) ==
    /\ feed.format \in {None, published[i].format}
    /\ feed.category \in {None, published[i].category}

\* The server lists the newest items; the client drops those it cannot read.
Listed(feed) ==
    LET all == {i \in Items : In(feed, i)} IN
    {i \in all : Cardinality({j \in all : j > i}) < Limit}
Parsed(feed) == {i \in Listed(feed) : published[i].readable}

OfFormats    == {[All EXCEPT !.format = f] : f \in Formats}
OfCategories == {[All EXCEPT !.category = k] : k \in Categories}

\* partitionRssUrl
Partition(feed) ==
    CASE feed.format # None /\ feed.category = None -> {[feed EXCEPT !.category = k] : k \in Categories}
      [] feed.format = None /\ feed.category # None -> {[feed EXCEPT !.format = f] : f \in Formats}
      [] OTHER -> {}

\* rssUrlsForCatalog: the feeds of the chosen format, or every one; a preview
\* without a choice reads the first.
Urls(kind) ==
    CASE kind \in Formats              -> {[All EXCEPT !.format = kind]}
      [] kind = "preview"              -> {All}
      [] kind \in {"index", "broad"} -> {All} \cup OfFormats \cup OfCategories

\* The loads of screens pass a signal; those of the search index do not.
Signalled(kind) == kind \in Formats \cup {"preview"}
Splits(kind)    == kind \in Formats \cup {"index"}

Published == [format : Formats, category : Categories, readable : BOOLEAN]

-----------------------------------------------------------------------------
(* State *)

\* todo: the feeds of the set that were not asked for; open: the answers the
\* load awaits, with who asked; asked and got: the feeds asked for and those
\* that answered; failed: one did not (firstError); live: nobody aborted it.
NoLoad == [kind |-> None, at |-> "idle", todo |-> <<>>, open |-> {}, asked |-> {}, got |-> {},
           failed |-> FALSE, live |-> TRUE]
Ended  == {"idle", "done", "failed"}

Asks   == Feeds \cup {Catalog}
Quiet  == [at |-> "none", n |-> 0]

RssTypeOK ==
    /\ published \in [Items -> Published]
    /\ feedCache \subseteq Feeds
    /\ shared \in [Asks -> Loads \cup {None, "kept"}]
    /\ req \in [Loads \X Asks -> [at : {"none", "send", "sleep"}, n : 0..Attempts]]
    /\ \A l \in Loads :
          /\ load[l].kind \in Kinds \cup {None}
          /\ load[l].at \in Ended \cup {"catalog", "feeds", "split", "parts"}
          /\ load[l].got \subseteq load[l].asked
          /\ \A w \in load[l].open : req[<<w[2], w[1]>>] # Quiet
    /\ troubles \in 0..MaxTroubles

Init ==
    /\ published \in [Items -> Published]
    /\ feedCache = {} /\ shared = [a \in Asks |-> None]
    /\ req = [x \in Loads \X Asks |-> Quiet]
    /\ load = [l \in Loads |-> NoLoad] /\ troubles = 0

-----------------------------------------------------------------------------
(* Requests: createRetryingGetFetch and requestEtkinlikIoText *)

\* fetchRssUrl and getRssCatalog: a load without a signal joins the request
\* of another one; a load with a signal makes its own.
Joined(kind, asks) == IF Signalled(kind) THEN {} ELSE {a \in asks : shared[a] # None}

Ask(l, kind, asks) ==
    LET new == asks \ Joined(kind, asks) IN
    /\ req' = [x \in Loads \X Asks |-> IF x[1] = l /\ x[2] \in new THEN [at |-> "send", n |-> 1]
                                                                  ELSE req[x]]
    /\ shared' = IF Signalled(kind) THEN shared
                 ELSE [a \in Asks |-> IF a \in new THEN l ELSE shared[a]]

Awaited(l, kind, asks) ==
    {<<a, l>> : a \in asks \ Joined(kind, asks)}
    \cup {<<a, shared[a]>> : a \in {b \in Joined(kind, asks) : shared[b] # "kept"}}

Trouble == troubles < MaxTroubles /\ troubles' = troubles + 1

\* An attempt ends with a status to try again (429, 5xx) or an error (of the
\* network, or the 15 s of createTimeoutFetch), was not the last one, and
\* nobody has aborted the load.
Refused(l, a) ==
    /\ req[<<l, a>>].at = "send" /\ req[<<l, a>>].n < Attempts /\ load[l].live
    /\ req' = [req EXCEPT ![<<l, a>>].at = "sleep"]
    /\ Trouble
    /\ UNCHANGED <<published, feedCache, shared, load>>

\* The sleep is over (the exponential delay or Retry-After, 30 s at most).
Retry(l, a) ==
    /\ req[<<l, a>>].at = "sleep" /\ load[l].live
    /\ req' = [req EXCEPT ![<<l, a>>] = [at |-> "send", n |-> @.n + 1]]
    /\ UNCHANGED <<published, feedCache, shared, load, troubles>>

\* Mutant: Promise.all, which the first failure ends.
ToldAll(l, a, ok) ==
    [m \in Loads |->
        IF <<a, l>> \notin load[m].open THEN load[m]
        ELSE IF ~ok THEN [load[m] EXCEPT !.at = "failed", !.open = {}]
        ELSE [load[m] EXCEPT !.open = @ \ {<<a, l>>}, !.got = IF a # Catalog THEN @ \cup {a} ELSE @]]

\* Promise.allSettled: a feed that failed does not end the load; a catalog does.
Told(l, a, ok) ==
    [m \in Loads |->
        IF <<a, l>> \notin load[m].open THEN load[m]
        ELSE IF a = Catalog /\ ~ok THEN [load[m] EXCEPT !.at = "failed", !.open = {}]
        ELSE [load[m] EXCEPT !.open = @ \ {<<a, l>>}, !.failed = @ \/ ~ok,
                             !.got = IF ok /\ a # Catalog THEN @ \cup {a} ELSE @]]

\* finally: feedRequests.delete(url), whoever has put the present entry there;
\* catalogRequest stays until it fails.
Unshared(l, a, ok) ==
    CASE Signalled(load[l].kind)       -> shared
      [] ~Signalled(load[l].kind) /\ (a # Catalog \/ ~ok) -> [shared EXCEPT ![a] = None]
      [] OTHER                         -> [shared EXCEPT ![a] = IF @ = l THEN "kept" ELSE @]

Settle(l, a, ok) ==
    /\ req' = [req EXCEPT ![<<l, a>>] = Quiet]
    /\ shared' = Unshared(l, a, ok)
    /\ load' = Told(l, a, ok)
    /\ UNCHANGED published

\* An attempt ends with a body that is read (readResponseTextLimited) and
\* parsed (requestRssUrl, parseRssCatalog).
Answered(l, a) ==
    /\ req[<<l, a>>].at = "send" /\ load[l].live
    /\ feedCache' = IF a = Catalog THEN feedCache ELSE feedCache \cup {a}
    /\ Settle(l, a, TRUE)
    /\ UNCHANGED troubles

\* Any other end of an attempt: a redirect, a status that is not tried again,
\* the last attempt, a body too long, too slow or of another kind; or the
\* load is aborted, which rejects the fetch, the sleep and the read alike.
Failed(l, a) ==
    /\ \/ req[<<l, a>>].at = "send" /\ load[l].live /\ Trouble
       \/ req[<<l, a>>].at # "none" /\ ~load[l].live /\ UNCHANGED troubles
    /\ UNCHANGED feedCache
    /\ Settle(l, a, FALSE)

-----------------------------------------------------------------------------
(* Loads: fetchRssEvents, fetchRssEventPreview, loadUniversalRssBroadIndex *)

\* The load asks for the catalog: it names the feeds, and their parts.
AskCatalog(l, kind, step) ==
    /\ Ask(l, kind, {Catalog})
    /\ load' = [load EXCEPT ![l].kind = kind, ![l].at = step, ![l].open = Awaited(l, kind, {Catalog})]
    /\ UNCHANGED <<published, feedCache, troubles>>

\* The calls are alike: the next one begins.
Begin(l, kind) ==
    /\ load[l].at = "idle" /\ l = CHOOSE m \in Loads : load[m].at = "idle"
    /\ AskCatalog(l, kind, "catalog")

\* fetchRssUrlSet: the next chunk of feeds; those that are fresh in feedCache
\* are not asked for.
AskFeeds(l, step, todo) ==
    LET kind  == load[l].kind
        chunk == ToSet(SubSeq(todo, 1, Min({Concurrency, Len(todo)})))
        asks  == chunk \ feedCache
    IN  /\ Ask(l, kind, asks)
        /\ load' = [load EXCEPT ![l].at = step,
                                ![l].todo = SubSeq(todo, Concurrency + 1, Len(todo)),
                                ![l].asked = @ \cup chunk,
                                ![l].got = @ \cup (chunk \cap feedCache),
                                ![l].open = Awaited(l, kind, asks)]
        /\ UNCHANGED <<published, feedCache, troubles>>

\* Mutant: only a feed above the limit is taken for full.
FullAbove(l) == {f \in load[l].got : Cardinality(Parsed(f)) > Limit}

\* saturatedUrls: the feeds that came back full; and their parts.
Full(l)    == {f \in load[l].got : Cardinality(Parsed(f)) = Limit}
PartsOf(l) == UNION {Partition(f) : f \in Full(l)}

Result(l)  == UNION {Parsed(f) : f \in load[l].got}
Ready(l)   == load[l].at \notin Ended /\ load[l].open = {} /\ load[l].live
ToSplit(l) == load[l].at = "feeds" /\ Splits(load[l].kind) /\ Full(l) # {}

\* The awaited answers have come: the load goes on with its feeds, with the
\* parts of the full ones, or ends.  One without events fails.
GoOn(l) ==
    /\ Ready(l)
    /\ \/ /\ load[l].at = "catalog"
          /\ AskFeeds(l, "feeds", SetToSeq(Urls(load[l].kind)))
       \/ /\ load[l].todo # <<>>
          /\ AskFeeds(l, load[l].at, load[l].todo)
       \/ /\ load[l].todo = <<>> /\ ToSplit(l)
          /\ AskCatalog(l, load[l].kind, "split")
       \/ /\ load[l].at = "split"
          /\ AskFeeds(l, "parts", SetToSeq(PartsOf(l) \ load[l].asked))
       \/ /\ load[l].at \in {"feeds", "parts"} /\ load[l].todo = <<>> /\ ~ToSplit(l)
          /\ load' = [load EXCEPT ![l].at = IF Result(l) = {} THEN "failed" ELSE "done"]
          /\ UNCHANGED <<published, feedCache, shared, req, troubles>>

\* The screen is left, or its query is cancelled.
Abort(l) ==
    /\ load[l].at \notin Ended /\ Signalled(load[l].kind) /\ load[l].live
    /\ load' = [load EXCEPT ![l].live = FALSE]
    /\ UNCHANGED <<published, feedCache, shared, req, troubles>>

\* The checks of signal.aborted around a chunk: all of it has settled.
GiveUp(l) ==
    /\ load[l].at \notin Ended /\ load[l].open = {} /\ ~load[l].live
    /\ load' = [load EXCEPT ![l].at = "failed"]
    /\ UNCHANGED <<published, feedCache, shared, req, troubles>>

\* clearRssFeedCache, when a screen refreshes; or feedCacheDurationMs is over.
Forget ==
    /\ Trouble
    /\ feedCache' = {}
    /\ \/ shared' = [a \in Asks |-> None]
       \/ UNCHANGED shared
    /\ UNCHANGED <<published, req, load>>

Next ==
    \/ \E l \in Loads :
         \/ \E kind \in Kinds : Begin(l, kind)
         \/ GoOn(l) \/ Abort(l) \/ GiveUp(l)
         \/ \E a \in Asks : Refused(l, a) \/ Retry(l, a) \/ Answered(l, a) \/ Failed(l, a)
    \/ Forget

Spec == Init /\ [][Next]_vars

-----------------------------------------------------------------------------
(* Properties *)

\* A feed whose newest items include one that the client cannot read does not
\* look full.
LooksShort(f) == Cardinality(Listed(f)) = Limit /\ Parsed(f) # Listed(f)

\* What a load may miss: an item beyond the limit of its own part, or one
\* whose every feed of the load looked short.
Beyond(l, i) ==
    \/ i \notin Listed([format |-> published[i].format, category |-> published[i].category])
    \/ \A f \in Urls(load[l].kind) \ {All} : In(f, i) => LooksShort(f)

\* A load none of whose requests failed has every item of its format (of
\* every format, for the index) although no feed lists them all: chunks, the
\* cache, joined requests and the parts of full feeds leave no gap.
WholeLoad ==
    \A l \in Loads :
        load[l].at = "done" /\ ~load[l].failed /\ Splits(load[l].kind) =>
            \A i \in Items :
                /\ published[i].readable
                /\ load[l].kind \in Formats => published[i].format = load[l].kind
                => i \in Result(l) \/ Beyond(l, i)

\* A load that has ended, or was given up, leaves no request, sleep or timer
\* of its own behind.
NothingLeft ==
    \A l \in Loads : load[l].at \in Ended => \A a \in Asks : req[<<l, a>>] = Quiet

\* Both together.
FeedsFetched == WholeLoad /\ NothingLeft
=============================================================================
