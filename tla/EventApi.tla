------------------------------ MODULE EventApi ------------------------------
(* How a list of events is read page by page: the app's infinite feed asks   *)
(* the edge gateway, which asks the function etkinlik-api, which asks the    *)
(* provider or its cache of recent answers.  When the edge fails the app     *)
(* asks the function itself, and when that fails it reads the RSS feeds.     *)
EXTENDS Naturals, Sequences, FiniteSets, SequencesExt

CONSTANTS Ids,      \* the provider's events
          Odd,      \* those that the schema of the edge rejects
          Bad,      \* those that mapEvent of etkinlik-api drops
          Isolates, \* instances of etkinlik-api: each has a cache of its own
          PageTake, \* events in a page
          TTL       \* RESPONSE_TTL_MS

\* What the constants are.
EventApiAssumption ==
    /\ IsFiniteSet(Ids) /\ Odd \cup Bad \subseteq Ids /\ Odd \cap Bad = {}
    /\ PageTake \in Nat \ {0} /\ TTL \in Nat \ {0}

VARIABLES source,  \* the provider's list, in its order
          quiet,   \* history: the time since it changed, up to TTL
          cache,   \* responseCache of each isolate: an answer for each offset
          walk     \* the pages that the feed has loaded
vars == <<source, quiet, cache, walk>>

\* sort=upcoming
Order == SetToSeq(Ids)
Before(d, e) == \E i, j \in DOMAIN Order : i < j /\ Order[i] = d /\ Order[j] = e

Skips   == 0..Cardinality(Ids)
Nothing == [items |-> <<>>, total |-> 0, left |-> 0]

\* at; skip: the cursor; got: what the feed shows.  History: calm, the list has
\* not changed since, nor for TTL before the first page was asked for; rss: a
\* page came from the RSS feeds.
NoWalk == [at |-> "idle", skip |-> 0, got |-> <<>>, calm |-> FALSE, rss |-> FALSE]

ApiTypeOK ==
    /\ quiet \in 0..TTL
    /\ source \in Seq(Ids) /\ IsInjective(source)
    /\ DOMAIN cache = Isolates
    /\ \A i \in Isolates : \A s \in Skips :
          Len(cache[i][s].items) <= PageTake /\ cache[i][s].left \in 0..TTL
    /\ walk.at \in {"idle", "edge", "direct", "rss", "next", "done", "failed"}
    /\ walk.skip \in Nat /\ walk.got \in Seq(Ids) /\ walk.calm \in BOOLEAN /\ walk.rss \in BOOLEAN

Init ==
    /\ source = <<>> /\ quiet = 0
    /\ cache = [i \in Isolates |-> [s \in Skips |-> Nothing]]
    /\ walk = NoWalk

\* Time passes; an answer whose time is over is as good as none.
Tick ==
    /\ quiet' = IF quiet < TTL THEN quiet + 1 ELSE TTL
    /\ cache' = [i \in Isolates |-> [s \in Skips |->
                    IF cache[i][s].left <= 1 THEN Nothing ELSE [cache[i][s] EXCEPT !.left = @ - 1]]]
    /\ UNCHANGED <<source, walk>>

\* An event leaves the provider's list, or comes into it at its place.
Change ==
    /\ \/ \E i \in DOMAIN source : source' = RemoveAt(source, i)
       \/ \E e \in Ids \ ToSet(source), i \in 1..(Len(source) + 1) :
             /\ \A j \in DOMAIN source : j < i <=> Before(source[j], e)
             /\ source' = InsertAt(source, i, e)
    /\ quiet' = 0 /\ walk' = [walk EXCEPT !.calm = FALSE]
    /\ UNCHANGED cache

-----------------------------------------------------------------------------
(* etkinlik-api *)

Fetched(skip) ==
    [items |-> SubSeq(source, skip + 1, IF skip + PageTake < Len(source) THEN skip + PageTake ELSE Len(source)),
     total |-> Len(source), left |-> TTL]

\* Mutant: the key of the cache leaves the offset out.
AnswerOfPath(i, skip) == IF cache[i][0].left > 0 THEN cache[i][0] ELSE Fetched(skip)

\* fetchApi
Answer(i, skip) == IF cache[i][skip].left > 0 THEN cache[i][skip] ELSE Fetched(skip)

\* An answer that mapEvent can read as it is, or what is left of it, in its order.
Readable(answer) ==
    LET kept   == {i \in DOMAIN answer.items : answer.items[i] \notin Bad}
        nth(k) == CHOOSE i \in kept : Cardinality({j \in kept : j <= i}) = k
    IN  IF Bad \cap ToSet(answer.items) = {} THEN answer.items
        ELSE [k \in 1..Cardinality(kept) |-> answer.items[nth(k)]]

\* nextSkip, as a set of at most one offset: it counts the events that mapEvent
\* has let through.
NextSkip(skip, answer) ==
    IF Len(Readable(answer)) = PageTake /\ skip + PageTake < answer.total THEN {skip + PageTake} ELSE {}

\* The instance is stopped; the next request starts a new one.
Recycle(i) ==
    /\ cache' = [cache EXCEPT ![i] = [s \in Skips |-> Nothing]]
    /\ UNCHANGED <<source, quiet, walk>>

-----------------------------------------------------------------------------
(* The feed *)

Load ==
    /\ walk.at \in {"idle", "next"}
    /\ walk' = [walk EXCEPT !.at = "edge", !.calm = IF walk.at = "idle" THEN quiet = TTL ELSE @]
    /\ UNCHANGED <<source, quiet, cache>>

\* The feed is left or refreshed: its pages go.
Leave ==
    /\ walk # NoWalk /\ walk' = NoWalk
    /\ UNCHANGED <<source, quiet, cache>>

\* The page and the cursor of the next one.
Shown(items, next) ==
    [walk EXCEPT !.got = @ \o items, !.at = IF next = {} THEN "done" ELSE "next",
                 !.skip = IF next = {} THEN @ ELSE CHOOSE n \in next : TRUE]

Served(i) ==
    LET answer == Answer(i, walk.skip) IN
    /\ walk' = Shown(Readable(answer), NextSkip(walk.skip, answer))
    /\ cache' = [cache EXCEPT ![i][walk.skip] = answer]

\* The edge does not retry a POST: its time runs out, an error of the origin or
\* an answer that its schema rejects is an error to the app, and all but a
\* rate limit make it ask the origin.
Edge(i) ==
    /\ walk.at = "edge"
    /\ LET answer == Answer(i, walk.skip) IN
       \/ /\ Odd \cap ToSet(answer.items) = {}
          /\ Served(i)
       \/ /\ walk' = [walk EXCEPT !.at = "direct"]
          /\ cache' \in {cache, [cache EXCEPT ![i][walk.skip] = answer]}
       \/ walk' = [walk EXCEPT !.at = "failed"] /\ UNCHANGED cache
    /\ UNCHANGED <<source, quiet>>

Direct(i) ==
    /\ walk.at = "direct"
    /\ \/ Served(i)
       \/ walk' \in {[walk EXCEPT !.at = "rss"], [walk EXCEPT !.at = "failed"]} /\ UNCHANGED cache
    /\ UNCHANGED <<source, quiet>>

\* searchRssEvents: the cursor of the one is an offset into the order of the
\* other.
Rss ==
    /\ walk.at = "rss"
    /\ \E feed \in {source, Reverse(source)} :
          LET more == walk.skip + PageTake < Len(feed) IN
          walk' = [Shown(SubSeq(feed, walk.skip + 1, IF more THEN walk.skip + PageTake ELSE Len(feed)),
                         IF more THEN {walk.skip + PageTake} ELSE {}) EXCEPT !.rss = TRUE]
    /\ UNCHANGED <<source, quiet, cache>>

Next ==
    \/ Tick \/ Change \/ Load \/ Leave \/ Rss
    \/ \E i \in Isolates : Edge(i) \/ Direct(i) \/ Recycle(i)

Spec == Init /\ [][Next]_vars

-----------------------------------------------------------------------------
(* Properties *)

\* A feed that reaches its end shows every event once and in the provider's
\* order, whichever instance of the function and whichever way served each
\* page, if the list has not changed for the lifetime of a cached answer before
\* the feed was opened, no event of it is dropped on the way and no page came
\* from the RSS feeds.
FeedWhole ==
    (/\ walk.at = "done" /\ walk.calm /\ ~walk.rss
     /\ Bad \cap ToSet(source) = {})
        => walk.got = source
=============================================================================
