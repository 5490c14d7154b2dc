----------------------------- MODULE EventFeed -----------------------------
(* What the app knows of one event: the caches of the two sources (the edge  *)
(* API and the public RSS feed, both kept in module variables), the feed and *)
(* the detail query of the screens, and the calls that fill and change them: *)
(* eventService.ts, etkinlikApiService.ts, rssEventService.ts,               *)
(* useEventDetailController.ts and the screens.  A call is a promise: its    *)
(* steps are what happens between two awaits, and cancelling a query stops   *)
(* only the steps that got its signal.                                       *)
EXTENDS Naturals, FiniteSets

CONSTANTS Users, Calls, None,
          MaxStarts,    \* bound: loads and taps
          MaxAuth       \* bound: sign-ins and sign-outs

\* What the constants are; a promise is none of the marks that stand for one.
EventFeedAssumption ==
    /\ None \notin Users \cup Calls
    /\ {"done", "aborted"} \cap (Calls \cup {None}) = {}
    /\ MaxStarts \in Nat /\ MaxAuth \in Nat

VARIABLES viewer,    \* the account that is signed in
          truth,     \* what the server stores for each account
          linked,    \* the event has a row in the database
          api, rss,  \* the two module caches
          sync,      \* syncRequests: the call whose promise is kept, "done", None
          reading,   \* detailRequests: likewise, or "aborted"
          feed,      \* the data of the feed query
          detail,    \* the detail screen and its query
          call,      \* the promises under way
          lost,      \* history: the answer of a join or leave that was done is lost
          starts, auths
cache  == <<api, rss>>
server == <<truth, linked>>
vars   == <<viewer, truth, linked, api, rss, sync, reading, feed, detail, call, lost, starts, auths>>

\* A card: whether it says joined and saved, and for which account the server
\* said so; the sources alone know of nobody.
Cards == [joined : BOOLEAN, saved : BOOLEAN, of : Users \cup {None}]
Raw   == [joined |-> FALSE, saved |-> FALSE, of |-> None]

Taps  == {"join", "leave", "save", "unsave", "mark", "unmark"}
Steps == {"idle", "list", "rss", "states", "arrive", "source", "find", "sync",
          "db", "again", "read", "commit", "answer"}
\* live: the query still wants the call, or the screen that was tapped is still
\* open; alone is history: no other join or leave was under way with it.
Idle  == [op |-> "none", at |-> "idle", by |-> None, card |-> None, prev |-> None,
          live |-> FALSE, wait |-> None, alone |-> TRUE]

FeedTypeOK ==
    /\ viewer \in Users \cup {None}
    /\ truth \in [Users -> [joined : BOOLEAN, saved : BOOLEAN]] /\ linked \in BOOLEAN
    /\ api \in Cards \cup {None} /\ rss \in Cards \cup {None} /\ feed \in Cards \cup {None}
    /\ sync \in Calls \cup {None, "done"}
    /\ reading \in Calls \cup {None, "done", "aborted"}
    /\ detail \in [open : BOOLEAN, card : Cards \cup {None}, sure : BOOLEAN]
    /\ \A c \in Calls :
          /\ call[c].op \in Taps \cup {"none", "feed", "detail"} /\ call[c].at \in Steps
          /\ call[c].at = "idle" <=> call[c] = Idle
          /\ call[c].at = "sync" => call[call[c].wait].wait = call[c].wait
    /\ lost \in BOOLEAN /\ starts \in 0..MaxStarts /\ auths \in 0..MaxAuth

Init ==
    /\ viewer \in Users
    /\ truth \in [Users -> {[joined |-> j, saved |-> FALSE] : j \in BOOLEAN}]
    /\ linked = (\E u \in Users : truth[u].joined)
    /\ api = None /\ rss = None /\ sync = None /\ reading = None
    /\ feed = None /\ detail = [open |-> FALSE, card |-> None, sure |-> FALSE]
    /\ call = [c \in Calls |-> Idle]
    /\ lost = FALSE /\ starts = 0 /\ auths = 0

-----------------------------------------------------------------------------
(* Cards *)

\* get_event_card_states and get_event_detail answer for an account.
Known(u) == IF linked THEN [joined |-> truth[u].joined, saved |-> truth[u].saved, of |-> u]
                      ELSE Raw

\* preserveCachedCardState: the API's cache first, then the RSS cache.
Preserved(card) == IF api # None THEN api ELSE IF rss # None THEN rss ELSE card

\* preserveCardState: a card without a state takes that of the RSS cache.
Refreshed(card) == IF card.of = None /\ rss # None THEN rss ELSE card

\* updateEventCaches changes the copies there are.
Updated(card, op) ==
    IF card = None THEN None
    ELSE CASE op = "join"             -> [card EXCEPT !.joined = TRUE,  !.of = viewer]
           [] op = "leave"            -> [card EXCEPT !.joined = FALSE, !.of = viewer]
           [] op \in {"save", "mark"} -> [card EXCEPT !.saved = TRUE]
           [] OTHER                   -> [card EXCEPT !.saved = FALSE]

-----------------------------------------------------------------------------
(* Starting and cancelling *)

Goto(c, step) == call' = [call EXCEPT ![c].at = step]
End(c)        == call' = [call EXCEPT ![c] = Idle]

\* react-query aborts the fetches of a query; their promises go on as far as
\* nobody looks at the signal.
Cancelled(op) == [c \in Calls |-> IF call[c].op = op THEN [call[c] EXCEPT !.live = FALSE]
                                                     ELSE call[c]]
Loading(op) == \E c \in Calls : call[c].op = op /\ call[c].live

Start(c, calls, op, step) ==
    /\ viewer # None /\ starts < MaxStarts
    /\ call[c] = Idle
    /\ starts' = starts + 1
    /\ call' = [calls EXCEPT ![c] = [Idle EXCEPT !.op = op, !.at = step, !.by = viewer,
                                                 !.live = TRUE]]

\* The screens show the feed, or refresh it, which empties the caches of the
\* sources first.  A fetch under way is joined while there is no data.
LoadFeed(c) ==
    /\ feed = None => ~Loading("feed")
    /\ Start(c, Cancelled("feed"), "feed", "list")
    /\ \/ UNCHANGED <<api, rss, sync, reading>>
       \/ api' = None /\ rss' = None /\ sync' = None /\ reading' = None
    /\ UNCHANGED <<viewer, server, feed, detail, auths, lost>>

\* The detail screen is opened (the cached card is its placeholder), is
\* refreshed or closed; closing it cancels its query.
LoadDetail(c) ==
    /\ feed # None
    /\ detail.card = None => ~Loading("detail")
    /\ Start(c, Cancelled("detail"), "detail", "source")
    /\ detail' = [detail EXCEPT !.open = TRUE]
    /\ UNCHANGED <<viewer, server, cache, sync, reading, feed, auths, lost>>

CloseDetail ==
    /\ detail.open
    /\ detail' = [detail EXCEPT !.open = FALSE]
    /\ call' = [c \in Calls |-> IF call[c].op \in {"detail", "join", "leave", "save", "unsave"}
                               THEN [call[c] EXCEPT !.live = FALSE] ELSE call[c]]
    /\ UNCHANGED <<viewer, server, cache, sync, reading, feed, starts, auths, lost>>

\* A cancelled request rejects with AbortError.  The promise of a detail
\* page stays in detailRequests as it is.
Abort(c) ==
    /\ call[c].op \in {"feed", "detail"} /\ ~call[c].live
    /\ call[c].at \in {"list", "rss", "source", "find", "db", "again", "read"}
    /\ reading' = IF reading = c THEN "aborted" ELSE reading
    /\ call' = [x \in Calls |-> IF x = c \/ (call[c].at = "read" /\ call[x].at = "read" /\ call[x].wait = c)
                                THEN Idle ELSE call[x]]
    /\ UNCHANGED <<viewer, server, cache, sync, feed, detail, starts, auths, lost>>

-----------------------------------------------------------------------------
(* The feed: searchEvents *)

\* The API answers, and its events replace the cached ones; a transient error
\* leads to the RSS feed, any other one ends the load.
FeedList(c) ==
    /\ call[c].at = "list" /\ call[c].live
    /\ \/ /\ api' = Raw
          /\ call' = [call EXCEPT ![c].at = "states", ![c].card = Raw]
       \/ Goto(c, "rss") /\ UNCHANGED api
       \/ End(c) /\ UNCHANGED api
    /\ UNCHANGED <<viewer, server, rss, sync, reading, feed, detail, starts, auths, lost>>

\* The feeds of all the filters' URLs, the saturated ones partitioned: the
\* events of those that could be read; an error only when there is none.
FeedRss(c) ==
    /\ call[c].at = "rss" /\ call[c].live
    /\ \/ /\ rss' = Refreshed(Raw)
          /\ call' = [call EXCEPT ![c].at = "states", ![c].card = Raw]
       \/ End(c) /\ UNCHANGED rss
    /\ UNCHANGED <<viewer, server, api, sync, reading, feed, detail, starts, auths, lost>>

\* get_event_card_states is asked without the signal, with the token there is.
FeedStates(c) ==
    /\ call[c].op = "feed" /\ call[c].at = "states"
    /\ \/ call' = [call EXCEPT ![c].at = "arrive", ![c].card = Known(call[c].by)]
       \/ call' = [call EXCEPT ![c].at = "arrive", ![c].card = None]
    /\ UNCHANGED <<viewer, server, cache, sync, reading, feed, detail, starts, auths, lost>>

\* The states, or what the caches tell when they could not be read.
Shown(c) == IF call[c].card = None THEN Preserved(Raw) ELSE call[c].card

\* The states, or after an error the cached ones, are cached again and shown
\* if the query still wants them.
FeedArrive(c) ==
    /\ call[c].op = "feed" /\ call[c].at = "arrive"
    /\ api' = Shown(c)
    /\ rss' = Refreshed(Shown(c))
    /\ feed' = IF call[c].live THEN Shown(c) ELSE feed
    /\ End(c)
    /\ UNCHANGED <<viewer, server, sync, reading, detail, starts, auths, lost>>

-----------------------------------------------------------------------------
(* The database row of an event: resolveEventDatabaseId *)

\* A call that knows the row goes on; another one joins the kept promise or
\* invokes sync-event.
Resolve(c, calls, card, step) ==
    \/ /\ card.of # None \/ sync = "done"
       /\ call' = [calls EXCEPT ![c].at = step]
       /\ UNCHANGED sync
    \/ /\ card.of = None /\ sync = None
       /\ call' = [calls EXCEPT ![c].at = "sync", ![c].wait = c]
       /\ sync' = c
    \/ /\ card.of = None /\ sync \in Calls
       /\ call' = [calls EXCEPT ![c].at = "sync", ![c].wait = sync]
       /\ UNCHANGED sync

\* Where a call goes on, with the row and without it.
Resolved(x) == IF call[x].op = "detail" THEN [call[x] EXCEPT !.at = "db", !.wait = None]
               ELSE [call[x] EXCEPT !.at = "commit", !.wait = None]
Unresolved(x) == IF call[x].op = "detail" /\ call[x].live
                 THEN [call[x] EXCEPT !.at = "again", !.wait = None]
                 ELSE [call[x] EXCEPT !.at = "answer", !.wait = None]

\* sync-event answers; a promise that fails is taken out of the map.
SyncAnswer(p) ==
    LET waiting == {x \in Calls : call[x].at = "sync" /\ call[x].wait = p} IN
    /\ p \in waiting
    /\ \/ /\ linked' = TRUE
          /\ sync' = IF sync = p THEN "done" ELSE sync
          /\ call' = [x \in Calls |-> IF x \in waiting THEN Resolved(x) ELSE call[x]]
       \/ /\ sync' = None
          /\ call' = [x \in Calls |-> IF x \in waiting
                                      THEN IF call[x].op = "detail" /\ ~call[x].live THEN Idle
                                           ELSE [Unresolved(x) EXCEPT !.card = None]
                                      ELSE call[x]]
          /\ UNCHANGED linked
    /\ UNCHANGED <<viewer, truth, cache, reading, feed, detail, starts, auths, lost>>

-----------------------------------------------------------------------------
(* The detail: getEvent *)

\* The cached event, if it has the details, or the API's; after a transient
\* error the event of the RSS cache, or of the RSS feed.
DetailSource(c) ==
    /\ call[c].at = "source" /\ call[c].live
    /\ \/ /\ api # None /\ api.of # None
          /\ Resolve(c, call, api, "db") /\ UNCHANGED api
       \/ /\ api' = Raw
          /\ Resolve(c, call, Raw, "db")
       \/ Goto(c, "find") /\ UNCHANGED <<api, sync>>
       \/ End(c) /\ UNCHANGED <<api, sync>>
    /\ UNCHANGED <<viewer, server, rss, reading, feed, detail, starts, auths, lost>>

DetailFind(c) ==
    /\ call[c].at = "find" /\ call[c].live
    /\ \/ rss # None /\ Resolve(c, call, rss, "db") /\ UNCHANGED rss
       \/ rss = None /\ rss' = Raw /\ Resolve(c, call, Raw, "db")
       \/ rss = None /\ End(c) /\ UNCHANGED <<rss, sync>>
    /\ UNCHANGED <<viewer, server, api, reading, feed, detail, starts, auths, lost>>

\* get_event_detail reads the row; after an error the source must do.
DetailDb(c) ==
    /\ call[c].at = "db" /\ call[c].live
    /\ \/ call' = [call EXCEPT ![c].at = "arrive", ![c].card = Known(call[c].by)]
       \/ Goto(c, "again")
    /\ UNCHANGED <<viewer, server, cache, sync, reading, feed, detail, starts, auths, lost>>

DetailAgain(c) ==
    /\ call[c].at = "again" /\ call[c].live
    /\ \/ /\ api' = IF api # None /\ api.of # None THEN api ELSE Raw
          /\ call' = [call EXCEPT ![c].at = "arrive", ![c].card = api', ![c].wait = c]
          /\ UNCHANGED reading
       \/ /\ rss # None /\ reading = None
          /\ reading' = c
          /\ call' = [call EXCEPT ![c].at = "read", ![c].wait = c, ![c].card = rss]
          /\ UNCHANGED api
       \/ /\ rss # None /\ reading \in Calls
          /\ call' = [call EXCEPT ![c].at = "read", ![c].wait = reading, ![c].card = rss]
          /\ UNCHANGED <<api, reading>>
       \/ /\ rss # None /\ reading = "done"
          /\ call' = [call EXCEPT ![c].at = "arrive", ![c].wait = c, ![c].card = rss]
          /\ UNCHANGED <<api, reading>>
       \/ End(c) /\ UNCHANGED <<api, reading>>
    /\ UNCHANGED <<viewer, server, rss, sync, feed, detail, starts, auths, lost>>

\* The page of the source arrives, or the cached event is the answer.
DetailRead(c) ==
    LET waiting == {x \in Calls : call[x].at = "read" /\ call[x].wait = c} IN
    /\ c \in waiting /\ call[c].live
    /\ rss' = call[c].card
    /\ reading' = IF reading = c THEN "done" ELSE reading
    /\ call' = [x \in Calls |-> IF x \in waiting THEN [call[x] EXCEPT !.at = "arrive"] ELSE call[x]]
    /\ UNCHANGED <<viewer, server, api, sync, feed, detail, starts, auths, lost>>

\* The query keeps the answer: sure if the database gave it.
DetailArrive(c) ==
    /\ call[c].op = "detail" /\ call[c].at = "arrive"
    /\ detail' = IF call[c].live
                 THEN [detail EXCEPT !.card = call[c].card, !.sure = call[c].wait = None]
                 ELSE detail
    /\ End(c)
    /\ UNCHANGED <<viewer, server, cache, sync, reading, feed, starts, auths, lost>>

-----------------------------------------------------------------------------
(* Joining, leaving, saving *)

Attendance   == {"join", "leave"}
Pending(ops) == \E c \in Calls : call[c].op \in ops

\* A join or leave meets those that another screen has left behind.
Beside(op) == IF op \in Attendance
              THEN [c \in Calls |-> IF call[c].op \in Attendance THEN [call[c] EXCEPT !.alone = FALSE]
                                                              ELSE call[c]]
              ELSE call

\* A tap on the detail screen works on the card it shows; the buttons are
\* disabled while their mutation is pending, unless the screen is a new one.
TapDetail(c, op) ==
    /\ detail.open /\ detail.card # None
    /\ viewer # None /\ starts < MaxStarts /\ call[c] = Idle
    /\ op \in (IF detail.card.joined THEN {"leave"} ELSE {"join"})
              \cup (IF detail.card.saved THEN {"unsave"} ELSE {"save"})
    /\ ~\E x \in Calls : call[x].live /\ call[x].op \in IF op \in Attendance THEN Attendance ELSE {"save", "unsave"}
    /\ starts' = starts + 1
    /\ Resolve(c, [Beside(op) EXCEPT ![c] = [Idle EXCEPT !.op = op, !.by = viewer, !.card = detail.card,
                                                         !.live = TRUE, !.alone = ~Pending(Attendance)]],
               detail.card, "commit")
    /\ UNCHANGED <<viewer, server, cache, reading, feed, detail, auths, lost>>

\* A tap on a card of the feed is shown at once: the fetches are cancelled
\* and the data kept for the rollback.
TapFeed(c) ==
    /\ viewer # None /\ feed # None /\ starts < MaxStarts /\ call[c] = Idle
    /\ starts' = starts + 1
    /\ LET op == IF feed.saved THEN "unmark" ELSE "mark" IN
       /\ Resolve(c, [Cancelled("feed") EXCEPT ![c] =
                        [Idle EXCEPT !.op = op, !.by = viewer, !.card = feed, !.prev = feed]],
                  feed, "commit")
       /\ feed' = Updated(feed, op)
    /\ UNCHANGED <<viewer, server, cache, reading, detail, auths, lost>>

\* join_event, leave_event, saved_events: the server answers or the call
\* fails, before or after it was done.
Commit(c) ==
    LET u == call[c].by IN
    /\ call[c].at = "commit"
    /\ \/ /\ truth' = CASE call[c].op = "join"  -> [truth EXCEPT ![u].joined = TRUE]
                        [] call[c].op = "leave" -> [truth EXCEPT ![u].joined = FALSE]
                        [] call[c].op \in {"save", "mark"} -> [truth EXCEPT ![u].saved = TRUE]
                        [] OTHER                -> [truth EXCEPT ![u].saved = FALSE]
          /\ \/ Goto(c, "answer")
             \/ call' = [call EXCEPT ![c].at = "answer", ![c].card = None]
       \/ /\ call' = [call EXCEPT ![c].at = "answer", ![c].card = None]
          /\ UNCHANGED truth
    /\ lost' = (lost \/ (call'[c].card = None /\ call[c].op \in Attendance /\ truth' # truth))
    /\ UNCHANGED <<viewer, linked, cache, sync, reading, feed, detail, starts, auths>>

\* Mutant: the detail is not fetched again after a success.
RefetchNot(c) == [call EXCEPT ![c] = Idle]

\* invalidateQueries of the detail cancels its fetch and, if the screen is
\* open, starts it again.
Refetch(c) ==
    [[Cancelled("detail") EXCEPT ![c] = Idle]
        EXCEPT ![c] = IF detail.open THEN [Idle EXCEPT !.op = "detail", !.at = "source",
                                                       !.by = viewer, !.live = TRUE]
                                     ELSE Idle]

\* History: what the server stored for the viewer is what the answer tells.
Tells(c) == call[c].op \in Attendance => call[c].alone /\ call[c].by = viewer

\* onSuccess of the detail screen, which runs also when it has been closed or
\* another account has signed in: every copy is updated, the card that was
\* tapped, with the change, becomes the cached one.
AnswerDetail(c) ==
    LET card == Updated([call[c].card EXCEPT !.of = call[c].by], call[c].op) IN
    /\ call[c].at = "answer" /\ call[c].op \in {"join", "leave", "save", "unsave"}
    /\ IF call[c].card = None
       THEN End(c) /\ UNCHANGED <<api, rss, feed, detail>>
       ELSE /\ detail' = [detail EXCEPT !.card = Updated(@, call[c].op), !.sure = @ /\ Tells(c)]
            /\ feed' = Updated(feed, call[c].op)
            /\ api' = [card EXCEPT !.of = call[c].by] /\ rss' = [card EXCEPT !.of = call[c].by]
            /\ call' = Refetch(c)
    /\ UNCHANGED <<viewer, server, sync, reading, starts, auths, lost>>

\* The feed's tap: after an error the kept data comes back.
AnswerFeed(c) ==
    /\ call[c].at = "answer" /\ call[c].op \in {"mark", "unmark"}
    /\ feed' = IF call[c].card = None /\ feed # None THEN call[c].prev ELSE feed
    /\ End(c)
    /\ UNCHANGED <<viewer, server, cache, sync, reading, detail, starts, auths, lost>>

-----------------------------------------------------------------------------
(* Accounts *)

\* clearLocalSessionData: the queries and the caches are emptied; promises
\* that do not look at the signal go on.
SignOut ==
    /\ viewer # None /\ auths < MaxAuth
    /\ viewer' = None /\ auths' = auths + 1
    /\ api' = None /\ rss' = None /\ sync' = None /\ reading' = None /\ feed' = None
    /\ detail' = [open |-> FALSE, card |-> None, sure |-> FALSE]
    /\ call' = [c \in Calls |-> [call[c] EXCEPT !.live = FALSE]]
    /\ UNCHANGED <<server, starts, lost>>

SignIn(u) ==
    /\ viewer = None /\ auths < MaxAuth
    /\ viewer' = u /\ auths' = auths + 1
    /\ UNCHANGED <<server, cache, sync, reading, feed, detail, call, starts, lost>>

-----------------------------------------------------------------------------
Next ==
    \/ SignOut \/ CloseDetail
    \/ \E u \in Users : SignIn(u)
    \/ \E c \in Calls :
          \/ LoadFeed(c) \/ FeedList(c) \/ FeedRss(c) \/ FeedStates(c) \/ FeedArrive(c)
          \/ LoadDetail(c) \/ DetailSource(c) \/ DetailFind(c) \/ DetailDb(c)
          \/ DetailAgain(c) \/ DetailRead(c) \/ DetailArrive(c)
          \/ Abort(c) \/ SyncAnswer(c) \/ Commit(c) \/ AnswerDetail(c) \/ AnswerFeed(c)
          \/ TapFeed(c) \/ \E op \in Taps : TapDetail(c, op)

Spec == Init /\ [][Next]_vars

-----------------------------------------------------------------------------
(* Properties *)

\* Once nothing is under way, a detail screen that the database has answered
\* shows whether the viewer has joined, whatever order the answers of joins,
\* leaves and fetches came in.  (Only the next fetch tells what a join whose
\* answer was lost has done, and what is stored after those of two screens or
\* that of another account.)
SettledJoined ==
    (/\ detail.open /\ detail.card # None /\ detail.sure
     /\ ~lost /\ ~Loading("detail") /\ ~Pending(Attendance))
        => detail.card.joined = truth[viewer].joined
=============================================================================
