------------------------------ MODULE MCScreens ------------------------------
(* The app's screens over their cached queries, one at a time: a behaviour   *)
(* belongs to one of seven, which share nothing, and leaves the others as they *)
(* begin.                                                                    *)
EXTENDS ConversationPresence, Sequences

CONSTANTS None,                                              \* no card, no call, no choice
          Users, Calls, MaxStarts, MaxAuth,                  \* the feed's
          Candidates, DeckPage, Ahead, Likes, Admirers, Liked, Lists, MaxTries, MaxRefresh, \* the deck's
          ChatKinds,                                         \* the thread's and the badge's
          Mine, Theirs, ThreadPage, MaxVisits,               \* the thread's
          MaxRows, MaxOpens,                                 \* the badge's
          MaxPaths, MaxOps, MaxWaiting, MaxKills,            \* the photos'
          Loads, Formats, Categories, LoadKinds, Items, Limit, Concurrency, Attempts, MaxTroubles

VARIABLES screen,
    viewer, truth, linked, api, rss, sync, reading, feed, detail, call, lost, starts, auths,
    reaction, left, deck, deckWant, index, likes, quota, deckJobs, whole, tries, refreshes,
    threadKind, stored, unread, threadNews, threadOpen, threadOpens, threadJoined, thread, threadWant,
    invalid, missed, pending, outbox, restore, got, threadJobs, threadMarks,
    badgeKind, messages, seen, badgeNews, listNews, badgeOpen, badgeOpens, badge, badgeMarks,
    objects, named, used, mem, disk, queue, op, draft, release, unsaved, leaked, photosLost, ops, kills,
    published, feedCache, shared, req, load, troubles

feedVars   == <<viewer, truth, linked, api, rss, sync, reading, feed, detail, call, lost, starts, auths>>
deckVars   == <<reaction, left, deck, deckWant, index, likes, quota, deckJobs, whole, tries, refreshes>>
threadVars == <<threadKind, stored, unread, threadNews, threadOpen, threadOpens, threadJoined, thread, threadWant,
                invalid, missed, pending, outbox, restore, got, threadJobs, threadMarks>>
badgeVars  == <<badgeKind, messages, seen, badgeNews, listNews, badgeOpen, badgeOpens, badge, badgeMarks>>
photosVars == <<objects, named, used, mem, disk, queue, op, draft, release, unsaved, leaked, photosLost, ops, kills>>
fetchVars  == <<published, feedCache, shared, req, load, troubles>>
screensVars ==
    <<screen, feedVars, deckVars, threadVars, badgeVars, photosVars, fetchVars, vars>>

Feed == INSTANCE EventFeed

Deck == INSTANCE MatchDeck
          WITH PageSize <- DeckPage, want <- deckWant, jobs <- deckJobs

Thread == INSTANCE ChatThread
            WITH Kinds <- ChatKinds, PageSize <- ThreadPage, MaxOpens <- MaxVisits,
                 kind <- threadKind, news <- threadNews, open <- threadOpen, opens <- threadOpens,
                 joined <- threadJoined, want <- threadWant, jobs <- threadJobs, marks <- threadMarks

Badge == INSTANCE UnreadBadge
           WITH Kinds <- ChatKinds, kind <- badgeKind, rows <- messages, news <- badgeNews, open <- badgeOpen,
                opens <- badgeOpens, marks <- badgeMarks

Photos == INSTANCE ProfilePhotos WITH rows <- named, lost <- photosLost

Fetch == INSTANCE RssFetch WITH Kinds <- LoadKinds

ASSUME ScreensConstants ==
    /\ Feed!EventFeedAssumption /\ Deck!DeckAssumption /\ Thread!ChatThreadAssumption
    /\ Badge!UnreadBadgeAssumption /\ Photos!ProfilePhotosAssumption
    /\ Fetch!RssFetchAssumption

ScreensInit ==
    /\ screen \in {"feed", "deck", "thread", "badge", "photos", "presence", "search"}
    /\ Feed!Init /\ Deck!Init /\ Thread!Init /\ Badge!Init /\ Photos!Init /\ Fetch!Init /\ Init
    /\ screen # "feed" => ~linked
    /\ screen # "thread" => threadKind = "room"
    /\ screen # "badge" => badgeKind = "room"
    /\ screen # "photos" => ~draft
    /\ screen # "presence" => account = "ann"
    /\ published[1] = [format |-> "concert", category |-> "jazz", readable |-> TRUE]
    /\ screen # "search" => published[2] = published[1]

ScreensNext ==
    /\ UNCHANGED screen
    /\ \/ /\ screen = "feed" /\ Feed!Next
          /\ UNCHANGED <<deckVars, threadVars, badgeVars, photosVars, fetchVars, vars>>
       \/ /\ screen = "deck" /\ Deck!Next
          /\ UNCHANGED <<feedVars, threadVars, badgeVars, photosVars, fetchVars, vars>>
       \/ /\ screen = "thread" /\ Thread!Next
          /\ UNCHANGED <<feedVars, deckVars, badgeVars, photosVars, fetchVars, vars>>
       \/ /\ screen = "badge" /\ Badge!Next
          /\ UNCHANGED <<feedVars, deckVars, threadVars, photosVars, fetchVars, vars>>
       \/ /\ screen = "photos" /\ Photos!Next
          /\ UNCHANGED <<feedVars, deckVars, threadVars, badgeVars, fetchVars, vars>>
       \/ /\ screen = "presence" /\ Next
          /\ UNCHANGED <<feedVars, deckVars, threadVars, badgeVars, photosVars, fetchVars>>
       \/ /\ screen = "search" /\ Fetch!Next
          /\ UNCHANGED <<feedVars, deckVars, threadVars, badgeVars, photosVars, vars>>

ScreensSpec == ScreensInit /\ [][ScreensNext]_screensVars

\* The bound of the run on "feed": a start less when another account has signed in.
FeedBounds == auths' = MaxAuth => starts' < MaxStarts

\* The bounds of the run on "thread": on the last visit no fetch fails and nothing new is sent
\* unless something is already.
ThreadBounds ==
    threadOpens = MaxVisits => ~Thread!ThreadFails /\ (threadJobs = {} => threadJobs' = {})

BoundedNext ==
    /\ ScreensNext
    /\ screen = "feed"   => FeedBounds
    /\ screen = "thread" => ThreadBounds

BoundedSpec == ScreensInit /\ [][BoundedNext]_screensVars

-----------------------------------------------------------------------------
(* Properties: those of the seven modules *)

\* The types of the screens' state.
ScreensTypeOK ==
    CASE screen = "feed"     -> Feed!FeedTypeOK
      [] screen = "deck"     -> Deck!DeckTypeOK
      [] screen = "thread"   -> Thread!ThreadTypeOK
      [] screen = "badge"    -> Badge!BadgeTypeOK
      [] screen = "photos"   -> Photos!PhotosTypeOK
      [] screen = "presence" -> ControllerTypeOK
      [] screen = "search"   -> Fetch!RssTypeOK

\* The detail screen settles on whether the viewer has joined the event.
SettledJoined == screen = "feed" => Feed!SettledJoined

\* No candidate of the deck is passed over.
NoCardSkipped == screen = "deck" => Deck!NoCardSkipped

\* An open conversation catches up with the server.
ThreadCatchesUp == screen = "thread" => Thread!ThreadCatchesUp

\* The unread badge settles at no more than there is.
BadgeSettles == screen = "badge" => Badge!BadgeSettles

\* The profile's photos are kept, and no other is forgotten.
PhotosKept == screen = "photos" => Photos!PhotosKept

\* A load of the public feeds has every event, and leaves no request behind.
FeedsFetched == Fetch!FeedsFetched
=============================================================================
