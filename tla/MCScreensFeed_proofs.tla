------------------------ MODULE MCScreensFeed_proofs ------------------------
(* The screens that read events, for any calls, accounts, feeds and loads:   *)
(* what the detail of an event settles on (FeedInv, about the instance Feed  *)
(* of MCScreens), and why a load of the public feeds misses nothing          *)
(* (FetchInv, about Fetch): what it has not asked for is still to do, and so *)
(* are the parts of every feed that came back full.                          *)
EXTENDS MCScreens, SequenceTheorems, FiniteSetTheorems, TLAPS

-----------------------------------------------------------------------------
(* The feed *)

\* The record of a call, and where the calls of each kind may be.
CallRecords ==
    [op : Feed!Taps \cup {"none", "feed", "detail"}, at : Feed!Steps, by : Users \cup {None},
     card : Feed!Cards \cup {None}, prev : Feed!Cards \cup {None}, live : BOOLEAN,
     wait : Calls \cup {None}, alone : BOOLEAN]

At(tap) == CASE tap \in Feed!Taps   -> {"sync", "commit", "answer"}
             [] tap = "detail" -> {"source", "find", "sync", "db", "again", "read", "arrive"}
             [] tap = "feed"   -> {"list", "rss", "states", "arrive"}
             [] tap = "none"   -> {"idle"}

FeedTypeInv ==
    /\ viewer \in Users \cup {None}
    /\ truth \in [Users -> [joined : BOOLEAN, saved : BOOLEAN]] /\ linked \in BOOLEAN
    /\ api \in Feed!Cards \cup {None} /\ rss \in Feed!Cards \cup {None} /\ feed \in Feed!Cards \cup {None}
    /\ sync \in Calls \cup {None, "done"}
    /\ reading \in Calls \cup {None, "done", "aborted"}
    /\ detail \in [open : BOOLEAN, card : Feed!Cards \cup {None}, sure : BOOLEAN]
    /\ call \in [Calls -> CallRecords]
    /\ lost \in BOOLEAN /\ starts \in 0..MaxStarts /\ auths \in 0..MaxAuth

\* A call that is over keeps nothing; one that waits waits for a promise that
\* is under way.
CallsInv ==
    \A c \in Calls :
        /\ call[c].at \in At(call[c].op)
        /\ call[c].op = "none" => call[c] = Feed!Idle
        /\ call[c].at = "sync" => /\ call[c].wait \in Calls
                                  /\ call[call[c].wait].at = "sync"
                                  /\ call[call[c].wait].wait = call[c].wait
        /\ call[c].at = "read" => call[c].wait \in Calls

SyncInv == sync \in Calls => call[sync].at = "sync" /\ call[sync].wait = sync

\* The server knows the event of whoever has joined or saved it, of a card
\* that says for whom, and of a call that has resolved it.
Tied(card) == card # None /\ card.of # None => linked
LinkInv ==
    /\ \A u \in Users : truth[u].joined => linked
    /\ sync = "done" => linked
    /\ Tied(api) /\ Tied(rss) /\ Tied(feed) /\ Tied(detail.card)
    /\ \A c \in Calls : /\ Tied(call[c].card) /\ Tied(call[c].prev)
                        /\ call[c].at = "commit" => linked
                        /\ call[c].at = "answer" /\ call[c].card # None => linked

\* Whoever is live works for the viewer.
ViewerInv ==
    /\ \A c \in Calls : call[c].live => viewer # None /\ call[c].by = viewer
    /\ \A c \in Calls : call[c].op # "none" => call[c].by \in Users
    /\ viewer = None => ~detail.open /\ detail.card = None

\* A join or leave that the server has done, whose answer is on its way.
Attends(c) == call[c].op \in Feed!Attendance
Stored(c)  == Attends(c) /\ call[c].at = "answer" /\ call[c].card # None
Done(c)    == Stored(c) /\ call[c].by = viewer

\* One that is alone finds what it has stored.
AloneInv ==
    /\ \A c, d \in Calls : c # d /\ Attends(c) /\ Attends(d) => ~call[c].alone
    /\ \A c \in Calls : Stored(c) /\ call[c].alone => truth[call[c].by].joined = (call[c].op = "join")

\* What the database has answered is what the server stores, unless a join or
\* leave is about to tell more.
Current(joined) == joined = truth[viewer].joined \/ \E c \in Calls : Done(c)
JoinedInv ==
    /\ ~lost /\ detail.card # None /\ detail.sure => Current(detail.card.joined)
    /\ \A c \in Calls :
          ~lost /\ call[c].op = "detail" /\ call[c].live /\ call[c].at = "arrive" /\ call[c].wait = None
              => (call[c].card # None => Current(call[c].card.joined))

FeedInv == FeedTypeInv /\ CallsInv /\ SyncInv /\ LinkInv /\ ViewerInv /\ AloneInv /\ JoinedInv

-----------------------------------------------------------------------------
(* Types *)


LEMMA FeedConstants ==
    ASSUME Feed!EventFeedAssumption
    PROVE  /\ None \notin Users /\ None \notin Calls
           /\ "done" \notin Calls /\ "aborted" \notin Calls /\ None # "done" /\ None # "aborted"
           /\ MaxStarts \in Nat /\ MaxAuth \in Nat
  BY DEF Feed!EventFeedAssumption

\* What the operators on cards return.
LEMMA CardTypes ==
    ASSUME FeedTypeInv
    PROVE  /\ Feed!Raw \in Feed!Cards
           /\ \A u \in Users : Feed!Known(u) \in Feed!Cards
           /\ \A card \in Feed!Cards \cup {None} : /\ Feed!Preserved(card) \in Feed!Cards \cup {None}
                                                   /\ Feed!Refreshed(card) \in Feed!Cards \cup {None}
           /\ \A card \in Feed!Cards \cup {None}, tap \in Feed!Taps : Feed!Updated(card, tap) \in Feed!Cards \cup {None}
  <1>1. Feed!Raw \in Feed!Cards  BY DEF Feed!Raw, Feed!Cards
  <1>2. \A u \in Users : Feed!Known(u) \in Feed!Cards  BY <1>1 DEF Feed!Known, Feed!Cards, FeedTypeInv
  <1>3. \A card \in Feed!Cards \cup {None} : /\ Feed!Preserved(card) \in Feed!Cards \cup {None}
                                             /\ Feed!Refreshed(card) \in Feed!Cards \cup {None}
    BY DEF Feed!Preserved, Feed!Refreshed, FeedTypeInv
  <1>4. ASSUME NEW card \in Feed!Cards \cup {None}, NEW tap \in Feed!Taps
        PROVE  Feed!Updated(card, tap) \in Feed!Cards \cup {None}
    <2>1. CASE card = None  BY <2>1 DEF Feed!Updated
    <2>2. CASE card # None
      <3>1. card \in Feed!Cards  BY <2>2
      <3>2. /\ [card EXCEPT !.joined = TRUE, !.of = viewer] \in Feed!Cards
            /\ [card EXCEPT !.joined = FALSE, !.of = viewer] \in Feed!Cards
            /\ [card EXCEPT !.saved = TRUE] \in Feed!Cards
            /\ [card EXCEPT !.saved = FALSE] \in Feed!Cards
        BY <3>1 DEF Feed!Cards, FeedTypeInv
      <3> QED  BY <2>2, <3>2 DEF Feed!Updated
    <2> QED  BY <2>1, <2>2
  <1> QED  BY <1>1, <1>2, <1>3, <1>4

\* The fields of a changed card.
LEMMA UpdatedFields ==
    ASSUME FeedTypeInv, NEW card \in Feed!Cards, card # None, NEW tap \in Feed!Taps
    PROVE  /\ tap \in Feed!Attendance => /\ Feed!Updated(card, tap).joined = (tap = "join")
                                         /\ Feed!Updated(card, tap).of = viewer
           /\ tap \notin Feed!Attendance => /\ Feed!Updated(card, tap).joined = card.joined
                                            /\ Feed!Updated(card, tap).of = card.of
  <1>1. /\ [card EXCEPT !.joined = TRUE, !.of = viewer].joined = TRUE
        /\ [card EXCEPT !.joined = FALSE, !.of = viewer].joined = FALSE
        /\ [card EXCEPT !.joined = TRUE, !.of = viewer].of = viewer
        /\ [card EXCEPT !.joined = FALSE, !.of = viewer].of = viewer
    BY DEF Feed!Cards
  <1>2. /\ [card EXCEPT !.saved = TRUE].joined = card.joined
        /\ [card EXCEPT !.saved = FALSE].joined = card.joined
        /\ [card EXCEPT !.saved = TRUE].of = card.of
        /\ [card EXCEPT !.saved = FALSE].of = card.of
    BY DEF Feed!Cards
  <1> QED  BY <1>1, <1>2 DEF Feed!Updated, Feed!Attendance, Feed!Taps

\* A record with some of its fields changed.
LEMMA CallFields ==
    ASSUME NEW r \in CallRecords
    PROVE  /\ \A at \in Feed!Steps : [r EXCEPT !.at = at] \in CallRecords
           /\ [r EXCEPT !.live = FALSE] \in CallRecords
           /\ [r EXCEPT !.alone = FALSE] \in CallRecords
           /\ \A at \in Feed!Steps, card \in Feed!Cards \cup {None} :
                 [r EXCEPT !.at = at, !.card = card] \in CallRecords
           /\ \A at \in Feed!Steps, w \in Calls \cup {None} :
                 [r EXCEPT !.at = at, !.wait = w] \in CallRecords
           /\ \A at \in Feed!Steps, w \in Calls \cup {None}, card \in Feed!Cards \cup {None} :
                 [r EXCEPT !.at = at, !.card = card, !.wait = w] \in CallRecords
  <1>1. \A at \in Feed!Steps : [r EXCEPT !.at = at] \in CallRecords  BY DEF CallRecords
  <1>2. [r EXCEPT !.live = FALSE] \in CallRecords  BY DEF CallRecords
  <1>3. [r EXCEPT !.alone = FALSE] \in CallRecords  BY DEF CallRecords
  <1>4. \A at \in Feed!Steps, card \in Feed!Cards \cup {None} :
           [r EXCEPT !.at = at, !.card = card] \in CallRecords
    BY DEF CallRecords
  <1>5. \A at \in Feed!Steps, w \in Calls \cup {None} :
           [r EXCEPT !.at = at, !.wait = w] \in CallRecords
    BY DEF CallRecords
  <1>6. \A at \in Feed!Steps, w \in Calls \cup {None}, card \in Feed!Cards \cup {None} :
           [r EXCEPT !.at = at, !.card = card, !.wait = w] \in CallRecords
    BY DEF CallRecords
  <1> QED  BY <1>1, <1>2, <1>3, <1>4, <1>5, <1>6

LEMMA IdleType == Feed!Idle \in CallRecords /\ Feed!Idle.op = "none" /\ Feed!Idle.at = "idle" /\ Feed!Idle.card = None
                  /\ Feed!Idle.prev = None /\ ~Feed!Idle.live
  BY DEF Feed!Idle, CallRecords, Feed!Steps

LEMMA CancelledTypes ==
    ASSUME FeedTypeInv, NEW tap
    PROVE  Feed!Cancelled(tap) \in [Calls -> CallRecords]
  BY CallFields DEF Feed!Cancelled, FeedTypeInv

LEMMA BesideTypes ==
    ASSUME FeedTypeInv, NEW tap
    PROVE  Feed!Beside(tap) \in [Calls -> CallRecords]
  BY CallFields DEF Feed!Beside, FeedTypeInv

\* Resolving a call changes its place, and what it waits for.
LEMMA ResolveTypes ==
    ASSUME FeedTypeInv, NEW c \in Calls, NEW calls \in [Calls -> CallRecords], NEW card, NEW step \in Feed!Steps,
           Feed!Resolve(c, calls, card, step)
    PROVE  call' \in [Calls -> CallRecords] /\ sync' \in Calls \cup {None, "done"}
  <1> DEFINE r == calls[c]
  <1>0. r \in CallRecords /\ "sync" \in Feed!Steps  BY DEF Feed!Steps
  <1>1. CASE (card.of # None \/ sync = "done") /\ call' = [calls EXCEPT ![c].at = step] /\ UNCHANGED sync
    <2>1. [r EXCEPT !.at = step] \in CallRecords  BY <1>0, CallFields
    <2>2. call' = [calls EXCEPT ![c] = [r EXCEPT !.at = step]]  BY <1>1
    <2> QED  BY <1>1, <2>1, <2>2 DEF FeedTypeInv
  <1>2. CASE call' = [calls EXCEPT ![c].at = "sync", ![c].wait = c] /\ sync' = c
    <2>1. [r EXCEPT !.at = "sync", !.wait = c] \in CallRecords  BY <1>0, CallFields
    <2>2. call' = [calls EXCEPT ![c] = [r EXCEPT !.at = "sync", !.wait = c]]  BY <1>2
    <2> QED  BY <1>2, <2>1, <2>2
  <1>3. CASE call' = [calls EXCEPT ![c].at = "sync", ![c].wait = sync] /\ UNCHANGED sync /\ sync \in Calls
    <2>1. [r EXCEPT !.at = "sync", !.wait = sync] \in CallRecords  BY <1>0, <1>3, CallFields
    <2>2. call' = [calls EXCEPT ![c] = [r EXCEPT !.at = "sync", !.wait = sync]]  BY <1>3
    <2> QED  BY <1>3, <2>1, <2>2 DEF FeedTypeInv
  <1> QED  BY <1>1, <1>2, <1>3 DEF Feed!Resolve

LEMMA RefetchTypes ==
    ASSUME FeedTypeInv, NEW c \in Calls
    PROVE  Feed!Refetch(c) \in [Calls -> CallRecords]
  <1>1. Feed!Cancelled("detail") \in [Calls -> CallRecords]  BY CancelledTypes
  <1>2. [Feed!Idle EXCEPT !.op = "detail", !.at = "source", !.by = viewer, !.live = TRUE] \in CallRecords
    BY DEF Feed!Idle, CallRecords, Feed!Steps, FeedTypeInv
  <1> QED  BY <1>1, <1>2, IdleType DEF Feed!Refetch

LEMMA StartTypes ==
    ASSUME Feed!EventFeedAssumption, FeedTypeInv, NEW c \in Calls, NEW calls \in [Calls -> CallRecords],
           NEW tap \in {"feed", "detail"}, NEW step \in Feed!Steps, Feed!Start(c, calls, tap, step)
    PROVE  call' \in [Calls -> CallRecords] /\ starts' \in 0..MaxStarts
  <1>1. [Feed!Idle EXCEPT !.op = tap, !.at = step, !.by = viewer, !.live = TRUE] \in CallRecords
    BY DEF Feed!Idle, CallRecords, Feed!Steps, FeedTypeInv
  <1>2. call' \in [Calls -> CallRecords]  BY <1>1 DEF Feed!Start
  <1>3. starts' \in 0..MaxStarts  BY FeedConstants DEF Feed!Start, FeedTypeInv
  <1> QED  BY <1>2, <1>3

LEMMA FeedTypesBegin ==
    ASSUME Feed!EventFeedAssumption, Feed!Init
    PROVE  FeedTypeInv
  <1>1. truth \in [Users -> [joined : BOOLEAN, saved : BOOLEAN]]
    <2>1. PICK T : T = {[joined |-> j, saved |-> FALSE] : j \in BOOLEAN}  OBVIOUS
    <2>2. ASSUME NEW t \in T  PROVE t \in [joined : BOOLEAN, saved : BOOLEAN]
      <3>1. PICK j \in BOOLEAN : t = [joined |-> j, saved |-> FALSE]  BY <2>1
      <3> QED  BY <3>1
    <2>3. truth \in [Users -> T]  BY <2>1 DEF Feed!Init
    <2> QED  BY <2>2, <2>3
  <1>2. starts \in 0..MaxStarts /\ auths \in 0..MaxAuth  BY FeedConstants DEF Feed!Init
  <1> QED  BY <1>1, <1>2, IdleType DEF Feed!Init, FeedTypeInv

LEMMA FeedTypesKept ==
    ASSUME Feed!EventFeedAssumption, FeedTypeInv, CallsInv, ViewerInv, Feed!Next
    PROVE  FeedTypeInv'
  <1> USE DEF Feed!cache, Feed!server
  <1>c. \A c \in Calls : call[c] \in CallRecords  BY DEF FeedTypeInv
  <1>f. \A c \in Calls : call[c].card \in Feed!Cards \cup {None} /\ call[c].prev \in Feed!Cards \cup {None}
                         /\ call[c].by \in Users \cup {None} /\ call[c].live \in BOOLEAN
                         /\ call[c].wait \in Calls \cup {None}
    BY <1>c DEF CallRecords
  <1>s. {"list", "rss", "states", "arrive", "source", "find", "db", "again", "read", "commit", "answer"}
           \subseteq Feed!Steps
    BY DEF Feed!Steps
  <1>g. \A c \in Calls, at \in Feed!Steps : Feed!Goto(c, at) => call' \in [Calls -> CallRecords]
    <2> SUFFICES ASSUME NEW c \in Calls, NEW at \in Feed!Steps, Feed!Goto(c, at)
                 PROVE  call' \in [Calls -> CallRecords]
      OBVIOUS
    <2>1. [call[c] EXCEPT !.at = at] \in CallRecords  BY <1>c, CallFields
    <2>2. call' = [call EXCEPT ![c] = [call[c] EXCEPT !.at = at]]  BY DEF Feed!Goto
    <2> QED  BY <2>1, <2>2 DEF FeedTypeInv
  <1>e. \A c \in Calls : Feed!End(c) => call' \in [Calls -> CallRecords]
    BY IdleType DEF Feed!End, FeedTypeInv
  <1>b. \A c \in Calls : call[c].at # "idle" => call[c].by \in Users
    BY IdleType DEF ViewerInv, CallsInv
  <1>m. \A c \in Calls, at \in Feed!Steps, card \in Feed!Cards \cup {None} :
          [call EXCEPT ![c].at = at, ![c].card = card] \in [Calls -> CallRecords]
    <2> SUFFICES ASSUME NEW c \in Calls, NEW at \in Feed!Steps, NEW card \in Feed!Cards \cup {None}
                 PROVE  [call EXCEPT ![c].at = at, ![c].card = card] \in [Calls -> CallRecords]
      OBVIOUS
    <2>1. [call[c] EXCEPT !.at = at, !.card = card] \in CallRecords  BY <1>c, CallFields
    <2>2. [call EXCEPT ![c].at = at, ![c].card = card]
             = [call EXCEPT ![c] = [call[c] EXCEPT !.at = at, !.card = card]]
      BY DEF FeedTypeInv
    <2> QED  BY <2>1, <2>2 DEF FeedTypeInv
  <1>w. \A c \in Calls, at \in Feed!Steps, w \in Calls \cup {None}, card \in Feed!Cards \cup {None} :
          /\ [call EXCEPT ![c].at = at, ![c].card = card, ![c].wait = w] \in [Calls -> CallRecords]
          /\ [call EXCEPT ![c].at = at, ![c].wait = w, ![c].card = card] \in [Calls -> CallRecords]
    <2> SUFFICES ASSUME NEW c \in Calls, NEW at \in Feed!Steps, NEW w \in Calls \cup {None},
                        NEW card \in Feed!Cards \cup {None}
                 PROVE  /\ [call EXCEPT ![c].at = at, ![c].card = card, ![c].wait = w] \in [Calls -> CallRecords]
                        /\ [call EXCEPT ![c].at = at, ![c].wait = w, ![c].card = card] \in [Calls -> CallRecords]
      OBVIOUS
    <2> DEFINE r == call[c]
    <2>1. [r EXCEPT !.at = at, !.card = card, !.wait = w] \in CallRecords  BY <1>c, CallFields
    <2>2. [r EXCEPT !.at = at, !.wait = w, !.card = card] = [r EXCEPT !.at = at, !.card = card, !.wait = w]
      BY <1>c DEF CallRecords
    <2>3. [call EXCEPT ![c].at = at, ![c].card = card, ![c].wait = w]
             = [call EXCEPT ![c] = [r EXCEPT !.at = at, !.card = card, !.wait = w]]
      BY DEF FeedTypeInv
    <2>4. [call EXCEPT ![c].at = at, ![c].wait = w, ![c].card = card]
             = [call EXCEPT ![c] = [r EXCEPT !.at = at, !.wait = w, !.card = card]]
      BY DEF FeedTypeInv
    <2> QED  BY <2>1, <2>2, <2>3, <2>4 DEF FeedTypeInv
  <1>1. CASE Feed!SignOut
    <2>1. call' \in [Calls -> CallRecords]  BY <1>1, <1>c, CallFields DEF Feed!SignOut
    <2>2. auths' \in 0..MaxAuth  BY <1>1, FeedConstants DEF Feed!SignOut, FeedTypeInv
    <2>3. detail' \in [open : BOOLEAN, card : Feed!Cards \cup {None}, sure : BOOLEAN]  BY <1>1 DEF Feed!SignOut
    <2> QED  BY <1>1, <2>1, <2>2, <2>3 DEF Feed!SignOut, FeedTypeInv
  <1>2. CASE Feed!CloseDetail
    <2>1. \A c \in Calls : [call[c] EXCEPT !.live = FALSE] \in CallRecords  BY <1>c, CallFields
    <2>2. call' \in [Calls -> CallRecords]  BY <1>2, <2>1, <1>c DEF Feed!CloseDetail
    <2>3. detail' \in [open : BOOLEAN, card : Feed!Cards \cup {None}, sure : BOOLEAN]
      BY <1>2 DEF Feed!CloseDetail, FeedTypeInv
    <2> QED  BY <1>2, <2>2, <2>3 DEF Feed!CloseDetail, FeedTypeInv
  <1>3. CASE \E u \in Users : Feed!SignIn(u)
    BY <1>3, FeedConstants DEF Feed!SignIn, FeedTypeInv
  <1>4. ASSUME NEW c \in Calls, Feed!LoadFeed(c)  PROVE FeedTypeInv'
    <2>1. Feed!Cancelled("feed") \in [Calls -> CallRecords]  BY CancelledTypes
    <2>2. call' \in [Calls -> CallRecords] /\ starts' \in 0..MaxStarts
      BY <1>4, <2>1, <1>s, StartTypes DEF Feed!LoadFeed
    <2> QED  BY <1>4, <2>2 DEF Feed!LoadFeed, FeedTypeInv
  <1>5. ASSUME NEW c \in Calls, Feed!LoadDetail(c)  PROVE FeedTypeInv'
    <2>1. Feed!Cancelled("detail") \in [Calls -> CallRecords]  BY CancelledTypes
    <2>2. call' \in [Calls -> CallRecords] /\ starts' \in 0..MaxStarts
      BY <1>5, <2>1, <1>s, StartTypes DEF Feed!LoadDetail
    <2>3. detail' \in [open : BOOLEAN, card : Feed!Cards \cup {None}, sure : BOOLEAN]
      BY <1>5 DEF Feed!LoadDetail, FeedTypeInv
    <2> QED  BY <1>5, <2>2, <2>3 DEF Feed!LoadDetail, FeedTypeInv
  <1>6. ASSUME NEW c \in Calls, Feed!FeedList(c)  PROVE FeedTypeInv'
    <2>1. call' \in [Calls -> CallRecords]
      <3>1. CASE call' = [call EXCEPT ![c].at = "states", ![c].card = Feed!Raw]
        BY <3>1, <1>m, <1>s, CardTypes
      <3> QED  BY <1>6, <1>s, <1>g, <1>e, <3>1 DEF Feed!FeedList
    <2>2. api' \in Feed!Cards \cup {None}  BY <1>6, CardTypes DEF Feed!FeedList, FeedTypeInv
    <2> QED  BY <1>6, <2>1, <2>2 DEF Feed!FeedList, FeedTypeInv
  <1>7. ASSUME NEW c \in Calls, Feed!FeedRss(c)  PROVE FeedTypeInv'
    <2>1. call' \in [Calls -> CallRecords]
      <3>1. CASE call' = [call EXCEPT ![c].at = "states", ![c].card = Feed!Raw]
        BY <3>1, <1>m, <1>s, CardTypes
      <3> QED  BY <1>7, <1>s, <1>e, <3>1 DEF Feed!FeedRss
    <2>2. rss' \in Feed!Cards \cup {None}  BY <1>7, CardTypes DEF Feed!FeedRss, FeedTypeInv
    <2> QED  BY <1>7, <2>1, <2>2 DEF Feed!FeedRss, FeedTypeInv
  <1>8. ASSUME NEW c \in Calls, Feed!FeedStates(c)  PROVE FeedTypeInv'
    <2>1. Feed!Known(call[c].by) \in Feed!Cards  BY <1>8, <1>b, CardTypes DEF Feed!FeedStates
    <2>2. call' \in [Calls -> CallRecords]  
      <3>1. CASE call' = [call EXCEPT ![c].at = "arrive", ![c].card = Feed!Known(call[c].by)]
        BY <3>1, <2>1, <1>m, <1>s
      <3>2. CASE call' = [call EXCEPT ![c].at = "arrive", ![c].card = None]  BY <3>2, <1>m, <1>s
      <3> QED  BY <1>8, <3>1, <3>2 DEF Feed!FeedStates
    <2> QED  BY <1>8, <2>2 DEF Feed!FeedStates, FeedTypeInv
  <1>9. ASSUME NEW c \in Calls, Feed!FeedArrive(c)  PROVE FeedTypeInv'
    <2>1. Feed!Shown(c) \in Feed!Cards \cup {None}  BY <1>f, CardTypes DEF Feed!Shown
    <2>2. Feed!Refreshed(Feed!Shown(c)) \in Feed!Cards \cup {None}  BY <2>1, CardTypes
    <2> QED  BY <1>9, <1>e, <2>1, <2>2 DEF Feed!FeedArrive, FeedTypeInv
  <1>10. ASSUME NEW c \in Calls, Feed!DetailSource(c)  PROVE FeedTypeInv'
    <2>1. \A card : Feed!Resolve(c, call, card, "db") =>
             call' \in [Calls -> CallRecords] /\ sync' \in Calls \cup {None, "done"}
      BY <1>s, ResolveTypes DEF FeedTypeInv
    <2> QED  BY <1>10, <2>1, <1>s, <1>g, <1>e, CardTypes DEF Feed!DetailSource, FeedTypeInv
  <1>11. ASSUME NEW c \in Calls, Feed!DetailFind(c)  PROVE FeedTypeInv'
    <2>1. \A card : Feed!Resolve(c, call, card, "db") =>
             call' \in [Calls -> CallRecords] /\ sync' \in Calls \cup {None, "done"}
      BY <1>s, ResolveTypes DEF FeedTypeInv
    <2> QED  BY <1>11, <2>1, <1>s, <1>g, <1>e, CardTypes DEF Feed!DetailFind, FeedTypeInv
  <1>12. ASSUME NEW c \in Calls, Feed!DetailDb(c)  PROVE FeedTypeInv'
    <2>1. call[c].by \in Users  BY <1>12, <1>b DEF Feed!DetailDb
    <2>2. Feed!Known(call[c].by) \in Feed!Cards  BY <2>1, CardTypes
    <2>3. call' \in [Calls -> CallRecords]  
      <3>1. "arrive" \in Feed!Steps /\ "again" \in Feed!Steps  BY <1>s
      <3>2. [call EXCEPT ![c].at = "arrive", ![c].card = Feed!Known(call[c].by)] \in [Calls -> CallRecords]
        BY <3>1, <2>2, <1>m
      <3>3. Feed!Goto(c, "again") => call' \in [Calls -> CallRecords]  BY <3>1, <1>g
      <3> QED  BY <1>12, <3>2, <3>3 DEF Feed!DetailDb
    <2> QED  BY <1>12, <2>3 DEF Feed!DetailDb, FeedTypeInv
  <1>13. ASSUME NEW c \in Calls, Feed!DetailAgain(c)  PROVE FeedTypeInv'
    <2>1. CASE /\ api' = IF api # None /\ api.of # None THEN api ELSE Feed!Raw
               /\ call' = [call EXCEPT ![c].at = "arrive", ![c].card = api', ![c].wait = c]
               /\ UNCHANGED reading
      <3>1. api' \in Feed!Cards \cup {None}
        <4>1. api \in Feed!Cards \cup {None} /\ Feed!Raw \in Feed!Cards  BY CardTypes DEF FeedTypeInv
        <4>2. api' \in {api, Feed!Raw}  BY <2>1
        <4> QED  BY <4>1, <4>2
      <3>2. "arrive" \in Feed!Steps  BY <1>s
      <3>3. [call EXCEPT ![c].at = "arrive", ![c].card = api', ![c].wait = c] \in [Calls -> CallRecords]
        BY <3>1, <3>2, <1>w
      <3>4. call' \in [Calls -> CallRecords]  BY <2>1, <3>3
      <3> QED  BY <1>13, <2>1, <3>1, <3>4 DEF Feed!DetailAgain, FeedTypeInv
    <2>2. CASE ~(/\ api' = IF api # None /\ api.of # None THEN api ELSE Feed!Raw
                 /\ call' = [call EXCEPT ![c].at = "arrive", ![c].card = api', ![c].wait = c]
                 /\ UNCHANGED reading)
      <3>1. rss \in Feed!Cards \cup {None}  BY DEF FeedTypeInv
      <3>2. call' \in [Calls -> CallRecords]
        <4>r. \A at \in Feed!Steps, w \in Calls :
                 [call EXCEPT ![c].at = at, ![c].wait = w, ![c].card = rss] \in [Calls -> CallRecords]
          BY <3>1, <1>w
        <4>s. "read" \in Feed!Steps /\ "arrive" \in Feed!Steps  BY <1>s
        <4>1. CASE call' = [call EXCEPT ![c].at = "read", ![c].wait = c, ![c].card = rss]
          BY <4>1, <4>r, <4>s
        <4>2. CASE reading \in Calls /\ call' = [call EXCEPT ![c].at = "read", ![c].wait = reading, ![c].card = rss]
          BY <4>2, <4>r, <4>s
        <4>3. CASE call' = [call EXCEPT ![c].at = "arrive", ![c].wait = c, ![c].card = rss]
          BY <4>3, <4>r, <4>s
        <4>4. CASE Feed!End(c)  BY <4>4, <1>e
        <4> QED  BY <1>13, <2>2, <4>1, <4>2, <4>3, <4>4 DEF Feed!DetailAgain
      <3>3. api' = api /\ reading' \in Calls \cup {None, "done", "aborted"}
        BY <1>13, <2>2 DEF Feed!DetailAgain, FeedTypeInv
      <3> QED  BY <1>13, <3>2, <3>3 DEF Feed!DetailAgain, FeedTypeInv
    <2> QED  BY <2>1, <2>2
  <1>14. ASSUME NEW c \in Calls, Feed!DetailRead(c)  PROVE FeedTypeInv'
    <2>1. call' \in [Calls -> CallRecords]
      BY <1>14, <1>c, <1>s, CallFields DEF Feed!DetailRead
    <2> QED  BY <1>14, <2>1, <1>f DEF Feed!DetailRead, FeedTypeInv
  <1>15. ASSUME NEW c \in Calls, Feed!DetailArrive(c)  PROVE FeedTypeInv'
    <2>1. detail' \in [open : BOOLEAN, card : Feed!Cards \cup {None}, sure : BOOLEAN]
      BY <1>15, <1>f DEF Feed!DetailArrive, FeedTypeInv
    <2> QED  BY <1>15, <2>1, <1>e DEF Feed!DetailArrive, FeedTypeInv
  <1>16. ASSUME NEW c \in Calls, Feed!Abort(c)  PROVE FeedTypeInv'
    <2>1. call' \in [Calls -> CallRecords]  BY <1>16, <1>c, IdleType DEF Feed!Abort
    <2> QED  BY <1>16, <2>1 DEF Feed!Abort, FeedTypeInv
  <1>17. ASSUME NEW c \in Calls, Feed!SyncAnswer(c)  PROVE FeedTypeInv'
    <2>1. \A x \in Calls : Feed!Resolved(x) \in CallRecords  BY <1>c, <1>s, CallFields DEF Feed!Resolved
    <2>2. \A x \in Calls : [Feed!Unresolved(x) EXCEPT !.card = None] \in CallRecords
      <3> TAKE x \in Calls
      <3>1. Feed!Unresolved(x) \in CallRecords  BY <1>c, <1>s, CallFields DEF Feed!Unresolved
      <3> QED  BY <3>1 DEF CallRecords
    <2>3. call' \in [Calls -> CallRecords]
      <3>1. DOMAIN call' = Calls /\ call' = [x \in Calls |-> call'[x]]  BY <1>17 DEF Feed!SyncAnswer
      <3>2. ASSUME NEW x \in Calls
            PROVE  call'[x] \in {call[x], Feed!Idle, Feed!Resolved(x), [Feed!Unresolved(x) EXCEPT !.card = None]}
        BY <1>17 DEF Feed!SyncAnswer
      <3>3. \A x \in Calls : call'[x] \in CallRecords  BY <3>2, <2>1, <2>2, <1>c, IdleType
      <3> QED  BY <3>1, <3>3
    <2>4. sync' \in Calls \cup {None, "done"} /\ linked' \in BOOLEAN
      BY <1>17 DEF Feed!SyncAnswer, FeedTypeInv
    <2>5. UNCHANGED <<viewer, truth, api, rss, reading, feed, detail, starts, auths, lost>>
      BY <1>17 DEF Feed!SyncAnswer
    <2> QED  BY <2>3, <2>4, <2>5 DEF FeedTypeInv
  <1>18. ASSUME NEW c \in Calls, Feed!Commit(c)  PROVE FeedTypeInv'
    <2>1. call' \in [Calls -> CallRecords]
      <3>1. CASE Feed!Goto(c, "answer")  BY <3>1, <1>g, <1>s
      <3>2. CASE call' = [call EXCEPT ![c].at = "answer", ![c].card = None]  BY <3>2, <1>m, <1>s
      <3> QED  BY <1>18, <3>1, <3>2 DEF Feed!Commit
    <2>2. truth' \in [Users -> [joined : BOOLEAN, saved : BOOLEAN]]
      <3>1. call[c].by \in Users  BY <1>18, <1>b DEF Feed!Commit
      <3>2. \A j \in BOOLEAN :
              /\ [truth EXCEPT ![call[c].by].joined = j] \in [Users -> [joined : BOOLEAN, saved : BOOLEAN]]
              /\ [truth EXCEPT ![call[c].by].saved = j] \in [Users -> [joined : BOOLEAN, saved : BOOLEAN]]
        BY <3>1 DEF FeedTypeInv
      <3> QED  BY <1>18, <3>2 DEF Feed!Commit, FeedTypeInv
    <2>3. lost' \in BOOLEAN  BY <1>18 DEF Feed!Commit, FeedTypeInv
    <2> QED  BY <1>18, <2>1, <2>2, <2>3 DEF Feed!Commit, FeedTypeInv
  <1>19. ASSUME NEW c \in Calls, Feed!AnswerDetail(c)  PROVE FeedTypeInv'
    <2>1. CASE call[c].card = None
      BY <1>19, <2>1, <1>e DEF Feed!AnswerDetail, FeedTypeInv
    <2>2. CASE call[c].card # None
      <3> DEFINE card == Feed!Updated([call[c].card EXCEPT !.of = call[c].by], call[c].op)
      <3>1. call[c].op \in Feed!Taps  BY <1>19 DEF Feed!AnswerDetail, Feed!Taps
      <3>2. [call[c].card EXCEPT !.of = call[c].by] \in Feed!Cards  BY <2>2, <1>f DEF Feed!Cards
      <3>3. card \in Feed!Cards \cup {None}  BY <3>1, <3>2, CardTypes
      <3>4. [card EXCEPT !.of = call[c].by] \in Feed!Cards
        <4>1. CASE [call[c].card EXCEPT !.of = call[c].by] = None
          <5>1. [call[c].card EXCEPT !.of = call[c].by] \in Feed!Cards  BY <3>2
          <5>2. None \in Feed!Cards  BY <4>1, <5>1
          <5>3. card = None  BY <4>1 DEF Feed!Updated
          <5> QED  BY <5>2, <5>3, <1>f DEF Feed!Cards
        <4>2. CASE [call[c].card EXCEPT !.of = call[c].by] # None
          <5>1. card \in Feed!Cards
            BY <4>2, <3>2 DEF Feed!Updated, Feed!Cards, FeedTypeInv
          <5> QED  BY <5>1, <1>f DEF Feed!Cards
        <4> QED  BY <4>1, <4>2
      <3>5. /\ Feed!Updated(detail.card, call[c].op) \in Feed!Cards \cup {None}
            /\ Feed!Updated(feed, call[c].op) \in Feed!Cards \cup {None}
        BY <3>1, CardTypes DEF FeedTypeInv
      <3>6. detail' \in [open : BOOLEAN, card : Feed!Cards \cup {None}, sure : BOOLEAN]
        BY <1>19, <2>2, <3>5 DEF Feed!AnswerDetail, FeedTypeInv
      <3>7. api' \in Feed!Cards /\ rss' \in Feed!Cards  BY <1>19, <2>2, <3>4 DEF Feed!AnswerDetail
      <3>8. call' \in [Calls -> CallRecords]  BY <1>19, <2>2, RefetchTypes DEF Feed!AnswerDetail
      <3>9. feed' \in Feed!Cards \cup {None}  BY <1>19, <2>2, <3>5 DEF Feed!AnswerDetail
      <3> QED  BY <1>19, <3>6, <3>7, <3>8, <3>9 DEF Feed!AnswerDetail, FeedTypeInv
    <2> QED  BY <2>1, <2>2
  <1>20. ASSUME NEW c \in Calls, Feed!AnswerFeed(c)  PROVE FeedTypeInv'
    BY <1>20, <1>e, <1>f DEF Feed!AnswerFeed, FeedTypeInv
  <1>21. ASSUME NEW c \in Calls, Feed!TapFeed(c)  PROVE FeedTypeInv'
    <2> DEFINE tap == IF feed.saved THEN "unmark" ELSE "mark"
               r  == [Feed!Idle EXCEPT !.op = tap, !.by = viewer, !.card = feed, !.prev = feed]
               calls == [Feed!Cancelled("feed") EXCEPT ![c] = r]
    <2>1. r \in CallRecords /\ tap \in Feed!Taps
      BY DEF Feed!Idle, CallRecords, Feed!Steps, Feed!Taps, FeedTypeInv
    <2>2. calls \in [Calls -> CallRecords]  BY <2>1, CancelledTypes
    <2>3. Feed!Resolve(c, calls, feed, "commit")  BY <1>21 DEF Feed!TapFeed
    <2>4. call' \in [Calls -> CallRecords] /\ sync' \in Calls \cup {None, "done"}
      <3> HIDE DEF calls
      <3> QED  BY <2>2, <2>3, <1>s, ResolveTypes
    <2>5. feed' \in Feed!Cards \cup {None}
      <3>1. feed' = Feed!Updated(feed, tap)  BY <1>21 DEF Feed!TapFeed
      <3> HIDE DEF tap
      <3> QED  BY <3>1, <2>1, CardTypes DEF FeedTypeInv
    <2>6. starts' \in 0..MaxStarts  BY <1>21, FeedConstants DEF Feed!TapFeed, FeedTypeInv
    <2> QED  BY <1>21, <2>4, <2>5, <2>6 DEF Feed!TapFeed, FeedTypeInv
  <1>22. ASSUME NEW c \in Calls, NEW tap \in Feed!Taps, Feed!TapDetail(c, tap)  PROVE FeedTypeInv'
    <2> DEFINE r  == [Feed!Idle EXCEPT !.op = tap, !.by = viewer, !.card = detail.card,
                                       !.live = TRUE, !.alone = ~Feed!Pending(Feed!Attendance)]
               calls == [Feed!Beside(tap) EXCEPT ![c] = r]
    <2>1. r \in CallRecords
      BY DEF Feed!Idle, CallRecords, Feed!Steps, Feed!Taps, FeedTypeInv, Feed!Pending
    <2>2. calls \in [Calls -> CallRecords]  BY <2>1, BesideTypes
    <2>3. Feed!Resolve(c, calls, detail.card, "commit")  BY <1>22 DEF Feed!TapDetail
    <2>4. call' \in [Calls -> CallRecords] /\ sync' \in Calls \cup {None, "done"}
      <3> HIDE DEF calls
      <3> QED  BY <2>2, <2>3, <1>s, ResolveTypes
    <2>5. starts' \in 0..MaxStarts  BY <1>22, FeedConstants DEF Feed!TapDetail, FeedTypeInv
    <2> QED  BY <1>22, <2>4, <2>5 DEF Feed!TapDetail, FeedTypeInv
  <1> QED
    BY <1>1, <1>2, <1>3, <1>4, <1>5, <1>6, <1>7, <1>8, <1>9, <1>10, <1>11, <1>12, <1>13, <1>14,
       <1>15,
       <1>16, <1>17, <1>18, <1>19, <1>20, <1>21, <1>22 DEF Feed!Next

-----------------------------------------------------------------------------
(* What most steps do to the calls *)

\* A call is cancelled, is no longer alone, or gets the page that it waits for.
Weaker(a, b) ==
    \/ b = a \/ b = [a EXCEPT !.live = FALSE]
    \/ a.op # "none" /\ b = [a EXCEPT !.alone = FALSE]
    \/ a.at = "read" /\ (b = Feed!Idle \/ b = [a EXCEPT !.at = "arrive"])

\* A call begins, goes on or ends, and nobody waits for it.
Opens(x) ==
    /\ call[x].at # "sync"
    /\ call'[x].at \in At(call'[x].op) /\ call'[x].at # "answer"
    /\ call'[x].op = "none" => call'[x] = Feed!Idle
    /\ call'[x].at = "sync" => call'[x].wait = x \/ (sync \in Calls /\ call'[x].wait = sync)
    /\ call'[x].at = "read" => call'[x].wait \in Calls
    /\ Tied(call'[x].card) /\ Tied(call'[x].prev)
    /\ call'[x].at = "commit" => linked
    /\ call'[x].live => viewer # None /\ call'[x].by = viewer
    /\ call'[x].op # "none" => call'[x].by \in Users
    /\ ~lost /\ call'[x].op = "detail" /\ call'[x].live /\ call'[x].at = "arrive" /\ call'[x].wait = None
          => (call'[x].card # None => Current(call'[x].card.joined))
Fresh(x) == ~Stored(x) /\ Opens(x)

\* The calls before and after such a step, and the kept promise.
QuietCalls == \A x \in Calls : Weaker(call[x], call'[x]) \/ Fresh(x)
QuietSync  == \/ sync' \in {sync, None}
              \/ sync' \in Calls /\ Opens(sync') /\ call'[sync'].at = "sync" /\ call'[sync'].wait = sync'

LEMMA WeakerFields ==
    ASSUME NEW a \in CallRecords, NEW b \in CallRecords, Weaker(a, b)
    PROVE  \/ a.at = "read" /\ b = Feed!Idle
           \/ /\ b.op = a.op /\ b.card = a.card /\ b.prev = a.prev /\ b.by = a.by /\ b.wait = a.wait
              /\ b.at = a.at \/ (a.at = "read" /\ b.at = "arrive")
              /\ b.live => a.live
              /\ b.alone => a.alone
              /\ a = Feed!Idle => b = Feed!Idle
  <1>1. CASE b = a  BY <1>1
  <1>2. CASE b = [a EXCEPT !.live = FALSE]
    <2>1. /\ b.op = a.op /\ b.card = a.card /\ b.prev = a.prev /\ b.by = a.by /\ b.wait = a.wait
          /\ b.at = a.at /\ b.live = FALSE /\ b.alone = a.alone
      BY <1>2 DEF CallRecords
    <2>2. [Feed!Idle EXCEPT !.live = FALSE] = Feed!Idle
      <3>1. \A r \in CallRecords : r.live = FALSE => [r EXCEPT !.live = FALSE] = r  BY DEF CallRecords
      <3> QED  BY <3>1, IdleType DEF CallRecords
    <2>3. a = Feed!Idle => b = Feed!Idle  BY <1>2, <2>2
    <2> QED  BY <2>1, <2>3
  <1>3. CASE a.op # "none" /\ b = [a EXCEPT !.alone = FALSE]
    <2>1. /\ b.op = a.op /\ b.card = a.card /\ b.prev = a.prev /\ b.by = a.by /\ b.wait = a.wait
          /\ b.at = a.at /\ b.live = a.live /\ b.alone = FALSE
      BY <1>3 DEF CallRecords
    <2>2. a # Feed!Idle  BY <1>3, IdleType
    <2> QED  BY <2>1, <2>2
  <1>4. CASE a.at = "read" /\ b = [a EXCEPT !.at = "arrive"]
    <2>1. /\ b.op = a.op /\ b.card = a.card /\ b.prev = a.prev /\ b.by = a.by /\ b.wait = a.wait
          /\ b.at = "arrive" /\ b.live = a.live /\ b.alone = a.alone
      BY <1>4 DEF CallRecords
    <2>2. a # Feed!Idle  BY <1>4, IdleType
    <2> QED  BY <1>4, <2>1, <2>2
  <1> QED  BY <1>1, <1>2, <1>3, <1>4 DEF Weaker

\* Such a step keeps what holds of the calls.
LEMMA QuietCallsKept ==
    ASSUME Feed!EventFeedAssumption, FeedInv, call' \in [Calls -> CallRecords],
           \A x \in Calls : Weaker(call[x], call'[x]) \/ Opens(x), QuietSync, UNCHANGED linked
    PROVE  /\ CallsInv' /\ SyncInv'
           /\ \A c \in Calls : /\ Tied(call[c].card)' /\ Tied(call[c].prev)'
                               /\ call'[c].at = "commit" => linked'
                               /\ call'[c].at = "answer" /\ call'[c].card # None => linked'
  <1>t. \A c \in Calls : call[c] \in CallRecords /\ call'[c] \in CallRecords
    BY DEF FeedInv, FeedTypeInv
  <1>w. \A c \in Calls : Weaker(call[c], call'[c]) =>
          \/ call'[c] = Feed!Idle
          \/ /\ call'[c].op = call[c].op /\ call'[c].card = call[c].card /\ call'[c].prev = call[c].prev
             /\ call'[c].wait = call[c].wait
             /\ call'[c].at = call[c].at \/ (call[c].at = "read" /\ call'[c].at = "arrive")
             /\ call[c] = Feed!Idle => call'[c] = Feed!Idle
    BY <1>t, WeakerFields
  <1>i. Feed!Idle.at = "idle" /\ Feed!Idle.op = "none" /\ Feed!Idle.card = None /\ Feed!Idle.prev = None  BY IdleType
  <1>a. "idle" \in At("none")  BY DEF At, Feed!Taps
  <1>s. \A w \in Calls : call[w].at = "sync" => call'[w].at = "sync" /\ call'[w].wait = call[w].wait
    <2> TAKE w \in Calls
    <2> HAVE call[w].at = "sync"
    <2>1. Weaker(call[w], call'[w])  BY DEF Opens
    <2>2. call[w].at # "read" /\ call[w].at # "idle"  OBVIOUS
    <2>3. \/ call[w].at = "read" /\ call'[w] = Feed!Idle
          \/ /\ call'[w].wait = call[w].wait
             /\ call'[w].at = call[w].at \/ (call[w].at = "read" /\ call'[w].at = "arrive")
      BY <2>1, <1>t, WeakerFields
    <2> QED  BY <2>2, <2>3
  <1>r. \A tap \in Feed!Taps \cup {"none", "feed", "detail"} : "read" \in At(tap) => "arrive" \in At(tap)
    BY DEF At, Feed!Taps
  <1>1. ASSUME NEW c \in Calls  PROVE call'[c].at \in At(call'[c].op)
    <2>1. CASE Opens(c)  BY <2>1 DEF Opens
    <2>2. CASE Weaker(call[c], call'[c])
      <3>1. call[c].at \in At(call[c].op)  BY DEF FeedInv, CallsInv
      <3>2. call[c].op \in Feed!Taps \cup {"none", "feed", "detail"}  BY <1>t DEF CallRecords
      <3> QED  BY <2>2, <3>1, <3>2, <1>w, <1>i, <1>a, <1>r
    <2> QED  BY <2>1, <2>2
  <1>2. ASSUME NEW c \in Calls, call'[c].op = "none"  PROVE call'[c] = Feed!Idle
    <2>1. CASE Opens(c)  BY <2>1, <1>2 DEF Opens
    <2>2. CASE Weaker(call[c], call'[c])  BY <2>2, <1>2, <1>w DEF FeedInv, CallsInv
    <2> QED  BY <2>1, <2>2
  <1>3. ASSUME NEW c \in Calls, call'[c].at = "sync"
        PROVE  /\ call'[c].wait \in Calls
               /\ call'[call'[c].wait].at = "sync"
               /\ call'[call'[c].wait].wait = call'[c].wait
    <2>1. CASE Opens(c) /\ call'[c].wait = c  BY <2>1, <1>3
    <2>2. CASE Opens(c) /\ sync \in Calls /\ call'[c].wait = sync
      BY <2>2, <1>s DEF FeedInv, SyncInv
    <2>3. CASE Weaker(call[c], call'[c])
      <3>1. call[c].at = "sync" /\ call'[c].wait = call[c].wait  BY <2>3, <1>3, <1>w, <1>i
      <3>2. call[c].wait \in Calls /\ call[call[c].wait].at = "sync"
            /\ call[call[c].wait].wait = call[c].wait
        BY <3>1 DEF FeedInv, CallsInv
      <3> QED  BY <3>1, <3>2, <1>s
    <2> QED  BY <2>1, <2>2, <2>3, <1>3 DEF Opens
  <1>4. ASSUME NEW c \in Calls, call'[c].at = "read"  PROVE call'[c].wait \in Calls
    <2>1. CASE Opens(c)  BY <2>1, <1>4 DEF Opens
    <2>2. CASE Weaker(call[c], call'[c])  BY <2>2, <1>4, <1>w, <1>i DEF FeedInv, CallsInv
    <2> QED  BY <2>1, <2>2
  <1>5. CallsInv'
    BY <1>1, <1>2, <1>3, <1>4 DEF CallsInv
  <1>6. SyncInv'
    <2>1. CASE sync' = sync  BY <2>1, <1>s DEF FeedInv, SyncInv
    <2>2. CASE sync' = None  BY <2>2, FeedConstants DEF SyncInv
    <2>3. CASE sync' \in Calls /\ Opens(sync') /\ call'[sync'].at = "sync" /\ call'[sync'].wait = sync'
      BY <2>3 DEF SyncInv
    <2> QED  BY <2>1, <2>2, <2>3 DEF QuietSync
  <1>7. ASSUME NEW c \in Calls
        PROVE  /\ Tied(call[c].card)' /\ Tied(call[c].prev)'
               /\ call'[c].at = "commit" => linked'
               /\ call'[c].at = "answer" /\ call'[c].card # None => linked'
    <2>1. CASE Opens(c)  BY <2>1 DEF Opens, Tied
    <2>2. CASE Weaker(call[c], call'[c])
      BY <2>2, <1>w, <1>i DEF FeedInv, LinkInv, Tied
    <2> QED  BY <2>1, <2>2
  <1> QED  BY <1>5, <1>6, <1>7

\* ... and what is known of the joins, as long as the account stays.
LEMMA QuietJoinsKept ==
    ASSUME Feed!EventFeedAssumption, FeedInv, call' \in [Calls -> CallRecords],
           QuietCalls, UNCHANGED <<viewer, truth, lost>>,
           (\A c \in Calls : Attends(c)' => Weaker(call[c], call'[c]))
             \/ (\A c, d \in Calls : c # d /\ Attends(c)' /\ Attends(d)' => ~call'[c].alone)
    PROVE  /\ \A c \in Calls : call'[c].live => viewer' # None /\ call'[c].by = viewer'
           /\ \A c \in Calls : call'[c].op # "none" => call'[c].by \in Users
           /\ AloneInv'
           /\ \A joined \in BOOLEAN : Current(joined) => Current(joined)'
           /\ \A c \in Calls :
                 ~lost' /\ call'[c].op = "detail" /\ call'[c].live /\ call'[c].at = "arrive"
                    /\ call'[c].wait = None
                    => (call'[c].card # None => Current(call[c].card.joined)')
  <1>t. \A c \in Calls : call[c] \in CallRecords /\ call'[c] \in CallRecords
    BY DEF FeedInv, FeedTypeInv
  <1>w. \A c \in Calls : Weaker(call[c], call'[c]) =>
          \/ call[c].at = "read" /\ call'[c] = Feed!Idle
          \/ /\ call'[c].op = call[c].op /\ call'[c].card = call[c].card /\ call'[c].by = call[c].by
             /\ call'[c].wait = call[c].wait
             /\ call'[c].at = call[c].at \/ (call[c].at = "read" /\ call'[c].at = "arrive")
             /\ call'[c].live => call[c].live
             /\ call'[c].alone => call[c].alone
    BY <1>t, WeakerFields
  <1>i. Feed!Idle.at = "idle" /\ Feed!Idle.op = "none" /\ ~Feed!Idle.live  BY IdleType
  <1>d. ASSUME NEW c \in Calls  PROVE (Stored(c)' <=> Stored(c)) /\ (Done(c)' <=> Done(c))
    <2>1. CASE Fresh(c)  BY <2>1 DEF Fresh, Opens, Done, Stored
    <2>2. CASE Weaker(call[c], call'[c])
      BY <2>2, <1>w, <1>i DEF Done, Stored, Attends, Feed!Attendance
    <2> QED  BY <2>1, <2>2 DEF QuietCalls
  <1>1. ASSUME NEW c \in Calls, call'[c].live  PROVE viewer' # None /\ call'[c].by = viewer'
    <2>1. CASE Fresh(c)  BY <2>1, <1>1 DEF Fresh, Opens
    <2>2. CASE Weaker(call[c], call'[c])  BY <2>2, <1>1, <1>w, <1>i DEF FeedInv, ViewerInv
    <2> QED  BY <2>1, <2>2 DEF QuietCalls
  <1>2. ASSUME NEW c \in Calls, call'[c].op # "none"  PROVE call'[c].by \in Users
    <2>1. CASE Fresh(c)  BY <2>1, <1>2 DEF Fresh, Opens
    <2>2. CASE Weaker(call[c], call'[c])  BY <2>2, <1>2, <1>w, <1>i DEF FeedInv, ViewerInv
    <2> QED  BY <2>1, <2>2 DEF QuietCalls
  <1>a. ASSUME NEW c \in Calls, Attends(c)', Weaker(call[c], call'[c])
        PROVE  Attends(c) /\ (call'[c].alone => call[c].alone)
    BY <1>a, <1>w, <1>i DEF Attends, Feed!Attendance
  <1>3. AloneInv'
    <2>1. ASSUME NEW c \in Calls, NEW d \in Calls, c # d, Attends(c)', Attends(d)'  PROVE ~call'[c].alone
      <3>1. CASE \A x \in Calls : Attends(x)' => Weaker(call[x], call'[x])
        <4>1. Attends(c) /\ Attends(d) /\ (call'[c].alone => call[c].alone)  BY <2>1, <3>1, <1>a
        <4>2. ~call[c].alone  BY <4>1, <2>1 DEF FeedInv, AloneInv
        <4> QED  BY <4>1, <4>2
      <3> QED  BY <2>1, <3>1
    <2>2. ASSUME NEW c \in Calls, Stored(c)', call'[c].alone
          PROVE  truth'[call'[c].by].joined = (call'[c].op = "join")
      <3>1. Stored(c)  BY <2>2, <1>d
      <3>2. Weaker(call[c], call'[c])  BY <3>1 DEF QuietCalls, Fresh
      <3>3. call[c].alone /\ call'[c].op = call[c].op /\ call'[c].by = call[c].by
        BY <2>2, <3>1, <3>2, <1>w, <1>i DEF Stored
      <3> QED  BY <3>1, <3>3 DEF FeedInv, AloneInv
    <2> QED  BY <2>1, <2>2 DEF AloneInv
  <1>4. ASSUME NEW joined \in BOOLEAN, Current(joined)  PROVE Current(joined)'
    BY <1>4, <1>d DEF Current
  <1>5. ASSUME NEW c \in Calls, ~lost', call'[c].op = "detail", call'[c].live, call'[c].at = "arrive",
               call'[c].wait = None, call'[c].card # None
        PROVE  Current(call[c].card.joined)'
    <2>0. call'[c].card.joined \in BOOLEAN  BY <1>5, <1>t DEF CallRecords, Feed!Cards
    <2>1. Current(call'[c].card.joined)
      <3>1. CASE Fresh(c)  BY <3>1, <1>5 DEF Fresh, Opens
      <3>2. CASE Weaker(call[c], call'[c])
        <4>1. call[c].at # "read"
          BY <3>2, <1>5, <1>w, <1>i, FeedConstants DEF FeedInv, CallsInv
        <4> QED  BY <3>2, <4>1, <1>5, <1>w, <1>i DEF FeedInv, JoinedInv
      <3> QED  BY <3>1, <3>2 DEF QuietCalls
    <2> QED  BY <2>0, <2>1, <1>d DEF Current
  <1> QED  BY <1>1, <1>2, <1>3, <1>4, <1>5

\* The whole of a step that is quiet about the calls.
LEMMA QuietStep ==
    ASSUME Feed!EventFeedAssumption, FeedInv, Feed!Next, QuietCalls, QuietSync,
           UNCHANGED <<viewer, truth, linked, lost>>,
           (\A c \in Calls : Attends(c)' => Weaker(call[c], call'[c]))
             \/ (\A c, d \in Calls : c # d /\ Attends(c)' /\ Attends(d)' => ~call'[c].alone),
           Tied(api'), Tied(rss'), Tied(feed'), Tied(detail'.card),
           viewer = None => ~detail'.open /\ detail'.card = None,
           ~lost /\ detail'.card # None /\ detail'.sure => Current(detail'.card.joined)
    PROVE  FeedInv'
  <1>1. FeedTypeInv'  BY FeedTypesKept DEF FeedInv
  <1>2. call' \in [Calls -> CallRecords]  BY <1>1 DEF FeedTypeInv
  <1>3. /\ CallsInv' /\ SyncInv'
        /\ \A c \in Calls : /\ Tied(call[c].card)' /\ Tied(call[c].prev)'
                            /\ call'[c].at = "commit" => linked'
                            /\ call'[c].at = "answer" /\ call'[c].card # None => linked'
    BY <1>2, QuietCallsKept DEF QuietCalls, Fresh
  <1>4. /\ \A c \in Calls : call'[c].live => viewer' # None /\ call'[c].by = viewer'
        /\ \A c \in Calls : call'[c].op # "none" => call'[c].by \in Users
        /\ AloneInv'
        /\ \A joined \in BOOLEAN : Current(joined) => Current(joined)'
        /\ \A c \in Calls :
              ~lost' /\ call'[c].op = "detail" /\ call'[c].live /\ call'[c].at = "arrive"
                 /\ call'[c].wait = None
                 => (call'[c].card # None => Current(call[c].card.joined)')
    BY <1>2, QuietJoinsKept
  <1>5. LinkInv'
    <2>1. sync' = "done" => linked'
      BY FeedConstants DEF QuietSync, FeedInv, LinkInv
    <2>2. Tied(api)' /\ Tied(rss)' /\ Tied(feed)' /\ Tied(detail.card)'  BY DEF Tied
    <2>3. \A u \in Users : truth'[u].joined => linked'  BY DEF FeedInv, LinkInv
    <2> QED  BY <1>3, <2>1, <2>2, <2>3 DEF LinkInv
  <1>6. ViewerInv'  BY <1>4 DEF ViewerInv
  <1>7. JoinedInv'
    <2>1. ASSUME ~lost', detail'.card # None, detail'.sure  PROVE Current(detail.card.joined)'
      <3>1. Current(detail'.card.joined)  BY <2>1
      <3>2. detail'.card \in Feed!Cards  BY <1>1, <2>1 DEF FeedTypeInv
      <3>3. detail'.card.joined \in BOOLEAN  BY <3>2 DEF Feed!Cards
      <3>4. PICK j \in BOOLEAN : j = detail'.card.joined  BY <3>3
      <3>5. Current(j)'  BY <3>1, <3>4, <1>4
      <3> QED  BY <3>4, <3>5 DEF Current
    <2> QED  BY <2>1, <1>4 DEF JoinedInv
  <1> QED  BY <1>1, <1>3, <1>4, <1>5, <1>6, <1>7 DEF FeedInv

\* One call takes its next step, the others stay or are cancelled.
LEMMA OneCall ==
    ASSUME FeedInv, NEW c \in Calls, Fresh(c), ~Attends(c)',
           \A x \in Calls \ {c} : Weaker(call[x], call'[x])
    PROVE  QuietCalls /\ \A x \in Calls : Attends(x)' => Weaker(call[x], call'[x])
  BY DEF QuietCalls

\* What a call that has come to some place is like.
LEMMA Places ==
    ASSUME FeedInv, NEW c \in Calls
    PROVE  /\ call[c].at \in {"list", "rss"} => call[c].op = "feed"
           /\ call[c].at \in {"source", "find", "db", "again", "read"} => call[c].op = "detail"
           /\ call[c].at \in {"commit", "answer"} => call[c].op \in Feed!Taps
           /\ call[c].at # "idle" => call[c].by \in Users /\ call[c].op # "none"
           /\ Stored(c) => call[c].at = "answer"
           /\ call[c].card \in Feed!Cards \cup {None} /\ call[c].prev \in Feed!Cards \cup {None}
           /\ call[c].wait \in Calls \cup {None}
           /\ Tied(call[c].card) /\ Tied(call[c].prev)
  <1>1. call[c] \in CallRecords /\ call[c].at \in At(call[c].op)  BY DEF FeedInv, FeedTypeInv, CallsInv
  <1>2. call[c].op \in Feed!Taps \cup {"none", "feed", "detail"}
        /\ call[c].card \in Feed!Cards \cup {None} /\ call[c].prev \in Feed!Cards \cup {None}
        /\ call[c].wait \in Calls \cup {None}
    BY <1>1 DEF CallRecords
  <1>3. call[c].op = "none" => call[c].at = "idle"  BY IdleType DEF FeedInv, CallsInv
  <1>4. \A tap \in Feed!Taps : At(tap) = {"sync", "commit", "answer"}  BY DEF At, Feed!Taps
  <1>5. At("feed") = {"list", "rss", "states", "arrive"}  BY DEF At, Feed!Taps
  <1>6. At("detail") = {"source", "find", "sync", "db", "again", "read", "arrive"}  BY DEF At, Feed!Taps
  <1>7. call[c].at \in {"list", "rss"} => call[c].op = "feed"
    BY <1>1, <1>2, <1>3, <1>4, <1>6
  <1>8. call[c].at \in {"source", "find", "db", "again", "read"} => call[c].op = "detail"
    BY <1>1, <1>2, <1>3, <1>4, <1>5
  <1>9. call[c].at \in {"commit", "answer"} => call[c].op \in Feed!Taps
    BY <1>1, <1>2, <1>3, <1>5, <1>6
  <1>10. call[c].at # "idle" => call[c].by \in Users /\ call[c].op # "none"
    BY <1>3, IdleType DEF FeedInv, ViewerInv, CallsInv
  <1> QED
    BY <1>2, <1>7, <1>8, <1>9, <1>10 DEF Stored, FeedInv, LinkInv

\* The step changes nothing else of its call.
Moved(c, at, card, w) ==
    /\ call'[c].at = at /\ call'[c].card = card /\ call'[c].wait = w
    /\ call'[c].op = call[c].op /\ call'[c].by = call[c].by
    /\ call'[c].prev = call[c].prev /\ call'[c].live = call[c].live

LEMMA FreshMove ==
    ASSUME Feed!EventFeedAssumption, FeedInv, NEW c \in Calls, call[c].op \in {"feed", "detail"}, call[c].at # "sync",
           NEW at \in Feed!Steps, at \in At(call[c].op), at \notin {"sync", "answer", "commit"},
           NEW card \in Feed!Cards \cup {None}, Tied(card), NEW w \in Calls \cup {None}, at = "read" => w \in Calls,
           Moved(c, at, card, w),
           ~lost /\ call[c].op = "detail" /\ call[c].live /\ at = "arrive" /\ w = None
             => (card # None => Current(card.joined))
    PROVE  Fresh(c) /\ ~Attends(c)'
  <1>2. ~Stored(c) /\ ~Attends(c)'  BY DEF Moved, Stored, Attends, Feed!Attendance
  <1>3. call[c].live => viewer # None /\ call[c].by = viewer  BY DEF FeedInv, ViewerInv
  <1>4. call[c].by \in Users /\ Tied(call[c].prev)  BY DEF FeedInv, ViewerInv, LinkInv
  <1> QED  BY <1>2, <1>3, <1>4 DEF Fresh, Opens, Moved

LEMMA FreshEnd ==
    ASSUME FeedInv, NEW c \in Calls, call[c].at # "sync", ~Stored(c), call'[c] = Feed!Idle
    PROVE  Fresh(c) /\ ~Attends(c)'
  <1>1. "idle" \in At("none")  BY DEF At, Feed!Taps
  <1> QED  BY <1>1, IdleType DEF Fresh, Opens, Tied, Attends, Feed!Attendance

\* A call that begins a load.
LEMMA FreshLoad ==
    ASSUME FeedInv, NEW c \in Calls, ~Stored(c), call[c].at # "sync", viewer # None,
           NEW tap, NEW at, (tap = "feed" /\ at = "list") \/ (tap = "detail" /\ at = "source"),
           call'[c] = [Feed!Idle EXCEPT !.op = tap, !.at = at, !.by = viewer, !.live = TRUE]
    PROVE  Fresh(c) /\ ~Attends(c)'
  <1>1. /\ call'[c].op = tap /\ call'[c].at = at /\ call'[c].by = viewer /\ call'[c].live
        /\ call'[c].card = None /\ call'[c].prev = None
    BY DEF Feed!Idle
  <1>2. at \in At(tap)  BY DEF At, Feed!Taps
  <1>3. viewer \in Users  BY DEF FeedInv, FeedTypeInv
  <1> QED  BY <1>1, <1>2, <1>3 DEF Fresh, Opens, Tied, Attends, Feed!Attendance

LEMMA CancelledWeaker ==
    ASSUME FeedInv, NEW tap
    PROVE  \A x \in Calls : Weaker(call[x], Feed!Cancelled(tap)[x])
  BY DEF Feed!Cancelled, Weaker, FeedInv, FeedTypeInv

LEMMA LoadFeedKept ==
    ASSUME Feed!EventFeedAssumption, FeedInv, Feed!Next, NEW c \in Calls, Feed!LoadFeed(c)
    PROVE  FeedInv'
  <1>1. call'[c] = [Feed!Idle EXCEPT !.op = "feed", !.at = "list", !.by = viewer, !.live = TRUE]
        /\ viewer # None /\ call[c] = Feed!Idle
        /\ \A x \in Calls \ {c} : call'[x] = Feed!Cancelled("feed")[x]
    BY CancelledTypes DEF Feed!LoadFeed, Feed!Start, FeedInv
  <1>2. Fresh(c) /\ ~Attends(c)'
    <2>1. ~Stored(c) /\ call[c].at # "sync"  BY <1>1, IdleType, Places
    <2> QED  BY <1>1, <2>1, FreshLoad
  <1>3. QuietCalls /\ \A x \in Calls : Attends(x)' => Weaker(call[x], call'[x])
    BY <1>1, <1>2, CancelledWeaker, OneCall
  <1>4. Tied(api') /\ Tied(rss') /\ Tied(feed') /\ Tied(detail'.card)
    BY DEF Feed!LoadFeed, FeedInv, LinkInv, Tied, Feed!cache
  <1>5. UNCHANGED <<viewer, truth, linked, lost, detail>> /\ QuietSync
    BY DEF Feed!LoadFeed, Feed!server, QuietSync
  <1> QED  BY <1>3, <1>4, <1>5, QuietStep DEF FeedInv, ViewerInv, JoinedInv

LEMMA LoadDetailKept ==
    ASSUME Feed!EventFeedAssumption, FeedInv, Feed!Next, NEW c \in Calls, Feed!LoadDetail(c)
    PROVE  FeedInv'
  <1>1. call'[c] = [Feed!Idle EXCEPT !.op = "detail", !.at = "source", !.by = viewer, !.live = TRUE]
        /\ viewer # None /\ call[c] = Feed!Idle
        /\ \A x \in Calls \ {c} : call'[x] = Feed!Cancelled("detail")[x]
    BY CancelledTypes DEF Feed!LoadDetail, Feed!Start, FeedInv
  <1>2. Fresh(c) /\ ~Attends(c)'
    <2>1. ~Stored(c) /\ call[c].at # "sync"  BY <1>1, IdleType, Places
    <2> QED  BY <1>1, <2>1, FreshLoad
  <1>3. QuietCalls /\ \A x \in Calls : Attends(x)' => Weaker(call[x], call'[x])
    BY <1>1, <1>2, CancelledWeaker, OneCall
  <1>4. UNCHANGED <<viewer, truth, linked, lost, api, rss, feed>> /\ QuietSync
    BY DEF Feed!LoadDetail, Feed!server, Feed!cache, QuietSync
  <1>5. detail'.card = detail.card /\ detail'.sure = detail.sure
    BY DEF Feed!LoadDetail, FeedInv, FeedTypeInv
  <1>6. Tied(api') /\ Tied(rss') /\ Tied(feed') /\ Tied(detail'.card)
    BY <1>4, <1>5 DEF FeedInv, LinkInv
  <1> QED  BY <1>1, <1>3, <1>4, <1>5, <1>6, QuietStep DEF FeedInv, JoinedInv

\* The caches and the screen stay as they are.
LEMMA CardsStay ==
    ASSUME FeedInv
    PROVE  /\ Tied(api) /\ Tied(rss) /\ Tied(feed) /\ Tied(detail.card) /\ Tied(Feed!Raw) /\ Tied(None)
           /\ \A u \in Users : Tied(Feed!Known(u))
           /\ \A card : Tied(card) => Tied(Feed!Refreshed(card)) /\ Tied(Feed!Preserved(card))
           /\ viewer = None => ~detail.open /\ detail.card = None
           /\ ~lost /\ detail.card # None /\ detail.sure => Current(detail.card.joined)
  <1>1. Tied(Feed!Raw) /\ Tied(None)  BY DEF Tied, Feed!Raw
  <1>2. \A u \in Users : Tied(Feed!Known(u))  BY DEF Tied, Feed!Raw, Feed!Known
  <1>3. \A card : Tied(card) => Tied(Feed!Refreshed(card)) /\ Tied(Feed!Preserved(card))
    BY DEF Feed!Refreshed, Feed!Preserved, FeedInv, LinkInv
  <1> QED  BY <1>1, <1>2, <1>3 DEF FeedInv, LinkInv, ViewerInv, JoinedInv

LEMMA FeedListKept ==
    ASSUME Feed!EventFeedAssumption, FeedInv, Feed!Next, NEW c \in Calls, Feed!FeedList(c)
    PROVE  FeedInv'
  <1>0. "states" \in Feed!Steps /\ "rss" \in Feed!Steps /\ "states" \in At("feed") /\ "rss" \in At("feed")
    BY DEF Feed!Steps, At, Feed!Taps
  <1>1. call[c].op = "feed" /\ call[c].at = "list" /\ ~Stored(c)  BY Places DEF Feed!FeedList
  <1>2. CASE api' = Feed!Raw /\ call' = [call EXCEPT ![c].at = "states", ![c].card = Feed!Raw]
    <2>1. Moved(c, "states", Feed!Raw, call[c].wait) /\ \A x \in Calls \ {c} : call'[x] = call[x]
      BY <1>2 DEF Moved, FeedInv, FeedTypeInv, CallRecords
    <2>2. Fresh(c) /\ ~Attends(c)'
      BY <2>1, <1>0, <1>1, FreshMove, Places, CardTypes, CardsStay DEF FeedInv
    <2>3. QuietCalls /\ \A x \in Calls : Attends(x)' => Weaker(call[x], call'[x])
      BY <2>1, <2>2, OneCall DEF Weaker
    <2> QED  BY <1>2, <2>3, CardsStay, QuietStep DEF Feed!FeedList, QuietSync, Feed!server
  <1>3. CASE Feed!Goto(c, "rss") /\ UNCHANGED api
    <2>1. Moved(c, "rss", call[c].card, call[c].wait) /\ \A x \in Calls \ {c} : call'[x] = call[x]
      BY <1>3 DEF Feed!Goto, Moved, FeedInv, FeedTypeInv, CallRecords
    <2>2. Fresh(c) /\ ~Attends(c)'
      BY <2>1, <1>0, <1>1, FreshMove, Places
    <2>3. QuietCalls /\ \A x \in Calls : Attends(x)' => Weaker(call[x], call'[x])
      BY <2>1, <2>2, OneCall DEF Weaker
    <2> QED  BY <1>3, <2>3, CardsStay, QuietStep DEF Feed!FeedList, QuietSync, Feed!server
  <1>4. CASE Feed!End(c) /\ UNCHANGED api
    <2>1. call'[c] = Feed!Idle /\ \A x \in Calls \ {c} : call'[x] = call[x]
      BY <1>4 DEF Feed!End, FeedInv, FeedTypeInv
    <2>2. Fresh(c) /\ ~Attends(c)'  BY <2>1, <1>1, FreshEnd
    <2>3. QuietCalls /\ \A x \in Calls : Attends(x)' => Weaker(call[x], call'[x])
      BY <2>1, <2>2, OneCall DEF Weaker
    <2> QED  BY <1>4, <2>3, CardsStay, QuietStep DEF Feed!FeedList, QuietSync, Feed!server
  <1> QED  BY <1>2, <1>3, <1>4 DEF Feed!FeedList

\* A step of one call that leaves the others alone.
LEMMA OneStep ==
    ASSUME Feed!EventFeedAssumption, FeedInv, Feed!Next, NEW c \in Calls, Fresh(c), ~Attends(c)',
           \A x \in Calls \ {c} : call'[x] = call[x],
           UNCHANGED <<viewer, truth, linked, lost>>, QuietSync,
           Tied(api'), Tied(rss'), Tied(feed'), Tied(detail'.card),
           viewer = None => ~detail'.open /\ detail'.card = None,
           ~lost /\ detail'.card # None /\ detail'.sure => Current(detail'.card.joined)
    PROVE  FeedInv'
  <1>1. QuietCalls /\ \A x \in Calls : Attends(x)' => Weaker(call[x], call'[x])
    BY OneCall DEF Weaker
  <1> QED  BY <1>1, QuietStep

LEMMA FeedRssKept ==
    ASSUME Feed!EventFeedAssumption, FeedInv, Feed!Next, NEW c \in Calls, Feed!FeedRss(c)
    PROVE  FeedInv'
  <1>0. "states" \in Feed!Steps /\ "states" \in At("feed")  BY DEF Feed!Steps, At, Feed!Taps
  <1>1. call[c].op = "feed" /\ call[c].at = "rss" /\ ~Stored(c)  BY Places DEF Feed!FeedRss
  <1>2. CASE rss' = Feed!Refreshed(Feed!Raw) /\ call' = [call EXCEPT ![c].at = "states", ![c].card = Feed!Raw]
    <2>1. Moved(c, "states", Feed!Raw, call[c].wait) /\ \A x \in Calls \ {c} : call'[x] = call[x]
      BY <1>2 DEF Moved, FeedInv, FeedTypeInv, CallRecords
    <2>2. Fresh(c) /\ ~Attends(c)'
      BY <2>1, <1>0, <1>1, FreshMove, Places, CardTypes, CardsStay DEF FeedInv
    <2> QED  BY <1>2, <2>1, <2>2, CardsStay, OneStep DEF Feed!FeedRss, QuietSync, Feed!server
  <1>3. CASE Feed!End(c) /\ UNCHANGED rss
    <2>1. call'[c] = Feed!Idle /\ \A x \in Calls \ {c} : call'[x] = call[x]
      BY <1>3 DEF Feed!End, FeedInv, FeedTypeInv
    <2>2. Fresh(c) /\ ~Attends(c)'  BY <2>1, <1>1, FreshEnd
    <2> QED  BY <1>3, <2>1, <2>2, CardsStay, OneStep DEF Feed!FeedRss, QuietSync, Feed!server
  <1> QED  BY <1>2, <1>3 DEF Feed!FeedRss

LEMMA FeedStatesKept ==
    ASSUME Feed!EventFeedAssumption, FeedInv, Feed!Next, NEW c \in Calls, Feed!FeedStates(c)
    PROVE  FeedInv'
  <1>0. "arrive" \in Feed!Steps /\ "arrive" \in At("feed")  BY DEF Feed!Steps, At, Feed!Taps
  <1>1. call[c].op = "feed" /\ call[c].at = "states" /\ ~Stored(c) /\ call[c].by \in Users
    BY Places DEF Feed!FeedStates
  <1>2. PICK card \in Feed!Cards \cup {None} :
           Tied(card) /\ call' = [call EXCEPT ![c].at = "arrive", ![c].card = card]
    <2>1. Feed!Known(call[c].by) \in Feed!Cards \cup {None} /\ Tied(Feed!Known(call[c].by)) /\ Tied(None)
      BY <1>1, CardTypes, CardsStay DEF FeedInv
    <2> QED  BY <2>1 DEF Feed!FeedStates
  <1>3. Moved(c, "arrive", card, call[c].wait) /\ \A x \in Calls \ {c} : call'[x] = call[x]
    BY <1>2 DEF Moved, FeedInv, FeedTypeInv, CallRecords
  <1>4. Fresh(c) /\ ~Attends(c)'
    BY <1>3, <1>2, <1>0, <1>1, FreshMove, Places
  <1> QED  BY <1>3, <1>4, CardsStay, OneStep DEF Feed!FeedStates, QuietSync, Feed!server, Feed!cache

LEMMA FeedArriveKept ==
    ASSUME Feed!EventFeedAssumption, FeedInv, Feed!Next, NEW c \in Calls, Feed!FeedArrive(c)
    PROVE  FeedInv'
  <1>1. call[c].at = "arrive" /\ ~Stored(c)  BY Places DEF Feed!FeedArrive
  <1>2. call'[c] = Feed!Idle /\ \A x \in Calls \ {c} : call'[x] = call[x]
    BY DEF Feed!FeedArrive, Feed!End, FeedInv, FeedTypeInv
  <1>3. Fresh(c) /\ ~Attends(c)'  BY <1>1, <1>2, FreshEnd
  <1>4. Tied(Feed!Shown(c)) /\ Tied(Feed!Refreshed(Feed!Shown(c)))  BY Places, CardsStay DEF Feed!Shown
  <1> QED  BY <1>2, <1>3, <1>4, CardsStay, OneStep DEF Feed!FeedArrive, QuietSync, Feed!server

LEMMA DetailDbKept ==
    ASSUME Feed!EventFeedAssumption, FeedInv, Feed!Next, NEW c \in Calls, Feed!DetailDb(c)
    PROVE  FeedInv'
  <1>0. "arrive" \in Feed!Steps /\ "again" \in Feed!Steps /\ {"arrive", "again"} \subseteq At("detail")
    BY DEF Feed!Steps, At, Feed!Taps
  <1>1. call[c].op = "detail" /\ call[c].at = "db" /\ ~Stored(c)  BY Places DEF Feed!DetailDb
  <1>2. call[c].by = viewer /\ viewer \in Users  BY DEF Feed!DetailDb, FeedInv, ViewerInv, FeedTypeInv
  <1>3. CASE call' = [call EXCEPT ![c].at = "arrive", ![c].card = Feed!Known(call[c].by)]
    <2>1. Moved(c, "arrive", Feed!Known(viewer), call[c].wait) /\ \A x \in Calls \ {c} : call'[x] = call[x]
      BY <1>2, <1>3 DEF Moved, FeedInv, FeedTypeInv, CallRecords
    <2>2. Feed!Known(viewer) \in Feed!Cards \cup {None} /\ Tied(Feed!Known(viewer))
      BY <1>2, CardTypes, CardsStay DEF FeedInv
    <2>3. Feed!Known(viewer).joined = truth[viewer].joined
      <3>1. truth[viewer].joined \in BOOLEAN  BY <1>2 DEF FeedInv, FeedTypeInv
      <3>2. ~linked => ~truth[viewer].joined  BY <1>2 DEF FeedInv, LinkInv
      <3> QED  BY <3>1, <3>2 DEF Feed!Known, Feed!Raw
    <2>4. Current(Feed!Known(viewer).joined)  BY <2>3 DEF Current
    <2>5. Fresh(c) /\ ~Attends(c)'
      BY <2>1, <2>2, <2>4, <1>0, <1>1, FreshMove, Places
    <2> QED  BY <2>1, <2>5, CardsStay, OneStep DEF Feed!DetailDb, QuietSync, Feed!server, Feed!cache
  <1>4. CASE Feed!Goto(c, "again")
    <2>1. Moved(c, "again", call[c].card, call[c].wait) /\ \A x \in Calls \ {c} : call'[x] = call[x]
      BY <1>4 DEF Feed!Goto, Moved, FeedInv, FeedTypeInv, CallRecords
    <2>2. Fresh(c) /\ ~Attends(c)'  BY <2>1, <1>0, <1>1, FreshMove, Places
    <2> QED  BY <2>1, <2>2, CardsStay, OneStep DEF Feed!DetailDb, QuietSync, Feed!server, Feed!cache
  <1> QED  BY <1>3, <1>4 DEF Feed!DetailDb

LEMMA DetailAgainKept ==
    ASSUME Feed!EventFeedAssumption, FeedInv, Feed!Next, NEW c \in Calls, Feed!DetailAgain(c)
    PROVE  FeedInv'
  <1>0. "arrive" \in Feed!Steps /\ "read" \in Feed!Steps /\ {"arrive", "read"} \subseteq At("detail")
    BY DEF Feed!Steps, At, Feed!Taps
  <1>1. call[c].op = "detail" /\ call[c].at = "again" /\ ~Stored(c)  BY Places DEF Feed!DetailAgain
  <1>2. c # None  BY FeedConstants
  <1>3. CASE Feed!End(c)
    <2>1. call'[c] = Feed!Idle /\ \A x \in Calls \ {c} : call'[x] = call[x]
      BY <1>3 DEF Feed!End, FeedInv, FeedTypeInv
    <2>2. Fresh(c) /\ ~Attends(c)'  BY <2>1, <1>1, FreshEnd
    <2>3. Tied(api')
      BY CardsStay DEF Feed!DetailAgain
    <2> QED  BY <2>1, <2>2, <2>3, CardsStay, OneStep DEF Feed!DetailAgain, QuietSync, Feed!server
  <1>4. CASE ~Feed!End(c)
    <2>1. PICK at \in {"arrive", "read"}, card \in Feed!Cards \cup {None}, w \in Calls :
             /\ call' = [call EXCEPT ![c].at = at, ![c].card = card, ![c].wait = w]
                \/ call' = [call EXCEPT ![c].at = at, ![c].wait = w, ![c].card = card]
             /\ Tied(card)
      <3>1. rss \in Feed!Cards \cup {None} /\ Tied(rss) /\ api' \in Feed!Cards \cup {None} /\ Tied(api')
        BY CardTypes, CardsStay DEF Feed!DetailAgain, FeedInv, FeedTypeInv
      <3> QED  BY <1>4, <3>1 DEF Feed!DetailAgain
    <2>2. Moved(c, at, card, w) /\ \A x \in Calls \ {c} : call'[x] = call[x]
      BY <2>1 DEF Moved, FeedInv, FeedTypeInv, CallRecords
    <2>3. at \in Feed!Steps /\ at \in At(call[c].op) /\ at \notin {"sync", "answer", "commit"} /\ w # None
      BY <2>1, <1>0, <1>1, FeedConstants
    <2>4. Fresh(c) /\ ~Attends(c)'
      BY <2>1, <2>2, <2>3, <1>1, FreshMove
    <2>5. Tied(api')  BY CardsStay DEF Feed!DetailAgain
    <2> QED  BY <2>2, <2>4, <2>5, CardsStay, OneStep DEF Feed!DetailAgain, QuietSync, Feed!server
  <1> QED  BY <1>3, <1>4

LEMMA DetailReadKept ==
    ASSUME Feed!EventFeedAssumption, FeedInv, Feed!Next, NEW c \in Calls, Feed!DetailRead(c)
    PROVE  FeedInv'
  <1>1. \A x \in Calls : Weaker(call[x], call'[x])
    BY DEF Feed!DetailRead, Weaker
  <1>2. Tied(rss')  BY Places DEF Feed!DetailRead
  <1> QED  BY <1>1, <1>2, CardsStay, QuietStep DEF QuietCalls, Feed!DetailRead, QuietSync,
         Feed!server

LEMMA DetailArriveKept ==
    ASSUME Feed!EventFeedAssumption, FeedInv, Feed!Next, NEW c \in Calls, Feed!DetailArrive(c)
    PROVE  FeedInv'
  <1>1. call[c].at = "arrive" /\ ~Stored(c)  BY Places DEF Feed!DetailArrive
  <1>2. call'[c] = Feed!Idle /\ \A x \in Calls \ {c} : call'[x] = call[x]
    BY DEF Feed!DetailArrive, Feed!End, FeedInv, FeedTypeInv
  <1>3. Fresh(c) /\ ~Attends(c)'  BY <1>1, <1>2, FreshEnd
  <1>4. CASE call[c].live
    <2>1. detail'.card = call[c].card /\ detail'.sure = (call[c].wait = None)
      BY <1>4 DEF Feed!DetailArrive, FeedInv, FeedTypeInv
    <2>2. Tied(detail'.card) /\ viewer # None  BY <1>4, <2>1, Places DEF FeedInv, ViewerInv
    <2>3. ~lost /\ detail'.card # None /\ detail'.sure => Current(detail'.card.joined)
      BY <1>4, <1>1, <2>1 DEF Feed!DetailArrive, FeedInv, JoinedInv
    <2> QED  BY <1>2, <1>3, <2>2, <2>3, CardsStay, OneStep DEF Feed!DetailArrive, QuietSync,
           Feed!server, Feed!cache
  <1>5. CASE ~call[c].live
    BY <1>2, <1>3, <1>5, CardsStay, OneStep DEF Feed!DetailArrive, QuietSync, Feed!server,
           Feed!cache
  <1> QED  BY <1>4, <1>5

LEMMA AbortKept ==
    ASSUME Feed!EventFeedAssumption, FeedInv, Feed!Next, NEW c \in Calls, Feed!Abort(c)
    PROVE  FeedInv'
  <1>1. call[c].at # "sync" /\ ~Stored(c)  BY Places DEF Feed!Abort
  <1>2. call'[c] = Feed!Idle /\ \A x \in Calls \ {c} : Weaker(call[x], call'[x])
    BY DEF Feed!Abort, Weaker
  <1>3. Fresh(c) /\ ~Attends(c)'  BY <1>1, <1>2, FreshEnd
  <1>4. QuietCalls /\ \A x \in Calls : Attends(x)' => Weaker(call[x], call'[x])
    BY <1>2, <1>3, OneCall
  <1> QED  BY <1>4, CardsStay, QuietStep DEF Feed!Abort, QuietSync, Feed!server, Feed!cache

LEMMA AnswerFeedKept ==
    ASSUME Feed!EventFeedAssumption, FeedInv, Feed!Next, NEW c \in Calls, Feed!AnswerFeed(c)
    PROVE  FeedInv'
  <1>1. call[c].at = "answer" /\ ~Stored(c)  BY DEF Feed!AnswerFeed, Stored, Attends, Feed!Attendance
  <1>2. call'[c] = Feed!Idle /\ \A x \in Calls \ {c} : call'[x] = call[x]
    BY DEF Feed!AnswerFeed, Feed!End, FeedInv, FeedTypeInv
  <1>3. Fresh(c) /\ ~Attends(c)'  BY <1>1, <1>2, FreshEnd
  <1>4. Tied(feed')  BY Places, CardsStay DEF Feed!AnswerFeed
  <1> QED  BY <1>2, <1>3, <1>4, CardsStay, OneStep DEF Feed!AnswerFeed, QuietSync, Feed!server,
         Feed!cache

LEMMA CloseDetailKept ==
    ASSUME Feed!EventFeedAssumption, FeedInv, Feed!Next, Feed!CloseDetail
    PROVE  FeedInv'
  <1>1. \A x \in Calls : Weaker(call[x], call'[x])  BY DEF Feed!CloseDetail, Weaker
  <1>2. detail'.card = detail.card /\ detail'.sure = detail.sure /\ ~detail'.open
    BY DEF Feed!CloseDetail, FeedInv, FeedTypeInv
  <1> QED  BY <1>1, <1>2, CardsStay, QuietStep DEF QuietCalls, Feed!CloseDetail, QuietSync,
         Feed!server, Feed!cache

\* Resolving begins or goes on with a call that nobody waits for.
LEMMA ResolveQuiet ==
    ASSUME Feed!EventFeedAssumption, FeedInv, NEW c \in Calls, NEW calls \in [Calls -> CallRecords],
           \A x \in Calls \ {c} : Weaker(call[x], calls[x]),
           ~Stored(c), call[c].at # "sync",
           NEW step, (step = "db" /\ calls[c].op = "detail") \/ (step = "commit" /\ calls[c].op \in Feed!Taps),
           Tied(calls[c].card), Tied(calls[c].prev), calls[c].by \in Users,
           calls[c].live => viewer # None /\ calls[c].by = viewer,
           NEW card, card.of # None => linked,
           Feed!Resolve(c, calls, card, step)
    PROVE  /\ Fresh(c) /\ \A x \in Calls \ {c} : Weaker(call[x], call'[x])
           /\ QuietSync
           /\ call'[c].op = calls[c].op /\ call'[c].alone = calls[c].alone
           /\ \A x \in Calls \ {c} : call'[x] = calls[x]
  <1> DEFINE r == calls[c]
  <1>0. r \in CallRecords  OBVIOUS
  <1>1. "sync" \in At(r.op) /\ step \in At(r.op)  BY DEF At, Feed!Taps
  <1>2. CASE (card.of # None \/ sync = "done") /\ call' = [calls EXCEPT ![c].at = step] /\ UNCHANGED sync
    <2>1. /\ call'[c].at = step /\ call'[c].op = r.op /\ call'[c].card = r.card /\ call'[c].prev = r.prev
          /\ call'[c].by = r.by /\ call'[c].live = r.live /\ call'[c].alone = r.alone
          /\ \A x \in Calls \ {c} : call'[x] = calls[x]
      BY <1>0, <1>2 DEF CallRecords
    <2>2. linked  BY <1>2 DEF FeedInv, LinkInv
    <2>3. Fresh(c)
      BY <2>1, <2>2, <1>1 DEF Fresh, Opens, Feed!Taps
    <2> QED  BY <1>2, <2>1, <2>3 DEF QuietSync
  <1>3. CASE sync = None /\ call' = [calls EXCEPT ![c].at = "sync", ![c].wait = c] /\ sync' = c
    <2>1. /\ call'[c].at = "sync" /\ call'[c].wait = c /\ call'[c].op = r.op /\ call'[c].card = r.card
          /\ call'[c].prev = r.prev /\ call'[c].by = r.by /\ call'[c].live = r.live
          /\ call'[c].alone = r.alone
          /\ \A x \in Calls \ {c} : call'[x] = calls[x]
      BY <1>0, <1>3 DEF CallRecords
    <2>2. Fresh(c)
      BY <2>1, <1>1 DEF Fresh, Opens, Feed!Taps
    <2> QED  BY <1>3, <2>1, <2>2 DEF QuietSync, Fresh
  <1>4. CASE sync \in Calls /\ call' = [calls EXCEPT ![c].at = "sync", ![c].wait = sync] /\ UNCHANGED sync
    <2>1. /\ call'[c].at = "sync" /\ call'[c].wait = sync /\ call'[c].op = r.op /\ call'[c].card = r.card
          /\ call'[c].prev = r.prev /\ call'[c].by = r.by /\ call'[c].live = r.live
          /\ call'[c].alone = r.alone
          /\ \A x \in Calls \ {c} : call'[x] = calls[x]
      BY <1>0, <1>4 DEF CallRecords
    <2>2. Fresh(c)
      BY <1>4, <2>1, <1>1 DEF Fresh, Opens, Feed!Taps
    <2> QED  BY <1>4, <2>1, <2>2 DEF QuietSync
  <1> QED  BY <1>2, <1>3, <1>4 DEF Feed!Resolve

\* A fetch of the detail that has its source.
LEMMA DetailResolved ==
    ASSUME Feed!EventFeedAssumption, FeedInv, Feed!Next, NEW c \in Calls, call[c].op = "detail", call[c].at \in {"source", "find"},
           NEW card, card.of # None => linked, Feed!Resolve(c, call, card, "db"),
           Tied(api'), Tied(rss'), UNCHANGED <<viewer, truth, linked, reading, feed, detail, lost>>
    PROVE  FeedInv'
  <1>1. /\ ~Stored(c) /\ call[c].at # "sync" /\ call[c].by \in Users
        /\ Tied(call[c].card) /\ Tied(call[c].prev)
    BY Places
  <1>2. call[c].live => viewer # None /\ call[c].by = viewer  BY DEF FeedInv, ViewerInv
  <1>3. /\ Fresh(c) /\ \A x \in Calls \ {c} : Weaker(call[x], call'[x])
        /\ QuietSync
        /\ call'[c].op = call[c].op
    BY <1>1, <1>2, ResolveQuiet DEF Weaker, FeedInv, FeedTypeInv
  <1>4. ~Attends(c)'  BY <1>3 DEF Attends, Feed!Attendance
  <1>5. QuietCalls /\ \A x \in Calls : Attends(x)' => Weaker(call[x], call'[x])
    BY <1>3, <1>4, OneCall
  <1> QED  BY <1>3, <1>5, CardsStay, QuietStep

LEMMA DetailSourceKept ==
    ASSUME Feed!EventFeedAssumption, FeedInv, Feed!Next, NEW c \in Calls, Feed!DetailSource(c)
    PROVE  FeedInv'
  <1>0. "find" \in Feed!Steps /\ "find" \in At("detail")  BY DEF Feed!Steps, At, Feed!Taps
  <1>1. call[c].op = "detail" /\ call[c].at = "source" /\ ~Stored(c)  BY Places DEF Feed!DetailSource
  <1>2. UNCHANGED <<viewer, truth, linked, rss, reading, feed, detail, lost>>  BY DEF Feed!DetailSource, Feed!server
  <1>3. CASE api # None /\ api.of # None /\ Feed!Resolve(c, call, api, "db") /\ UNCHANGED api
    <2>1. api.of # None => linked  BY <1>3, CardsStay DEF Tied
    <2>2. Tied(api') /\ Tied(rss')  BY <1>2, <1>3, CardsStay
    <2> QED  BY <1>1, <1>2, <1>3, <2>1, <2>2, DetailResolved
  <1>4. CASE api' = Feed!Raw /\ Feed!Resolve(c, call, Feed!Raw, "db")
    <2>1. Feed!Raw.of # None => linked  BY DEF Feed!Raw
    <2>2. Tied(api') /\ Tied(rss')  BY <1>2, <1>4, CardsStay
    <2> QED  BY <1>1, <1>2, <1>4, <2>1, <2>2, DetailResolved
  <1>5. CASE Feed!Goto(c, "find") /\ UNCHANGED <<api, sync>>
    <2>1. Moved(c, "find", call[c].card, call[c].wait) /\ \A x \in Calls \ {c} : call'[x] = call[x]
      BY <1>5 DEF Feed!Goto, Moved, FeedInv, FeedTypeInv, CallRecords
    <2>2. Fresh(c) /\ ~Attends(c)'  BY <2>1, <1>0, <1>1, FreshMove, Places
    <2> QED  BY <1>2, <1>5, <2>1, <2>2, CardsStay, OneStep DEF QuietSync
  <1>6. CASE Feed!End(c) /\ UNCHANGED <<api, sync>>
    <2>1. call'[c] = Feed!Idle /\ \A x \in Calls \ {c} : call'[x] = call[x]
      BY <1>6 DEF Feed!End, FeedInv, FeedTypeInv
    <2>2. Fresh(c) /\ ~Attends(c)'  BY <2>1, <1>1, FreshEnd
    <2> QED  BY <1>2, <1>6, <2>1, <2>2, CardsStay, OneStep DEF QuietSync
  <1> QED  BY <1>3, <1>4, <1>5, <1>6 DEF Feed!DetailSource

LEMMA DetailFindKept ==
    ASSUME Feed!EventFeedAssumption, FeedInv, Feed!Next, NEW c \in Calls, Feed!DetailFind(c)
    PROVE  FeedInv'
  <1>1. call[c].op = "detail" /\ call[c].at = "find" /\ ~Stored(c)  BY Places DEF Feed!DetailFind
  <1>2. UNCHANGED <<viewer, truth, linked, api, reading, feed, detail, lost>>  BY DEF Feed!DetailFind, Feed!server
  <1>3. CASE rss # None /\ Feed!Resolve(c, call, rss, "db") /\ UNCHANGED rss
    <2>1. rss.of # None => linked  BY <1>3, CardsStay DEF Tied
    <2>2. Tied(api') /\ Tied(rss')  BY <1>2, <1>3, CardsStay
    <2> QED  BY <1>1, <1>2, <1>3, <2>1, <2>2, DetailResolved
  <1>4. CASE rss' = Feed!Raw /\ Feed!Resolve(c, call, Feed!Raw, "db")
    <2>1. Feed!Raw.of # None => linked  BY DEF Feed!Raw
    <2>2. Tied(api') /\ Tied(rss')  BY <1>2, <1>4, CardsStay
    <2> QED  BY <1>1, <1>2, <1>4, <2>1, <2>2, DetailResolved
  <1>5. CASE Feed!End(c) /\ UNCHANGED <<rss, sync>>
    <2>1. call'[c] = Feed!Idle /\ \A x \in Calls \ {c} : call'[x] = call[x]
      BY <1>5 DEF Feed!End, FeedInv, FeedTypeInv
    <2>2. Fresh(c) /\ ~Attends(c)'  BY <2>1, <1>1, FreshEnd
    <2> QED  BY <1>2, <1>5, <2>1, <2>2, CardsStay, OneStep DEF QuietSync
  <1> QED  BY <1>3, <1>4, <1>5 DEF Feed!DetailFind

LEMMA TapFeedKept ==
    ASSUME Feed!EventFeedAssumption, FeedInv, Feed!Next, NEW c \in Calls, Feed!TapFeed(c)
    PROVE  FeedInv'
  <1> DEFINE tap == IF feed.saved THEN "unmark" ELSE "mark"
             r  == [Feed!Idle EXCEPT !.op = tap, !.by = viewer, !.card = feed, !.prev = feed]
             calls == [Feed!Cancelled("feed") EXCEPT ![c] = r]
  <1>0. tap \in Feed!Taps \ Feed!Attendance  BY DEF Feed!Taps, Feed!Attendance
  <1>1. call[c] = Feed!Idle /\ feed # None /\ viewer # None /\ Feed!Resolve(c, calls, feed, "commit")
        /\ feed' = Feed!Updated(feed, tap)
        /\ UNCHANGED <<viewer, truth, linked, api, rss, detail, lost>>
    BY DEF Feed!TapFeed, Feed!server, Feed!cache
  <1>2. /\ r.op = tap /\ r.by = viewer /\ r.card = feed /\ r.prev = feed /\ ~r.live
        /\ r \in CallRecords
    BY <1>0 DEF Feed!Idle, CallRecords, Feed!Steps, FeedInv, FeedTypeInv
  <1>3. viewer \in Users /\ feed \in Feed!Cards  BY <1>1 DEF FeedInv, FeedTypeInv
  <1>4. ~Stored(c) /\ call[c].at # "sync"  BY <1>1, IdleType, Places
  <1>5. Feed!Cancelled("feed") \in [Calls -> CallRecords]  BY CancelledTypes DEF FeedInv
  <1>6. /\ calls \in [Calls -> CallRecords] /\ calls[c] = r
        /\ \A x \in Calls \ {c} : calls[x] = Feed!Cancelled("feed")[x]
    BY <1>2, <1>5
  <1>7. \A x \in Calls \ {c} : Weaker(call[x], calls[x])  BY <1>6, CancelledWeaker
  <1>8. feed.of # None => linked  BY <1>1, CardsStay DEF Tied
  <1>9. Tied(feed')
    <2>1. feed' # None => Feed!Updated(feed, tap).of = feed.of
      BY <1>0, <1>1, <1>3, UpdatedFields DEF FeedInv
    <2> QED  BY <2>1, <1>1, <1>8 DEF Tied
  <1>10. Tied(r.card) /\ Tied(r.prev)  BY <1>2, CardsStay
  <1> HIDE DEF tap, r, calls
  <1>11. /\ Fresh(c) /\ \A x \in Calls \ {c} : Weaker(call[x], call'[x])
         /\ QuietSync
         /\ call'[c].op = calls[c].op
    BY <1>0, <1>1, <1>2, <1>3, <1>4, <1>6, <1>7, <1>8, <1>10, ResolveQuiet
  <1>12. ~Attends(c)'  BY <1>0, <1>2, <1>6, <1>11 DEF Attends
  <1>13. QuietCalls /\ \A x \in Calls : Attends(x)' => Weaker(call[x], call'[x])
    BY <1>11, <1>12, OneCall
  <1> QED  BY <1>1, <1>9, <1>11, <1>13, CardsStay, QuietStep

LEMMA TapDetailKept ==
    ASSUME Feed!EventFeedAssumption, FeedInv, Feed!Next, NEW c \in Calls, NEW tap \in Feed!Taps, Feed!TapDetail(c, tap)
    PROVE  FeedInv'
  <1> DEFINE r  == [Feed!Idle EXCEPT !.op = tap, !.by = viewer, !.card = detail.card,
                                     !.live = TRUE, !.alone = ~Feed!Pending(Feed!Attendance)]
             calls == [Feed!Beside(tap) EXCEPT ![c] = r]
  <1>1. call[c] = Feed!Idle /\ detail.card # None /\ viewer # None /\ Feed!Resolve(c, calls, detail.card, "commit")
        /\ UNCHANGED <<viewer, truth, linked, api, rss, feed, detail, lost>>
    BY DEF Feed!TapDetail, Feed!server, Feed!cache
  <1>2. /\ r.op = tap /\ r.by = viewer /\ r.card = detail.card /\ r.prev = None
        /\ r.alone = ~Feed!Pending(Feed!Attendance) /\ r \in CallRecords
    BY DEF Feed!Idle, CallRecords, Feed!Steps, FeedInv, FeedTypeInv, Feed!Pending
  <1>3. viewer \in Users /\ detail.card \in Feed!Cards  BY <1>1 DEF FeedInv, FeedTypeInv
  <1>4. ~Stored(c) /\ call[c].at # "sync"  BY <1>1, IdleType, Places
  <1>5. Feed!Beside(tap) \in [Calls -> CallRecords]  BY BesideTypes DEF FeedInv
  <1>6. /\ calls \in [Calls -> CallRecords] /\ calls[c] = r
        /\ \A x \in Calls \ {c} : calls[x] = Feed!Beside(tap)[x]
    BY <1>2, <1>5
  <1>7. \A x \in Calls \ {c} : Weaker(call[x], calls[x])
    <2>1. \A x \in Calls : call[x].op \in Feed!Attendance => call[x].op # "none"  BY DEF Feed!Attendance
    <2> QED  BY <1>6, <2>1 DEF Feed!Beside, Weaker
  <1>8. detail.card.of # None => linked  BY <1>1, CardsStay DEF Tied
  <1>9. Tied(r.card) /\ Tied(r.prev)  BY <1>2, CardsStay
  <1>10. ASSUME tap \in Feed!Attendance, NEW x \in Calls \ {c}, call[x].op \in Feed!Attendance
         PROVE  ~calls[x].alone /\ ~r.alone
    <2>1. calls[x] = [call[x] EXCEPT !.alone = FALSE]  BY <1>6, <1>10 DEF Feed!Beside
    <2>2. call[x] \in CallRecords  BY DEF FeedInv, FeedTypeInv
    <2>3. Feed!Pending(Feed!Attendance)  BY <1>10 DEF Feed!Pending
    <2>4. ~calls[x].alone  BY <2>1, <2>2 DEF CallRecords
    <2>5. r.alone = ~Feed!Pending(Feed!Attendance)  BY <1>2
    <2> QED  BY <2>3, <2>4, <2>5
  <1>11. ASSUME NEW x \in Calls \ {c}  PROVE calls[x].op = call[x].op
    <2>1. call[x] \in CallRecords  BY DEF FeedInv, FeedTypeInv
    <2>2. calls[x] \in {call[x], [call[x] EXCEPT !.alone = FALSE]}  BY <1>6 DEF Feed!Beside
    <2>3. [call[x] EXCEPT !.alone = FALSE].op = call[x].op  BY <2>1 DEF CallRecords
    <2> QED  BY <2>2, <2>3
  <1> HIDE DEF r, calls
  <1>12. /\ Fresh(c) /\ \A x \in Calls \ {c} : Weaker(call[x], call'[x])
         /\ QuietSync
         /\ call'[c].op = calls[c].op /\ call'[c].alone = calls[c].alone
         /\ \A x \in Calls \ {c} : call'[x] = calls[x]
    BY <1>1, <1>2, <1>3, <1>4, <1>6, <1>7, <1>8, <1>9, ResolveQuiet
  <1>13. QuietCalls  BY <1>12 DEF QuietCalls
  <1>14. CASE tap \in Feed!Attendance
    <2>1. ASSUME NEW x \in Calls, NEW y \in Calls, x # y, Attends(x)', Attends(y)'  PROVE ~call'[x].alone
      <3>1. CASE x = c
        <4>1. call[y].op \in Feed!Attendance  BY <2>1, <3>1, <1>11, <1>12 DEF Attends
        <4> QED  BY <4>1, <2>1, <3>1, <1>10, <1>12, <1>14, <1>6
      <3>2. CASE x # c
        <4>1. call[x].op \in Feed!Attendance  BY <2>1, <3>2, <1>11, <1>12 DEF Attends
        <4> QED  BY <4>1, <3>2, <1>10, <1>12, <1>14
      <3> QED  BY <3>1, <3>2
    <2> QED  BY <1>1, <1>12, <1>13, <2>1, CardsStay, QuietStep
  <1>15. CASE tap \notin Feed!Attendance
    <2>1. ~Attends(c)'  BY <1>15, <1>2, <1>6, <1>12 DEF Attends
    <2>2. \A x \in Calls : Attends(x)' => Weaker(call[x], call'[x])  BY <1>12, <2>1
    <2> QED  BY <1>1, <1>12, <1>13, <2>2, CardsStay, QuietStep
  <1> QED  BY <1>14, <1>15

-----------------------------------------------------------------------------
(* The steps that change what is stored, or who looks *)

\* sync-event lets the waiting calls go on.
LEMMA ResolvedFields ==
    ASSUME FeedInv, NEW x \in Calls, call[x].at = "sync"
    PROVE  /\ Feed!Resolved(x).op = call[x].op /\ Feed!Resolved(x).by = call[x].by
           /\ Feed!Resolved(x).card = call[x].card
           /\ Feed!Resolved(x).prev = call[x].prev /\ Feed!Resolved(x).live = call[x].live
           /\ Feed!Resolved(x).alone = call[x].alone
           /\ Feed!Resolved(x).at \in {"db", "commit"} /\ Feed!Resolved(x).at \in At(call[x].op)
  <1>1. call[x] \in CallRecords /\ call[x].at \in At(call[x].op)  BY DEF FeedInv, FeedTypeInv, CallsInv
  <1>2. /\ Feed!Resolved(x).op = call[x].op /\ Feed!Resolved(x).by = call[x].by
        /\ Feed!Resolved(x).card = call[x].card
        /\ Feed!Resolved(x).prev = call[x].prev /\ Feed!Resolved(x).live = call[x].live
        /\ Feed!Resolved(x).alone = call[x].alone
        /\ Feed!Resolved(x).at = IF call[x].op = "detail" THEN "db" ELSE "commit"
    BY <1>1 DEF Feed!Resolved, CallRecords
  <1>3. call[x].op \in Feed!Taps \cup {"detail"}
    <2>1. call[x].op \in Feed!Taps \cup {"none", "feed", "detail"}  BY <1>1 DEF CallRecords
    <2>2. "sync" \notin At("feed") /\ "sync" \notin At("none")  BY DEF At, Feed!Taps
    <2> QED  BY <1>1, <2>1, <2>2
  <1>4. "db" \in At("detail") /\ \A tap \in Feed!Taps : "commit" \in At(tap)  BY DEF At, Feed!Taps
  <1> QED  BY <1>2, <1>3, <1>4

\* Or fails.
Refusal(x) == IF call[x].op = "detail" /\ ~call[x].live THEN Feed!Idle ELSE [Feed!Unresolved(x) EXCEPT !.card = None]

LEMMA RefusalFields ==
    ASSUME FeedInv, NEW x \in Calls, call[x].at = "sync"
    PROVE  \/ Refusal(x) = Feed!Idle
           \/ /\ Refusal(x).op = call[x].op /\ Refusal(x).by = call[x].by /\ Refusal(x).card = None
              /\ Refusal(x).prev = call[x].prev /\ Refusal(x).live = call[x].live
              /\ Refusal(x).alone = call[x].alone
              /\ Refusal(x).at \in {"again", "answer"} /\ Refusal(x).at \in At(call[x].op)
  <1>1. call[x] \in CallRecords /\ call[x].at \in At(call[x].op)  BY DEF FeedInv, FeedTypeInv, CallsInv
  <1>2. CASE call[x].op = "detail" /\ ~call[x].live  BY <1>2 DEF Refusal
  <1>3. CASE ~(call[x].op = "detail" /\ ~call[x].live)
    <2>1. Refusal(x) = [Feed!Unresolved(x) EXCEPT !.card = None]  BY <1>3 DEF Refusal
    <2>2. Feed!Unresolved(x) \in CallRecords
      <3>1. "again" \in Feed!Steps /\ "answer" \in Feed!Steps  BY DEF Feed!Steps
      <3>2. \A at \in Feed!Steps : [call[x] EXCEPT !.at = at, !.wait = None] \in CallRecords
        BY <1>1, CallFields
      <3> QED  BY <3>1, <3>2 DEF Feed!Unresolved
    <2>3. /\ Feed!Unresolved(x).op = call[x].op /\ Feed!Unresolved(x).by = call[x].by
          /\ Feed!Unresolved(x).prev = call[x].prev /\ Feed!Unresolved(x).live = call[x].live
          /\ Feed!Unresolved(x).alone = call[x].alone
          /\ Feed!Unresolved(x).at = IF call[x].op = "detail" THEN "again" ELSE "answer"
      BY <1>1, <1>3 DEF Feed!Unresolved, CallRecords
    <2>4. /\ Refusal(x).op = call[x].op /\ Refusal(x).by = call[x].by /\ Refusal(x).card = None
          /\ Refusal(x).prev = call[x].prev /\ Refusal(x).live = call[x].live
          /\ Refusal(x).alone = call[x].alone
          /\ Refusal(x).at = IF call[x].op = "detail" THEN "again" ELSE "answer"
      BY <2>1, <2>2, <2>3 DEF CallRecords
    <2>5. call[x].op \in Feed!Taps \cup {"detail"}
      <3>1. call[x].op \in Feed!Taps \cup {"none", "feed", "detail"}  BY <1>1 DEF CallRecords
      <3>2. "sync" \notin At("feed") /\ "sync" \notin At("none")  BY DEF At, Feed!Taps
      <3> QED  BY <1>1, <3>1, <3>2
    <2>6. "again" \in At("detail") /\ \A tap \in Feed!Taps : "answer" \in At(tap)  BY DEF At, Feed!Taps
    <2> QED  BY <2>4, <2>5, <2>6
  <1> QED  BY <1>2, <1>3

LEMMA SyncAnswerKept ==
    ASSUME Feed!EventFeedAssumption, FeedInv, Feed!Next, NEW p \in Calls, Feed!SyncAnswer(p)
    PROVE  FeedInv'
  <1> DEFINE waiting == {x \in Calls : call[x].at = "sync" /\ call[x].wait = p}
  <1>0. FeedTypeInv'  BY FeedTypesKept DEF FeedInv
  <1>1. UNCHANGED <<viewer, truth, api, rss, feed, detail, lost>>  BY DEF Feed!SyncAnswer, Feed!cache
  <1>2. /\ \/ /\ linked' = TRUE /\ sync' = IF sync = p THEN "done" ELSE sync
              /\ \A x \in waiting : call'[x] = Feed!Resolved(x)
           \/ /\ linked' = linked /\ sync' = None
              /\ \A x \in waiting : call'[x] = Refusal(x)
        /\ \A x \in Calls \ waiting : call'[x] = call[x]
    BY DEF Feed!SyncAnswer, Refusal
  <1>3. ASSUME NEW x \in Calls
        PROVE  \/ call'[x] = call[x] /\ x \notin waiting
               \/ call'[x] = Feed!Idle /\ x \in waiting
               \/ /\ x \in waiting
                  /\ call'[x].op = call[x].op /\ call'[x].by = call[x].by
                  /\ call'[x].prev = call[x].prev /\ call'[x].live = call[x].live
                  /\ call'[x].alone = call[x].alone
                  /\ call'[x].at \in {"db", "commit", "again", "answer"} /\ call'[x].at \in At(call[x].op)
                  /\ call'[x].card \in {call[x].card, None}
                  /\ call'[x].at = "commit" => linked'
                  /\ call'[x].at = "answer" => call'[x].card = None
    BY <1>2, ResolvedFields, RefusalFields
  <1>4. linked => linked'  BY <1>2
  <1>i. Feed!Idle.op = "none" /\ Feed!Idle.at = "idle" /\ Feed!Idle.card = None /\ Feed!Idle.prev = None /\ ~Feed!Idle.live
    BY IdleType
  <1>5. CallsInv'
    <2>1. ASSUME NEW x \in Calls
          PROVE  /\ call'[x].at \in At(call'[x].op)
                 /\ call'[x].op = "none" => call'[x] = Feed!Idle
                 /\ call'[x].at = "read" => call'[x].wait \in Calls
      <3>1. CASE call'[x] = call[x]  BY <3>1 DEF FeedInv, CallsInv
      <3>2. CASE call'[x] = Feed!Idle
        <4>1. "idle" \in At("none")  BY DEF At, Feed!Taps
        <4> QED  BY <3>2, <4>1, <1>i
      <3>3. CASE x \in waiting /\ call'[x].op = call[x].op /\ call'[x].at \in At(call[x].op)
                   /\ call'[x].at \in {"db", "commit", "again", "answer"}
        BY <3>3, Places
      <3> QED  BY <1>3, <3>1, <3>2, <3>3
    <2>2. ASSUME NEW x \in Calls, call'[x].at = "sync"
          PROVE  /\ call'[x].wait \in Calls
                 /\ call'[call'[x].wait].at = "sync"
                 /\ call'[call'[x].wait].wait = call'[x].wait
      <3>1. call'[x] = call[x] /\ x \notin waiting  BY <1>3, <1>i, <2>2
      <3>2. call[x].wait \in Calls /\ call[call[x].wait].at = "sync"
            /\ call[call[x].wait].wait = call[x].wait
        BY <3>1, <2>2 DEF FeedInv, CallsInv
      <3>3. call[x].wait \notin waiting  BY <3>1, <3>2, <2>2
      <3> QED  BY <3>1, <3>2, <3>3, <1>2
    <2> QED  BY <2>1, <2>2 DEF CallsInv
  <1>6. SyncInv'
    <2>1. CASE sync' \in {"done", None}  BY <2>1, FeedConstants DEF SyncInv
    <2>2. CASE sync' = sync /\ sync # p
      <3>1. sync \in Calls => sync \notin waiting  BY <2>2 DEF FeedInv, SyncInv
      <3> QED  BY <2>2, <3>1, <1>2 DEF FeedInv, SyncInv
    <2> QED  BY <1>2, <2>1, <2>2
  <1>7. LinkInv'
    <2>1. /\ \A u \in Users : truth'[u].joined => linked'
          /\ sync' = "done" => linked'
      BY <1>1, <1>2, FeedConstants DEF FeedInv, LinkInv
    <2>2. Tied(api)' /\ Tied(rss)' /\ Tied(feed)' /\ Tied(detail.card)'
      BY <1>1, <1>4 DEF Tied, FeedInv, LinkInv
    <2>3. ASSUME NEW x \in Calls
          PROVE  /\ Tied(call[x].card)' /\ Tied(call[x].prev)'
                 /\ call'[x].at = "commit" => linked'
                 /\ call'[x].at = "answer" /\ call'[x].card # None => linked'
      <3>1. Tied(call[x].card) /\ Tied(call[x].prev)  BY DEF FeedInv, LinkInv
      <3>2. CASE call'[x] = call[x]  BY <3>2, <1>4 DEF Tied, FeedInv, LinkInv
      <3>3. CASE call'[x] = Feed!Idle  BY <3>3, <1>i DEF Tied
      <3>4. CASE /\ call'[x].prev = call[x].prev /\ call'[x].card \in {call[x].card, None}
                 /\ call'[x].at = "commit" => linked'
                 /\ call'[x].at = "answer" => call'[x].card = None
        BY <3>1, <3>4, <1>4 DEF Tied
      <3> QED  BY <1>3, <3>2, <3>3, <3>4
    <2> QED  BY <2>1, <2>2, <2>3 DEF LinkInv
  <1>8. ViewerInv'
    <2>1. \A x \in Calls : /\ call'[x].live => viewer' # None /\ call'[x].by = viewer'
                           /\ call'[x].op # "none" => call'[x].by \in Users
      BY <1>1, <1>3, <1>i DEF FeedInv, ViewerInv
    <2> QED  BY <1>1, <2>1 DEF FeedInv, ViewerInv
  <1>9. ASSUME NEW x \in Calls
        PROVE  /\ Attends(x)' => Attends(x) /\ (call'[x].alone => call[x].alone)
               /\ Stored(x)' <=> Stored(x)
               /\ Stored(x) => call'[x] = call[x]
               /\ Done(x)' <=> Done(x)
               /\ call'[x].at = "arrive" => call'[x] = call[x]
    BY <1>1, <1>3, <1>i DEF Attends, Feed!Attendance, Stored, Done
  <1>10. AloneInv'
    <2>1. ASSUME NEW c \in Calls, NEW d \in Calls, c # d, Attends(c)', Attends(d)'  PROVE ~call'[c].alone
      BY <2>1, <1>9 DEF FeedInv, AloneInv
    <2>2. ASSUME NEW c \in Calls, Stored(c)', call'[c].alone
          PROVE  truth'[call'[c].by].joined = (call'[c].op = "join")
      BY <2>2, <1>1, <1>9 DEF FeedInv, AloneInv
    <2> QED  BY <2>1, <2>2 DEF AloneInv
  <1>11. JoinedInv'
    <2>1. ~lost' /\ detail'.card # None /\ detail'.sure => Current(detail.card.joined)'
      BY <1>1, <1>9 DEF FeedInv, JoinedInv, Current
    <2>2. ASSUME NEW x \in Calls, ~lost', call'[x].op = "detail", call'[x].live, call'[x].at = "arrive",
                 call'[x].wait = None, call'[x].card # None
          PROVE  Current(call[x].card.joined)'
      <3>1. call'[x] = call[x]  BY <1>9, <2>2
      <3>2. Current(call[x].card.joined)  BY <2>2, <3>1, <1>1 DEF FeedInv, JoinedInv
      <3> QED  BY <3>1, <3>2, <1>1, <1>9 DEF Current
    <2> QED  BY <2>1, <2>2 DEF JoinedInv
  <1> QED  BY <1>0, <1>5, <1>6, <1>7, <1>8, <1>10, <1>11 DEF FeedInv

LEMMA CommitKept ==
    ASSUME Feed!EventFeedAssumption, FeedInv, Feed!Next, NEW c \in Calls, Feed!Commit(c)
    PROVE  FeedInv'
  <1> DEFINE u == call[c].by
             tap == call[c].op
  <1>0. FeedTypeInv'  BY FeedTypesKept DEF FeedInv
  <1>1. UNCHANGED <<viewer, linked, api, rss, sync, feed, detail>>  BY DEF Feed!Commit, Feed!cache
  <1>2. call[c].at = "commit" /\ tap \in Feed!Taps /\ u \in Users /\ linked
    BY Places DEF Feed!Commit, FeedInv, LinkInv
  <1>3. /\ call'[c].at = "answer" /\ call'[c].card \in {call[c].card, None}
        /\ call'[c].op = tap /\ call'[c].by = u /\ call'[c].prev = call[c].prev
        /\ call'[c].live = call[c].live /\ call'[c].alone = call[c].alone
        /\ \A x \in Calls \ {c} : call'[x] = call[x]
    <2>1. call[c] \in CallRecords  BY DEF FeedInv, FeedTypeInv
    <2>2. CASE Feed!Goto(c, "answer")  BY <2>1, <2>2 DEF Feed!Goto, CallRecords, FeedInv, FeedTypeInv
    <2>3. CASE call' = [call EXCEPT ![c].at = "answer", ![c].card = None]
      BY <2>1, <2>3 DEF CallRecords, FeedInv, FeedTypeInv
    <2> QED  BY <2>2, <2>3 DEF Feed!Commit
  <1>4. /\ \A v \in Users \ {u} : truth'[v].joined = truth[v].joined
        /\ tap \notin Feed!Attendance => truth'[u].joined = truth[u].joined
        /\ tap \in Feed!Attendance => \/ truth'[u].joined = (tap = "join")
                                      \/ truth' = truth /\ call'[c].card = None
    <2>1. CASE truth' = truth /\ call' = [call EXCEPT ![c].at = "answer", ![c].card = None]
      BY <2>1 DEF FeedInv, FeedTypeInv, CallRecords
    <2>2. CASE truth' = CASE tap = "join"  -> [truth EXCEPT ![u].joined = TRUE]
                          [] tap = "leave" -> [truth EXCEPT ![u].joined = FALSE]
                          [] tap \in {"save", "mark"} -> [truth EXCEPT ![u].saved = TRUE]
                          [] OTHER                -> [truth EXCEPT ![u].saved = FALSE]
      <3>1. truth \in [Users -> [joined : BOOLEAN, saved : BOOLEAN]]  BY DEF FeedInv, FeedTypeInv
      <3>2. \A b \in BOOLEAN :
              /\ [truth EXCEPT ![u].joined = b][u].joined = b
              /\ [truth EXCEPT ![u].saved = b][u].joined = truth[u].joined
              /\ \A v \in Users \ {u} : /\ [truth EXCEPT ![u].joined = b][v] = truth[v]
                                        /\ [truth EXCEPT ![u].saved = b][v] = truth[v]
        BY <3>1, <1>2
      <3>3. CASE tap = "join"  BY <2>2, <3>2, <3>3 DEF Feed!Attendance
      <3>4. CASE tap = "leave"  BY <2>2, <3>2, <3>4 DEF Feed!Attendance
      <3>5. CASE tap \notin Feed!Attendance  BY <2>2, <3>2, <3>5 DEF Feed!Attendance
      <3> QED  BY <3>3, <3>4, <3>5 DEF Feed!Attendance
    <2> QED  BY <2>1, <2>2 DEF Feed!Commit
  <1>5. lost' = (lost \/ (call'[c].card = None /\ tap \in Feed!Attendance /\ truth' # truth))  BY DEF Feed!Commit
  <1> HIDE DEF u, tap
  <1>6. CallsInv'
    <2>1. "answer" \in At(tap)  BY <1>2 DEF At, Feed!Taps
    <2>2. tap # "none"  BY <1>2 DEF Feed!Taps
    <2>3. ASSUME NEW x \in Calls
          PROVE  /\ call'[x].at \in At(call'[x].op)
                 /\ call'[x].op = "none" => call'[x] = Feed!Idle
                 /\ call'[x].at = "read" => call'[x].wait \in Calls
      BY <1>3, <2>1, <2>2 DEF FeedInv, CallsInv
    <2>4. ASSUME NEW x \in Calls, call'[x].at = "sync"
          PROVE  /\ call'[x].wait \in Calls
                 /\ call'[call'[x].wait].at = "sync"
                 /\ call'[call'[x].wait].wait = call'[x].wait
      <3>1. x # c /\ call'[x] = call[x]  BY <2>4, <1>3
      <3>2. call[x].wait \in Calls /\ call[call[x].wait].at = "sync"
            /\ call[call[x].wait].wait = call[x].wait
        BY <2>4, <3>1 DEF FeedInv, CallsInv
      <3>3. call[x].wait # c  BY <3>2, <1>2
      <3> QED  BY <3>1, <3>2, <3>3, <1>3
    <2> QED  BY <2>3, <2>4 DEF CallsInv
  <1>7. SyncInv'
    <2>1. sync \in Calls => sync # c  BY <1>2 DEF FeedInv, SyncInv
    <2> QED  BY <2>1, <1>1, <1>3 DEF FeedInv, SyncInv
  <1>8. LinkInv'
    <2>1. linked'  BY <1>1, <1>2
    <2> QED  BY <2>1 DEF LinkInv, Tied
  <1>9. ViewerInv'
    <2>1. \A x \in Calls : /\ call'[x].live => viewer' # None /\ call'[x].by = viewer'
                           /\ call'[x].op # "none" => call'[x].by \in Users
      BY <1>1, <1>2, <1>3 DEF FeedInv, ViewerInv, u
    <2> QED  BY <1>1, <2>1 DEF FeedInv, ViewerInv
  <1>10. ASSUME NEW x \in Calls \ {c}
         PROVE  /\ Attends(x)' <=> Attends(x)
                /\ Stored(x)' <=> Stored(x)
                /\ Done(x)' <=> Done(x)
    BY <1>1, <1>3 DEF Attends, Feed!Attendance, Stored, Done
  <1>11. (Attends(c)' <=> Attends(c)) /\ (Attends(c) <=> tap \in Feed!Attendance)  BY <1>3 DEF Attends, tap
  <1>12. AloneInv'
    <2>1. ASSUME NEW x \in Calls, NEW y \in Calls, x # y, Attends(x)', Attends(y)'  PROVE ~call'[x].alone
      <3>1. Attends(x) /\ Attends(y)  BY <2>1, <1>10, <1>11
      <3>2. ~call[x].alone  BY <2>1, <3>1 DEF FeedInv, AloneInv
      <3> QED  BY <3>2, <1>3
    <2>2. ASSUME NEW x \in Calls, Stored(x)', call'[x].alone
          PROVE  truth'[call'[x].by].joined = (call'[x].op = "join")
      <3>1. CASE x = c
        <4>1. tap \in Feed!Attendance /\ call'[c].card # None  BY <2>2, <3>1, <1>3 DEF Stored, Attends
        <4> QED  BY <3>1, <4>1, <1>3, <1>4
      <3>2. CASE x # c
        <4>1. Stored(x) /\ call'[x] = call[x] /\ call[x].alone  BY <2>2, <3>2, <1>3, <1>10
        <4>2. truth[call[x].by].joined = (call[x].op = "join")  BY <4>1 DEF FeedInv, AloneInv
        <4>3. ~Attends(c)  BY <3>2, <4>1 DEF FeedInv, AloneInv, Stored
        <4>4. call[x].by \in Users
          BY <4>1 DEF Stored, Attends, Feed!Attendance, FeedInv, ViewerInv
        <4>5. truth'[call[x].by].joined = truth[call[x].by].joined  BY <4>3, <4>4, <1>4, <1>11
        <4> QED  BY <4>1, <4>2, <4>5
      <3> QED  BY <3>1, <3>2
    <2> QED  BY <2>1, <2>2 DEF AloneInv
  <1>13. ASSUME NEW j, viewer # None, ~lost', Current(j)  PROVE Current(j)'
    <2>1. viewer \in Users  BY <1>13 DEF FeedInv, FeedTypeInv
    <2>2. ~Done(c)  BY <1>2 DEF Done, Stored
    <2>3. CASE \E x \in Calls : Done(x)
      <3>1. PICK x \in Calls \ {c} : Done(x)  BY <2>2, <2>3
      <3> QED  BY <3>1, <1>10 DEF Current
    <2>4. CASE j = truth[viewer].joined /\ truth'[viewer].joined = truth[viewer].joined
      BY <2>4, <1>1 DEF Current
    <2>5. CASE truth'[viewer].joined # truth[viewer].joined
      <3>1. viewer = u /\ tap \in Feed!Attendance  BY <2>1, <2>5, <1>4
      <3>2. truth' # truth  BY <2>5
      <3>3. call'[c].card # None  BY <1>5, <1>13, <3>1, <3>2
      <3>4. Done(c)'  BY <3>1, <3>3, <1>1, <1>3 DEF Done, Stored, Attends
      <3> QED  BY <3>4 DEF Current
    <2> QED  BY <1>13, <2>3, <2>4, <2>5 DEF Current
  <1>14. JoinedInv'
    <2>0. ~lost' => ~lost  BY <1>5
    <2>1. ASSUME ~lost', detail'.card # None, detail'.sure  PROVE Current(detail.card.joined)'
      <3>1. viewer # None /\ Current(detail.card.joined)
        BY <1>1, <2>0, <2>1 DEF FeedInv, JoinedInv, ViewerInv
      <3>2. PICK j : j = detail.card.joined  OBVIOUS
      <3>3. Current(j)'  BY <3>1, <3>2, <2>1, <1>13
      <3> QED  BY <3>2, <3>3, <1>1 DEF Current
    <2>2. ASSUME NEW x \in Calls, ~lost', call'[x].op = "detail", call'[x].live, call'[x].at = "arrive",
                 call'[x].wait = None, call'[x].card # None
          PROVE  Current(call[x].card.joined)'
      <3>1. x # c /\ call'[x] = call[x]  BY <1>3, <2>2
      <3>2. viewer # None /\ Current(call[x].card.joined)
        BY <2>0, <2>2, <3>1 DEF FeedInv, JoinedInv, ViewerInv
      <3>3. PICK j : j = call[x].card.joined  OBVIOUS
      <3>4. Current(j)'  BY <3>2, <3>3, <2>2, <1>13
      <3> QED  BY <3>1, <3>3, <3>4 DEF Current
    <2> QED  BY <2>1, <2>2 DEF JoinedInv
  <1> QED  BY <1>0, <1>6, <1>7, <1>8, <1>9, <1>12, <1>14 DEF FeedInv


\* What the answer of a tap does to the calls.
LEMMA RefetchFields ==
    ASSUME Feed!EventFeedAssumption, FeedInv, NEW c \in Calls, call[c].at # "sync", call' = Feed!Refetch(c)
    PROVE  /\ Opens(c) /\ ~Attends(c)' /\ call'[c].at # "arrive"
           /\ \A x \in Calls \ {c} : call'[x] = Feed!Cancelled("detail")[x]
           /\ \A x \in Calls \ {c} : Weaker(call[x], call'[x])
  <1> DEFINE first == [Feed!Idle EXCEPT !.op = "detail", !.at = "source", !.by = viewer, !.live = TRUE]
  <1>1. Feed!Cancelled("detail") \in [Calls -> CallRecords]  BY CancelledTypes DEF FeedInv
  <1>2. /\ call'[c] = IF detail.open THEN first ELSE Feed!Idle
        /\ \A x \in Calls \ {c} : call'[x] = Feed!Cancelled("detail")[x]
    BY <1>1 DEF Feed!Refetch
  <1>3. \A x \in Calls \ {c} : Weaker(call[x], call'[x])  BY <1>2, CancelledWeaker
  <1>4. CASE detail.open
    <2>1. /\ call'[c].op = "detail" /\ call'[c].at = "source" /\ call'[c].by = viewer /\ call'[c].live
          /\ call'[c].card = None /\ call'[c].prev = None
      BY <1>2, <1>4 DEF Feed!Idle
    <2>2. viewer # None  BY <1>4, CardsStay
    <2>3. viewer \in Users  BY <2>2 DEF FeedInv, FeedTypeInv
    <2>4. "source" \in At("detail")  BY DEF At, Feed!Taps
    <2> QED  BY <1>2, <1>3, <2>1, <2>2, <2>3, <2>4 DEF Opens, Tied, Attends, Feed!Attendance
  <1>5. CASE ~detail.open
    <2>1. call'[c] = Feed!Idle  BY <1>2, <1>5
    <2>2. "idle" \in At("none")  BY DEF At, Feed!Taps
    <2> QED  BY <1>2, <1>3, <2>1, <2>2, IdleType DEF Opens, Tied, Attends, Feed!Attendance
  <1> QED  BY <1>4, <1>5

LEMMA AnswerDetailKept ==
    ASSUME Feed!EventFeedAssumption, FeedInv, Feed!Next, NEW c \in Calls, Feed!AnswerDetail(c)
    PROVE  FeedInv'
  <1> DEFINE tap == call[c].op
  <1>0. FeedTypeInv'  BY FeedTypesKept DEF FeedInv
  <1>1. UNCHANGED <<viewer, truth, linked, sync, lost>>  BY DEF Feed!AnswerDetail, Feed!server
  <1>2. /\ call[c].at = "answer" /\ tap \in {"join", "leave", "save", "unsave"} /\ tap \in Feed!Taps
        /\ call[c].by \in Users
    BY Places DEF Feed!AnswerDetail
  <1>3. CASE call[c].card = None
    <2>1. call'[c] = Feed!Idle /\ (\A x \in Calls \ {c} : call'[x] = call[x]) /\ UNCHANGED <<api, rss, feed, detail>>
      BY <1>3 DEF Feed!AnswerDetail, Feed!End, FeedInv, FeedTypeInv
    <2>2. ~Stored(c)  BY <1>3 DEF Stored
    <2>3. Fresh(c) /\ ~Attends(c)'  BY <1>2, <2>1, <2>2, FreshEnd
    <2> QED  BY <1>1, <2>1, <2>3, CardsStay, OneStep DEF QuietSync
  <1>4. CASE call[c].card # None
    <2>1. linked  BY <1>2, <1>4 DEF FeedInv, LinkInv
    <2>2. Tied(api') /\ Tied(rss') /\ Tied(feed') /\ Tied(detail'.card)  BY <2>1 DEF Tied
    <2>3. call' = Feed!Refetch(c)  BY <1>4 DEF Feed!AnswerDetail
    <2>4. /\ Opens(c) /\ ~Attends(c)' /\ call'[c].at # "arrive"
          /\ \A x \in Calls \ {c} : call'[x] = Feed!Cancelled("detail")[x]
          /\ \A x \in Calls \ {c} : Weaker(call[x], call'[x])
      BY <1>2, <2>3, RefetchFields
    <2>5. /\ detail'.open = detail.open /\ detail'.card = Feed!Updated(detail.card, tap)
          /\ detail'.sure = (detail.sure /\ Feed!Tells(c))
      BY <1>4 DEF Feed!AnswerDetail, FeedInv, FeedTypeInv
    <2>6. detail'.card # None => detail.card \in Feed!Cards
      BY <2>5 DEF Feed!Updated, FeedInv, FeedTypeInv
    <2>7. viewer = None => ~detail'.open /\ detail'.card = None
      BY <2>5, CardsStay DEF Feed!Updated
    <2>8. CASE tap \notin Feed!Attendance
      <3>1. Fresh(c)  BY <2>4, <2>8 DEF Fresh, Stored, Attends
      <3>2. QuietCalls /\ \A x \in Calls : Attends(x)' => Weaker(call[x], call'[x])
        BY <2>4, <3>1, OneCall
      <3>3. ASSUME ~lost, detail'.card # None, detail'.sure  PROVE Current(detail'.card.joined)
        <4>1. detail.card \in Feed!Cards /\ detail.card # None  BY <2>5, <2>6, <3>3 DEF Feed!Updated
        <4>2. detail'.card.joined = detail.card.joined
          BY <4>1, <1>2, <2>5, <2>8, UpdatedFields DEF FeedInv
        <4>3. Current(detail.card.joined)  BY <4>1, <3>3, <2>5, CardsStay
        <4> QED  BY <4>2, <4>3
      <3> QED  BY <1>1, <2>2, <2>7, <3>2, <3>3, QuietStep DEF QuietSync
    <2>9. CASE tap \in Feed!Attendance
      <3> HIDE DEF tap
      <3>1. call' \in [Calls -> CallRecords]  BY <1>0 DEF FeedTypeInv
      <3>2. CallsInv' /\ SyncInv'
        BY <1>1, <2>4, <3>1, QuietCallsKept DEF QuietSync
      <3>3. LinkInv'  BY <1>1, <2>1 DEF LinkInv, Tied
      <3>4. ASSUME NEW x \in Calls \ {c}
            PROVE  /\ call'[x].op = call[x].op /\ call'[x].at = call[x].at /\ call'[x].by = call[x].by
                   /\ call'[x].card = call[x].card /\ call'[x].alone = call[x].alone
                   /\ call'[x].live => call[x].live /\ call[x].op # "detail"
        <4>1. call[x] \in CallRecords  BY DEF FeedInv, FeedTypeInv
        <4> QED  BY <2>4, <4>1 DEF Feed!Cancelled, CallRecords
      <3>5. ViewerInv'
        <4>1. ASSUME NEW x \in Calls
              PROVE  /\ call'[x].live => viewer' # None /\ call'[x].by = viewer'
                     /\ call'[x].op # "none" => call'[x].by \in Users
          <5>1. CASE x = c  BY <5>1, <1>1, <2>4 DEF Opens
          <5>2. CASE x # c  BY <5>2, <1>1, <3>4 DEF FeedInv, ViewerInv
          <5> QED  BY <5>1, <5>2
        <4> QED  BY <4>1, <1>1, <2>7 DEF ViewerInv
      <3>6. AloneInv'
        <4>1. ASSUME NEW x \in Calls, Attends(x)'  PROVE x # c /\ Attends(x)
          BY <4>1, <2>4, <3>4 DEF Attends
        <4>2. ASSUME NEW x \in Calls, NEW y \in Calls, x # y, Attends(x)', Attends(y)'  PROVE ~call'[x].alone
          BY <4>1, <4>2, <3>4 DEF FeedInv, AloneInv
        <4>3. ASSUME NEW x \in Calls, Stored(x)', call'[x].alone
              PROVE  truth'[call'[x].by].joined = (call'[x].op = "join")
          <5>1. x # c /\ Attends(x)  BY <4>1, <4>3 DEF Stored
          <5>2. Stored(x) /\ call[x].alone  BY <5>1, <4>3, <3>4 DEF Stored
          <5> QED  BY <5>1, <5>2, <3>4, <1>1 DEF FeedInv, AloneInv
        <4> QED  BY <4>2, <4>3 DEF AloneInv
      <3>7. JoinedInv'
        <4>1. ASSUME ~lost', detail'.card # None, detail'.sure  PROVE Current(detail.card.joined)'
          <5>1. detail.card \in Feed!Cards /\ detail.card # None  BY <2>5, <2>6, <4>1 DEF Feed!Updated
          <5>2. detail'.card.joined = (tap = "join")
            BY <5>1, <1>2, <2>5, <2>9, UpdatedFields DEF FeedInv
          <5>3. call[c].alone /\ call[c].by = viewer  BY <2>5, <2>9, <4>1 DEF Feed!Tells, tap
          <5>4. Stored(c)  BY <1>2, <1>4, <2>9 DEF Stored, Attends, tap
          <5>5. truth[viewer].joined = (tap = "join")  BY <5>3, <5>4 DEF FeedInv, AloneInv, tap
          <5> QED  BY <5>2, <5>5, <1>1 DEF Current
        <4>2. ASSUME NEW x \in Calls, call'[x].op = "detail", call'[x].live, call'[x].at = "arrive"
              PROVE  FALSE
          BY <4>2, <2>4, <3>4
        <4> QED  BY <4>1, <4>2 DEF JoinedInv
      <3> QED  BY <1>0, <3>2, <3>3, <3>5, <3>6, <3>7 DEF FeedInv
    <2> QED  BY <2>8, <2>9
  <1> QED  BY <1>3, <1>4

-----------------------------------------------------------------------------
(* Accounts *)

LEMMA SignOutKept ==
    ASSUME Feed!EventFeedAssumption, FeedInv, Feed!Next, Feed!SignOut
    PROVE  FeedInv'
  <1>0. FeedTypeInv'  BY FeedTypesKept DEF FeedInv
  <1>1. /\ viewer' = None /\ sync' = None /\ api' = None /\ rss' = None /\ feed' = None
        /\ detail' = [open |-> FALSE, card |-> None, sure |-> FALSE]
        /\ UNCHANGED <<truth, linked, lost>>
    BY DEF Feed!SignOut, Feed!server
  <1>2. ASSUME NEW x \in Calls
        PROVE  /\ Weaker(call[x], call'[x])
               /\ call'[x].op = call[x].op /\ call'[x].at = call[x].at /\ call'[x].by = call[x].by
               /\ call'[x].card = call[x].card /\ call'[x].alone = call[x].alone /\ ~call'[x].live
    <2>1. call[x] \in CallRecords /\ call'[x] = [call[x] EXCEPT !.live = FALSE]
      BY DEF Feed!SignOut, FeedInv, FeedTypeInv
    <2> QED  BY <2>1 DEF Weaker, CallRecords
  <1>3. /\ CallsInv' /\ SyncInv'
        /\ \A c \in Calls : /\ Tied(call[c].card)' /\ Tied(call[c].prev)'
                            /\ call'[c].at = "commit" => linked'
                            /\ call'[c].at = "answer" /\ call'[c].card # None => linked'
    <2>1. call' \in [Calls -> CallRecords]  BY <1>0 DEF FeedTypeInv
    <2> QED  BY <1>1, <1>2, <2>1, QuietCallsKept DEF QuietSync
  <1>4. LinkInv'
    <2>1. sync' # "done"  BY <1>1, FeedConstants
    <2>2. Tied(api)' /\ Tied(rss)' /\ Tied(feed)' /\ Tied(detail.card)'  BY <1>1 DEF Tied
    <2>3. \A u \in Users : truth'[u].joined => linked'  BY <1>1 DEF FeedInv, LinkInv
    <2> QED  BY <1>3, <2>1, <2>2, <2>3 DEF LinkInv
  <1>5. ViewerInv'  BY <1>1, <1>2 DEF FeedInv, ViewerInv
  <1>6. AloneInv'
    <2>1. \A x \in Calls : (Attends(x)' <=> Attends(x)) /\ (Stored(x)' <=> Stored(x))
      BY <1>2 DEF Attends, Stored
    <2> QED  BY <1>1, <1>2, <2>1 DEF FeedInv, AloneInv
  <1>7. JoinedInv'  BY <1>1, <1>2 DEF JoinedInv
  <1> QED  BY <1>0, <1>3, <1>4, <1>5, <1>6, <1>7 DEF FeedInv

LEMMA SignInKept ==
    ASSUME Feed!EventFeedAssumption, FeedInv, Feed!Next, NEW u \in Users, Feed!SignIn(u)
    PROVE  FeedInv'
  <1>0. FeedTypeInv'  BY FeedTypesKept DEF FeedInv
  <1>1. /\ viewer = None /\ viewer' = u
        /\ UNCHANGED <<truth, linked, api, rss, sync, feed, detail, call, lost>>
    BY DEF Feed!SignIn, Feed!server, Feed!cache
  <1>2. (\A x \in Calls : ~call[x].live) /\ ~detail.open /\ detail.card = None
    BY <1>1 DEF FeedInv, ViewerInv
  <1>3. u # None  BY FeedConstants
  <1>4. CallsInv' /\ SyncInv' /\ LinkInv'  BY <1>1 DEF FeedInv, CallsInv, SyncInv, LinkInv, Tied
  <1>5. ViewerInv'  BY <1>1, <1>2, <1>3 DEF FeedInv, ViewerInv
  <1>6. AloneInv'  BY <1>1 DEF FeedInv, AloneInv, Attends, Stored
  <1>7. JoinedInv'  BY <1>1, <1>2 DEF JoinedInv
  <1> QED  BY <1>0, <1>4, <1>5, <1>6, <1>7 DEF FeedInv

-----------------------------------------------------------------------------
(* The feed's invariant *)

LEMMA FeedBegins ==
    ASSUME Feed!EventFeedAssumption, Feed!Init
    PROVE  FeedInv
  <1>1. FeedTypeInv  BY FeedTypesBegin
  <1>2. \A c \in Calls : call[c] = Feed!Idle  BY DEF Feed!Init
  <1>3. CallsInv
    <2>1. "idle" \in At("none")  BY DEF At, Feed!Taps
    <2> QED  BY <1>2, <2>1, IdleType DEF CallsInv
  <1>4. SyncInv  BY FeedConstants DEF SyncInv, Feed!Init
  <1>5. LinkInv
    <2>1. \A u \in Users : truth[u].joined => linked  BY DEF Feed!Init
    <2> QED  BY <1>2, <2>1, IdleType, FeedConstants DEF LinkInv, Tied, Feed!Init
  <1>6. ViewerInv  BY <1>2, IdleType, FeedConstants DEF ViewerInv, Feed!Init
  <1>7. AloneInv  BY <1>2, IdleType DEF AloneInv, Attends, Stored, Feed!Attendance
  <1>8. JoinedInv  BY <1>2, IdleType DEF JoinedInv, Feed!Init
  <1> QED  BY <1>1, <1>3, <1>4, <1>5, <1>6, <1>7, <1>8 DEF FeedInv

LEMMA FeedKept ==
    ASSUME Feed!EventFeedAssumption, FeedInv, Feed!Next
    PROVE  FeedInv'
  <1>1. CASE Feed!SignOut  BY <1>1, SignOutKept
  <1>2. CASE Feed!CloseDetail  BY <1>2, CloseDetailKept
  <1>3. CASE \E u \in Users : Feed!SignIn(u)  BY <1>3, SignInKept
  <1>4. ASSUME NEW c \in Calls,
               \/ Feed!LoadFeed(c) \/ Feed!FeedList(c) \/ Feed!FeedRss(c) \/ Feed!FeedStates(c) \/ Feed!FeedArrive(c)
               \/ Feed!LoadDetail(c) \/ Feed!DetailSource(c) \/ Feed!DetailFind(c) \/ Feed!DetailDb(c)
               \/ Feed!DetailAgain(c) \/ Feed!DetailRead(c) \/ Feed!DetailArrive(c)
        PROVE  FeedInv'
    BY <1>4, LoadFeedKept, FeedListKept, FeedRssKept, FeedStatesKept, FeedArriveKept,
       LoadDetailKept,
       DetailSourceKept, DetailFindKept, DetailDbKept, DetailAgainKept, DetailReadKept, DetailArriveKept
  <1>5. ASSUME NEW c \in Calls,
               \/ Feed!Abort(c) \/ Feed!SyncAnswer(c) \/ Feed!Commit(c) \/ Feed!AnswerDetail(c) \/ Feed!AnswerFeed(c)
               \/ Feed!TapFeed(c) \/ \E tap \in Feed!Taps : Feed!TapDetail(c, tap)
        PROVE  FeedInv'
    BY <1>5, AbortKept, SyncAnswerKept, CommitKept, AnswerDetailKept, AnswerFeedKept, TapFeedKept,
       TapDetailKept
  <1> QED  BY <1>1, <1>2, <1>3, <1>4, <1>5 DEF Feed!Next

LEMMA FeedStays ==
    ASSUME FeedInv, UNCHANGED Feed!vars
    PROVE  FeedInv'
  <1>1. UNCHANGED <<viewer, truth, linked, api, rss, sync, reading, feed, detail, call, lost, starts, auths>>
    BY DEF Feed!vars
  <1>2. FeedTypeInv'  BY <1>1 DEF FeedInv, FeedTypeInv
  <1>3. CallsInv' /\ SyncInv' /\ LinkInv' /\ ViewerInv'
    BY <1>1 DEF FeedInv, CallsInv, SyncInv, LinkInv, ViewerInv, Tied
  <1>4. AloneInv' /\ JoinedInv'
    BY <1>1 DEF FeedInv, AloneInv, JoinedInv, Current, Done, Stored, Attends
  <1> QED  BY <1>2, <1>3, <1>4 DEF FeedInv

\* While no join or leave is under way, what is sure is what is stored.
LEMMA FeedSettles ==
    ASSUME FeedInv
    PROVE  Feed!SettledJoined
  <1>1. ~Feed!Pending(Feed!Attendance) => \A c \in Calls : ~Done(c)  BY DEF Feed!Pending, Done, Stored, Attends
  <1> QED  BY <1>1 DEF Feed!SettledJoined, FeedInv, JoinedInv, Current

LEMMA FeedTypes ==
    ASSUME FeedInv
    PROVE  Feed!FeedTypeOK
  <1>1. ASSUME NEW c \in Calls
        PROVE  /\ call[c].op \in Feed!Taps \cup {"none", "feed", "detail"} /\ call[c].at \in Feed!Steps
               /\ call[c].at = "idle" <=> call[c] = Feed!Idle
               /\ call[c].at = "sync" => call[call[c].wait].wait = call[c].wait
    <2>1. call[c] \in CallRecords /\ call[c].at \in At(call[c].op)
      BY DEF FeedInv, FeedTypeInv, CallsInv
    <2>2. call[c].op \in Feed!Taps \cup {"none", "feed", "detail"} /\ call[c].at \in Feed!Steps
      BY <2>1 DEF CallRecords
    <2>3. call[c].at = "idle" => call[c] = Feed!Idle
      BY Places, <2>1, <2>2 DEF FeedInv, CallsInv, At, Feed!Taps
    <2>4. call[c].at = "sync" => call[call[c].wait].wait = call[c].wait
      BY DEF FeedInv, CallsInv
    <2> QED  BY <2>2, <2>3, <2>4, IdleType
  <1> QED  BY <1>1 DEF Feed!FeedTypeOK, FeedInv, FeedTypeInv

\* A step of the screens is one of the feed, or leaves it alone.
LEMMA FeedStep ==
    ASSUME [ScreensNext]_screensVars
    PROVE  [Feed!Next]_(Feed!vars)
  BY DEF ScreensNext, screensVars, feedVars, Feed!vars

\* A detail that the database has answered settles on whether the viewer has
\* joined: the answers of joins, leaves, fetches and sync-event may come in any
\* order, the screen may close and another account sign in.
THEOREM JoinsSettle == ScreensSpec => []SettledJoined
  <1>1. ScreensInit => FeedInv
    BY ScreensConstants, FeedBegins DEF ScreensInit
  <1>2. FeedInv /\ [ScreensNext]_screensVars => FeedInv'
    BY ScreensConstants, FeedStep, FeedKept, FeedStays
  <1>3. FeedInv => SettledJoined
    BY FeedSettles DEF SettledJoined
  <1> QED  BY <1>1, <1>2, <1>3, PTL DEF ScreensSpec, screensVars

-----------------------------------------------------------------------------
(* The public feeds *)

\* The instance's notions of finiteness and size.
LEMMA FetchSizes ==
    ASSUME NEW S
    PROVE  Fetch!Cardinality(S) = Cardinality(S) /\ (Fetch!IsFiniteSet(S) <=> IsFiniteSet(S))
  BY DEF Fetch!Cardinality, Cardinality, Fetch!IsFiniteSet, IsFiniteSet

\* Of more than n numbers, n have fewer than n above them.
LEMMA TopCount ==
    ASSUME NEW S, IsFiniteSet(S), S \subseteq Nat, NEW n \in Nat,
           NEW top, top = {i \in S : Cardinality({j \in S : j > i}) < n},
           NEW x \in S, x \notin top
    PROVE  Cardinality(top) = n
  <1> DEFINE Above(i) == {j \in S : j > i}
             g == [i \in S |-> Cardinality(Above(i))]
             N == Cardinality(S)
  <1>1. N \in Nat  BY FS_CardinalityType
  <1>2. ASSUME NEW i \in S
        PROVE  /\ IsFiniteSet(Above(i)) /\ Cardinality(Above(i)) \in Nat /\ Cardinality(Above(i)) <= N - 1
    <2>1. Above(i) \in SUBSET S /\ i \notin Above(i)  OBVIOUS
    <2> HIDE DEF Above
    <2>2. IsFiniteSet(Above(i)) /\ Cardinality(Above(i)) <= N /\ Cardinality(Above(i)) # N
      BY <2>1, FS_Subset
    <2>3. Cardinality(Above(i)) \in Nat  BY <2>2, FS_CardinalityType
    <2> HIDE DEF N
    <2> QED  BY <1>1, <2>2, <2>3
  <1>3. ASSUME NEW i \in S, NEW j \in S, i < j  PROVE Cardinality(Above(j)) < Cardinality(Above(i))
    <2>a. i \in Nat /\ j \in Nat /\ \A k \in S : k > j => k > i  BY <1>3
    <2>b. Above(j) \subseteq Above(i)  BY <2>a
    <2>c. j > i /\ ~(j > j)  BY <1>3, <2>a
    <2>1. Above(j) \in SUBSET Above(i) /\ j \in Above(i) /\ j \notin Above(j)  BY <2>b, <2>c
    <2> HIDE DEF Above
    <2>2. IsFiniteSet(Above(i)) /\ Cardinality(Above(i)) \in Nat /\ Cardinality(Above(j)) \in Nat  BY <1>2
    <2>3. Cardinality(Above(j)) <= Cardinality(Above(i)) /\ Cardinality(Above(j)) # Cardinality(Above(i))
      BY <2>1, <2>2, FS_Subset
    <2> QED  BY <2>2, <2>3
  <1> HIDE DEF Above, N
  <1>4. \A i \in S : g[i] \in 0..(N - 1)  BY <1>1, <1>2
  <1>5. \A i, j \in S : g[i] = g[j] => i = j
    <2> SUFFICES ASSUME NEW i \in S, NEW j \in S, i # j  PROVE g[i] # g[j]
      OBVIOUS
    <2>1. i < j \/ j < i  OBVIOUS
    <2>2. g[i] = Cardinality(Above(i)) /\ g[j] = Cardinality(Above(j))  OBVIOUS
    <2>3. Cardinality(Above(i)) \in Nat /\ Cardinality(Above(j)) \in Nat  BY <1>2
    <2> HIDE DEF g
    <2> QED  BY <1>3, <2>1, <2>2, <2>3
  <1>6. g \in Injection(S, 0..(N - 1))  BY <1>4, <1>5 DEF Injection, IsInjective
  <1>7. g \in Surjection(S, 0..(N - 1))
    <2>1. N - 1 \in Int  BY <1>1
    <2>2. N # 0  BY FS_EmptySet DEF N
    <2>3. IsFiniteSet(0..(N - 1)) /\ Cardinality(0..(N - 1)) = N  BY <1>1, <2>1, <2>2, FS_Interval
    <2>4. Cardinality(S) = Cardinality(0..(N - 1))  BY <2>3 DEF N
    <2> HIDE DEF g
    <2> QED  BY <1>6, <2>3, <2>4, FS_Injection
  <1>8. \A i \in S : i \in top <=> g[i] < n  BY DEF Above
  <1>9. \A v \in 0..(n - 1) : \E i \in top : g[i] = v
    <2> SUFFICES ASSUME NEW v \in 0..(n - 1)  PROVE \E i \in top : g[i] = v
      OBVIOUS
    <2>1. g[x] \in 0..(N - 1) /\ ~(g[x] < n)  BY <1>4, <1>8
    <2> HIDE DEF g
    <2>2. v \in 0..(N - 1) /\ v < n  BY <1>1, <2>1
    <2>3. PICK i \in S : g[i] = v  BY <1>7, <2>2 DEF Surjection
    <2> QED  BY <1>8, <2>2, <2>3
  <1> HIDE DEF g
  <1> DEFINE h == [i \in top |-> g[i]]
  <1>10. \A i \in top : i \in S /\ g[i] \in 0..(n - 1)
    <2>1. top \subseteq S  OBVIOUS
    <2> QED  BY <1>1, <1>4, <1>8, <2>1
  <1>11. h \in Injection(top, 0..(n - 1))  BY <1>5, <1>10 DEF Injection, IsInjective
  <1>12. h \in Surjection(top, 0..(n - 1))  BY <1>9, <1>10 DEF Surjection
  <1> HIDE DEF h
  <1>13. IsFiniteSet(0..(n - 1)) /\ Cardinality(0..(n - 1)) = n
    <2>1. n - 1 \in Int /\ 0 \in Int /\ (IF 0 > n - 1 THEN 0 ELSE n - 1 - 0 + 1) = n  OBVIOUS
    <2> QED  BY <2>1, FS_Interval
  <1> QED  BY <1>11, <1>12, <1>13, FS_Injection

\* The sequence of a finite set has its elements.
LEMMA ListedSet ==
    ASSUME NEW S, IsFiniteSet(S), NEW s, s = Fetch!SetToSeq(S)
    PROVE  s \in Seq(S) /\ Fetch!ToSet(s) = S
  <1> DEFINE n == Cardinality(S)
  <1>1. n \in Nat /\ ExistsBijection(1..n, S)  BY FS_CardinalityType
  <1>2. s = CHOOSE f \in [1..n -> S] : Fetch!IsInjective(f)  BY FetchSizes DEF Fetch!SetToSeq
  <1> HIDE DEF n
  <1>3. PICK b : b \in Bijection(1..n, S)  BY <1>1 DEF ExistsBijection
  <1>4. b \in [1..n -> S] /\ Fetch!IsInjective(b)  BY <1>3 DEF Bijection, Injection, IsInjective, Fetch!IsInjective
  <1>5. s \in [1..n -> S] /\ Fetch!IsInjective(s)
    <2>1. \E f \in [1..n -> S] : Fetch!IsInjective(f)  BY <1>4
    <2> QED  BY <1>2, <2>1
  <1>6. s \in Injection(1..n, S)  BY <1>5 DEF Injection, IsInjective, Fetch!IsInjective
  <1>7. Cardinality(1..n) = Cardinality(S)
    <2>1. n \in Int /\ (IF 1 > n THEN 0 ELSE n - 1 + 1) = n  BY <1>1
    <2>2. Cardinality(1..n) = n  BY <2>1, FS_Interval
    <2> QED  BY <2>2 DEF n
  <1>8. s \in Surjection(1..n, S)  BY <1>6, <1>7, FS_Injection
  <1>9. s \in Seq(S) /\ DOMAIN s = 1..n  BY <1>1, <1>5
  <1> QED  BY <1>5, <1>8, <1>9 DEF Surjection, Fetch!ToSet

\* The part of a sequence.
LEMMA SlicedFeeds ==
    ASSUME NEW S, NEW s, NEW a \in Int, NEW b \in Int, \A i \in a..b : s[i] \in S,
           NEW u, u = SubSeq(s, a, b)
    PROVE  /\ u \in Seq(S) /\ Len(u) = IF a <= b THEN b - a + 1 ELSE 0
           /\ \A i \in 1..(b - a + 1) : u[i] = s[a + i - 1]
  <1>1. SubSeq(s, a, b) \in Seq(S)  BY SubSeqProperties
  <1>2. Len(SubSeq(s, a, b)) = IF a <= b THEN b - a + 1 ELSE 0  BY SubSeqProperties
  <1>3. \A i \in 1..(b - a + 1) : SubSeq(s, a, b)[i] = s[a + i - 1]  BY SubSeqProperties
  <1> QED  BY <1>1, <1>2, <1>3

\* The first part of it, counted from one.
LEMMA FirstFeeds ==
    ASSUME NEW S, NEW s, NEW b \in Int, \A i \in 1..b : s[i] \in S, NEW u, u = SubSeq(s, 1, b)
    PROVE  u \in Seq(S) /\ Len(u) = (IF 1 <= b THEN b ELSE 0) /\ \A i \in 1..b : u[i] = s[i]
  <1>1. b - 1 + 1 = b /\ \A i \in 1..b : 1 + i - 1 = i  OBVIOUS
  <1>2. SubSeq(s, 1, b) \in Seq(S)  BY SubSeqProperties
  <1>3. Len(SubSeq(s, 1, b)) = IF 1 <= b THEN b - 1 + 1 ELSE 0  BY SubSeqProperties
  <1>4. \A i \in 1..(b - 1 + 1) : SubSeq(s, 1, b)[i] = s[1 + i - 1]  BY SubSeqProperties
  <1> QED  BY <1>1, <1>2, <1>3, <1>4

\* The first c of a sequence, and the rest.
Chunks(s, c, u, v) == u = SubSeq(s, 1, Fetch!Min({c, Len(s)})) /\ v = SubSeq(s, c + 1, Len(s))

\* Together they are the sequence.
LEMMA ChunkAndRest ==
    ASSUME NEW S, NEW s \in Seq(S), NEW c \in Nat \ {0}, NEW u, NEW v, Chunks(s, c, u, v)
    PROVE  /\ v \in Seq(S) /\ Fetch!ToSet(u) \subseteq S
           /\ Fetch!ToSet(u) \cup Fetch!ToSet(v) = Fetch!ToSet(s)
  <1> DEFINE n == Len(s)
             m == Fetch!Min({c, n})
  <1>0. u = SubSeq(s, 1, m) /\ v = SubSeq(s, c + 1, n)  BY DEF Chunks
  <1>1. n \in Nat /\ DOMAIN s = 1..n /\ \A i \in 1..n : s[i] \in S  OBVIOUS
  <1>2. m = IF c <= n THEN c ELSE n
    <2>1. m = CHOOSE y \in {c, n} : \A z \in {c, n} : y <= z  BY DEF Fetch!Min
    <2> HIDE DEF n
    <2>2. (IF c <= n THEN c ELSE n) \in {c, n}
          /\ \A z \in {c, n} : (IF c <= n THEN c ELSE n) <= z
      BY <1>1
    <2> HIDE DEF m
    <2>3. m \in {c, n} /\ \A z \in {c, n} : m <= z  BY <2>1, <2>2
    <2> QED  BY <1>1, <2>3
  <1> HIDE DEF m
  <1>3. m \in Int /\ c + 1 \in Int /\ n \in Int /\ 1 \in Int /\ m <= n
    <2>1. n \in Nat /\ c \in Nat  BY <1>1
    <2> HIDE DEF n
    <2> QED  BY <1>2, <2>1
  <1>4. Len(u) = (IF 1 <= m THEN m ELSE 0) /\ u \in Seq(S) /\ \A i \in 1..m : u[i] = s[i]
    <2>1. \A i \in 1..m : s[i] \in S  BY <1>1, <1>3
    <2>2. m \in Int /\ u = SubSeq(s, 1, m)  BY <1>0, <1>3
    <2>3. u \in Seq(S)  BY <2>1, <2>2, FirstFeeds
    <2>4. Len(u) = (IF 1 <= m THEN m ELSE 0)  BY <2>1, <2>2, FirstFeeds
    <2>5. \A i \in 1..m : u[i] = s[i]  BY <2>1, <2>2, FirstFeeds
    <2> QED  BY <2>3, <2>4, <2>5
  <1>5. /\ Len(v) = (IF c + 1 <= n THEN n - (c + 1) + 1 ELSE 0) /\ v \in Seq(S)
        /\ \A i \in 1..(n - (c + 1) + 1) : v[i] = s[(c + 1) + i - 1]
    <2>1. \A i \in (c + 1)..n : s[i] \in S  BY <1>1
    <2>2. v = SubSeq(s, c + 1, n)  BY <1>0
    <2> HIDE DEF n
    <2> QED  BY <1>3, <2>1, <2>2, SlicedFeeds
  <1> HIDE DEF n
  <1>6. DOMAIN u = 1..m /\ \A i \in 1..m : u[i] = s[i]
    <2>1. DOMAIN u = 1..Len(u)  BY <1>4
    <2>2. Len(u) = m  BY <1>1, <1>2, <1>3, <1>4
    <2> QED  BY <1>4, <2>1, <2>2
  <1>7. \A i \in DOMAIN v : c + i \in 1..n /\ v[i] = s[c + i]
    <2>1. DOMAIN v = 1..Len(v)  BY <1>5
    <2>2. \A i \in 1..Len(v) : i \in 1..(n - (c + 1) + 1) /\ (c + 1) + i - 1 = c + i /\ c + i \in 1..n
      BY <1>1, <1>5
    <2> QED  BY <1>5, <2>1, <2>2
  <1>8. \A i \in 1..n : i \in 1..m \/ (i - c \in DOMAIN v /\ c + (i - c) = i)
    <2>1. DOMAIN v = 1..Len(v)  BY <1>5
    <2> QED  BY <1>1, <1>2, <1>5, <2>1
  <1>9. \A i \in 1..m : i \in 1..n  BY <1>1, <1>3
  <1>10. Fetch!ToSet(u) \subseteq Fetch!ToSet(s)  BY <1>1, <1>6, <1>9 DEF Fetch!ToSet, n
  <1>11. Fetch!ToSet(v) \subseteq Fetch!ToSet(s)  BY <1>1, <1>7 DEF Fetch!ToSet, n
  <1>12. \A i \in 1..n : s[i] \in Fetch!ToSet(u) \cup Fetch!ToSet(v)
    <2> TAKE i \in 1..n
    <2>1. CASE i \in 1..m  BY <2>1, <1>6 DEF Fetch!ToSet
    <2>2. CASE i - c \in DOMAIN v /\ c + (i - c) = i
      <3>1. v[i - c] = s[i]  BY <2>2, <1>7
      <3> QED  BY <2>2, <3>1 DEF Fetch!ToSet
    <2> QED  BY <2>1, <2>2, <1>8
  <1>13. Fetch!ToSet(s) \subseteq S /\ Fetch!ToSet(s) \subseteq Fetch!ToSet(u) \cup Fetch!ToSet(v)
    BY <1>1, <1>12 DEF Fetch!ToSet, n
  <1> QED  BY <1>5, <1>10, <1>11, <1>13

\* A feed that does not list one of its items lists as many as it may.
LEMMA ListsFull ==
    ASSUME Fetch!RssFetchAssumption, NEW f, NEW i \in Items, Fetch!In(f, i), i \notin Fetch!Listed(f)
    PROVE  Fetch!Cardinality(Fetch!Listed(f)) = Limit
  <1> DEFINE S == {j \in Items : Fetch!In(f, j)}
             top == {j \in S : Cardinality({k \in S : k > j}) < Limit}
  <1>1. Fetch!Listed(f) = top
    <2>1. Fetch!Listed(f) = {j \in S : Fetch!Cardinality({k \in S : k > j}) < Limit}  BY DEF Fetch!Listed
    <2> HIDE DEF S
    <2>2. \A j : Fetch!Cardinality({k \in S : k > j}) = Cardinality({k \in S : k > j})  BY FetchSizes
    <2> QED  BY <2>1, <2>2
  <1>2. IsFiniteSet(S) /\ S \subseteq Nat /\ Limit \in Nat
    <2>1. IsFiniteSet(Items) /\ Items \subseteq Nat /\ Limit \in Nat
      BY FetchSizes DEF Fetch!RssFetchAssumption
    <2>2. S \in SUBSET Items  OBVIOUS
    <2> HIDE DEF S
    <2> QED  BY <2>1, <2>2, FS_Subset
  <1>3. i \in S /\ i \notin top  BY <1>1
  <1> DEFINE t == top
  <1>4. t = {j \in S : Cardinality({k \in S : k > j}) < Limit}  OBVIOUS
  <1> HIDE DEF S, t, top
  <1>5. Cardinality(t) = Limit  BY <1>2, <1>3, <1>4, TopCount DEF t
  <1> QED  BY <1>1, <1>5, FetchSizes DEF t

\* There are finitely many feeds, and the catalog is none of them.
LEMMA FewFeeds == Fetch!RssFetchAssumption => IsFiniteSet(Fetch!Feeds) /\ Fetch!Catalog \notin Fetch!Feeds
  <1> SUFFICES ASSUME Fetch!RssFetchAssumption
               PROVE  IsFiniteSet(Fetch!Feeds) /\ Fetch!Catalog \notin Fetch!Feeds
    OBVIOUS
  <1> DEFINE F == Formats \cup {None}
             C == Categories \cup {None}
             g == [p \in F \X C |-> [format |-> p[1], category |-> p[2]]]
  <1>1. IsFiniteSet(Formats) /\ IsFiniteSet(Categories) /\ "catalog" \notin F
    BY FetchSizes DEF Fetch!RssFetchAssumption
  <1>2. IsFiniteSet(F) /\ IsFiniteSet(C)  BY <1>1, FS_AddElement
  <1>3. Fetch!Feeds = [format : F, category : C]  BY DEF Fetch!Feeds
  <1> HIDE DEF F, C
  <1>4. IsFiniteSet(F \X C)  BY <1>2, FS_Product
  <1>5. g \in Surjection(F \X C, Fetch!Feeds)
    <2>1. g \in [F \X C -> Fetch!Feeds]  BY <1>3
    <2>2. ASSUME NEW f \in Fetch!Feeds  PROVE \E p \in F \X C : g[p] = f
      <3>1. f.format \in F /\ f.category \in C /\ f = [format |-> f.format, category |-> f.category]  BY <1>3
      <3>2. <<f.format, f.category>> \in F \X C  BY <3>1
      <3>3. g[<<f.format, f.category>>] = f  BY <3>1, <3>2
      <3> QED  BY <3>2, <3>3
    <2> HIDE DEF g
    <2> QED  BY <2>1, <2>2 DEF Surjection
  <1> HIDE DEF g
  <1>6. IsFiniteSet(Fetch!Feeds)  BY <1>4, <1>5, FS_Surjection
  <1>7. Fetch!Catalog \notin Fetch!Feeds
    <2>1. Fetch!Catalog.format = "catalog"  BY DEF Fetch!Catalog
    <2>2. \A f \in Fetch!Feeds : f.format \in F  BY <1>3
    <2> QED  BY <1>1, <2>1, <2>2
  <1> QED  BY <1>6, <1>7

\* The feeds of a load, the parts of a feed, and the parts of those.
LEMMA FeedsOf ==
    ASSUME Fetch!RssFetchAssumption
    PROVE  /\ \A kind \in LoadKinds : Fetch!Urls(kind) \subseteq Fetch!Feeds
           /\ \A f \in Fetch!Feeds : /\ Fetch!Partition(f) \subseteq Fetch!Feeds
                                     /\ \A p \in Fetch!Partition(f) : Fetch!Partition(p) = {}
  <1>1. /\ LoadKinds \subseteq Formats \cup {"preview", "index", "broad"}
        /\ Formats \cap {"preview", "index", "broad"} = {} /\ None \notin Formats \cup Categories
    BY DEF Fetch!RssFetchAssumption
  <1>2. \A k \in Formats : [Fetch!All EXCEPT !.format = k] \in Fetch!Feeds  BY DEF Fetch!All, Fetch!Feeds
  <1>3. \A k \in Categories : [Fetch!All EXCEPT !.category = k] \in Fetch!Feeds  BY DEF Fetch!All, Fetch!Feeds
  <1>4. Fetch!All \in Fetch!Feeds  BY DEF Fetch!All, Fetch!Feeds
  <1>5. ASSUME NEW kind \in LoadKinds  PROVE Fetch!Urls(kind) \subseteq Fetch!Feeds
    <2>1. CASE kind \in Formats
      <3>1. Fetch!Urls(kind) = {[Fetch!All EXCEPT !.format = kind]}  BY <1>1, <2>1 DEF Fetch!Urls
      <3> QED  BY <2>1, <3>1, <1>2
    <2>2. CASE kind \notin Formats /\ kind = "preview"
      <3>1. Fetch!Urls(kind) = {Fetch!All}  BY <1>1, <2>2 DEF Fetch!Urls
      <3> QED  BY <3>1, <1>4
    <2>3. CASE kind \notin Formats /\ kind \in {"index", "broad"}
      <3>1. Fetch!Urls(kind) = {Fetch!All} \cup Fetch!OfFormats \cup Fetch!OfCategories
        BY <1>1, <2>3 DEF Fetch!Urls
      <3> QED  BY <3>1, <1>2, <1>3, <1>4 DEF Fetch!OfFormats, Fetch!OfCategories
    <2> QED  BY <1>1, <2>1, <2>2, <2>3
  <1>6. ASSUME NEW f \in Fetch!Feeds, NEW p \in Fetch!Partition(f)
        PROVE  p \in Fetch!Feeds /\ Fetch!Partition(p) = {}
    <2>1. /\ f.format \in Formats \cup {None} /\ f.category \in Categories \cup {None}
      BY DEF Fetch!Feeds
    <2>2. CASE f.format # None /\ f.category = None
      <3>1. PICK k \in Categories : p = [f EXCEPT !.category = k]  BY <2>2 DEF Fetch!Partition
      <3>2. p \in Fetch!Feeds /\ p.format # None /\ p.category # None  BY <1>1, <2>2, <3>1 DEF Fetch!Feeds
      <3> QED  BY <3>2 DEF Fetch!Partition
    <2>3. CASE f.format = None /\ f.category # None
      <3>1. PICK k \in Formats : p = [f EXCEPT !.format = k]  BY <2>3 DEF Fetch!Partition
      <3>2. p \in Fetch!Feeds /\ p.format # None /\ p.category # None  BY <1>1, <2>3, <3>1 DEF Fetch!Feeds
      <3> QED  BY <3>2 DEF Fetch!Partition
    <2>4. CASE ~(f.format # None /\ f.category = None) /\ ~(f.format = None /\ f.category # None)
      BY <2>4 DEF Fetch!Partition
    <2> QED  BY <2>2, <2>3, <2>4
  <1> QED  BY <1>5, <1>6

\* The part of a feed that an item of it is in.
OwnPart(i) == [format |-> published[i].format, category |-> published[i].category]

\* Splitting a feed of a load that has the item asks for that part.
LEMMA OwnParts ==
    ASSUME Fetch!RssFetchAssumption, NEW kind \in LoadKinds, NEW f \in Fetch!Urls(kind) \ {Fetch!All},
           NEW i \in Items, published[i] \in Fetch!Published, Fetch!In(f, i)
    PROVE  OwnPart(i) \in Fetch!Partition(f)
  <1>1. /\ LoadKinds \subseteq Formats \cup {"preview", "index", "broad"}
        /\ Formats \cap {"preview", "index", "broad"} = {} /\ None \notin Formats \cup Categories
    BY DEF Fetch!RssFetchAssumption
  <1>2. published[i].format \in Formats /\ published[i].category \in Categories  BY DEF Fetch!Published
  <1>3. f \in Fetch!OfFormats \cup Fetch!OfCategories
    <2>1. CASE kind \in Formats  BY <1>1, <2>1 DEF Fetch!Urls, Fetch!OfFormats
    <2>2. CASE kind \notin Formats /\ kind = "preview"  BY <1>1, <2>2 DEF Fetch!Urls
    <2>3. CASE kind \notin Formats /\ kind \in {"index", "broad"}
      <3>1. Fetch!Urls(kind) = {Fetch!All} \cup Fetch!OfFormats \cup Fetch!OfCategories
        BY <1>1, <2>3 DEF Fetch!Urls
      <3> QED  BY <3>1
    <2> QED  BY <1>1, <2>1, <2>2, <2>3
  <1>4. CASE f \in Fetch!OfFormats
    <2>1. PICK k \in Formats : f = [Fetch!All EXCEPT !.format = k]  BY <1>4 DEF Fetch!OfFormats
    <2>2. f = [format |-> k, category |-> None]  BY <2>1 DEF Fetch!All
    <2>3. k = published[i].format /\ f.format # None /\ f.category = None  BY <1>1, <2>2 DEF Fetch!In
    <2>4. Fetch!Partition(f) = {[f EXCEPT !.category = c] : c \in Categories}  BY <2>3 DEF Fetch!Partition
    <2>5. OwnPart(i) = [f EXCEPT !.category = published[i].category]  BY <2>2, <2>3 DEF OwnPart
    <2> QED  BY <1>2, <2>4, <2>5
  <1>5. CASE f \in Fetch!OfCategories
    <2>1. PICK k \in Categories : f = [Fetch!All EXCEPT !.category = k]  BY <1>5 DEF Fetch!OfCategories
    <2>2. f = [format |-> None, category |-> k]  BY <2>1 DEF Fetch!All
    <2>3. k = published[i].category /\ f.format = None /\ f.category # None  BY <1>1, <2>2 DEF Fetch!In
    <2>4. Fetch!Partition(f) = {[f EXCEPT !.format = c] : c \in Formats}  BY <2>3 DEF Fetch!Partition
    <2>5. OwnPart(i) = [f EXCEPT !.format = published[i].format]  BY <2>2, <2>3 DEF OwnPart
    <2> QED  BY <1>2, <2>4, <2>5
  <1> QED  BY <1>3, <1>4, <1>5

-----------------------------------------------------------------------------
(* What the loads of the public feeds keep *)

LoadStates == [kind : LoadKinds \cup {None}, at : Fetch!Ended \cup {"catalog", "feeds", "split", "parts"},
               todo : Seq(Fetch!Feeds), open : SUBSET (Fetch!Asks \X Loads),
               asked : SUBSET Fetch!Feeds, got : SUBSET Fetch!Feeds, failed : BOOLEAN, live : BOOLEAN]

FetchTypeInv ==
    /\ published \in [Items -> Fetch!Published]
    /\ feedCache \subseteq Fetch!Feeds
    /\ shared \in [Fetch!Asks -> Loads \cup {None, "kept"}]
    /\ \A f \in Fetch!Feeds : shared[f] # "kept"
    /\ req \in [Loads \X Fetch!Asks -> [at : {"none", "send", "sleep"}, n : Nat]]
    /\ load \in [Loads -> LoadStates]
    /\ \A l \in Loads : load[l].at # "idle" => load[l].kind \in LoadKinds

\* A load awaits its own requests, nothing once it has ended, and the catalog
\* alone.
RequestsInv ==
    \A l \in Loads :
        /\ \A a \in Fetch!Asks : req[<<l, a>>] # Fetch!Quiet => <<a, l>> \in load[l].open
        /\ load[l].at \in Fetch!Ended => load[l].open = {}
        /\ \A w \in load[l].open : w[1] = Fetch!Catalog => load[l].open = {w}

FullFeeds == {f \in Fetch!Feeds : Fetch!Cardinality(Fetch!Parsed(f)) = Limit}

\* Unless an answer failed: what was asked for has come or is awaited, what
\* was not is still to do, and so are the parts of the full feeds.
GapFree(full, s) ==
    /\ s.at \in {"idle", "catalog", "split"} => s.todo = <<>>
    /\ ~s.failed =>
        /\ \A f \in s.asked \ s.got : \E m \in Loads : <<f, m>> \in s.open
        /\ s.at = "feeds" => Fetch!Urls(s.kind) \subseteq s.asked \cup Fetch!ToSet(s.todo)
        /\ s.at \in {"split", "parts", "done"} => Fetch!Urls(s.kind) \subseteq s.asked
        /\ s.at = "parts" =>
              /\ \A f \in s.asked \cap full : Fetch!Partition(f) \subseteq s.asked \cup Fetch!ToSet(s.todo)
              /\ \A f \in Fetch!ToSet(s.todo) : Fetch!Partition(f) = {}
        /\ s.at = "done" /\ Fetch!Splits(s.kind) =>
              \A f \in s.asked \cap full : Fetch!Partition(f) \subseteq s.asked

FetchInv ==
    /\ FetchTypeInv
    /\ RequestsInv
    /\ \A l \in Loads : GapFree(FullFeeds, load[l])

\* Nothing is asked for, and nothing under way, at first.
LEMMA FetchBegins == Fetch!RssFetchAssumption /\ Fetch!Init => FetchInv
  <1> SUFFICES ASSUME Fetch!RssFetchAssumption, Fetch!Init  PROVE FetchInv
    OBVIOUS
  <1>1. /\ feedCache = {} /\ shared = [a \in Fetch!Asks |-> None] /\ published \in [Items -> Fetch!Published]
        /\ req = [x \in Loads \X Fetch!Asks |-> Fetch!Quiet] /\ load = [l \in Loads |-> Fetch!NoLoad]
    BY DEF Fetch!Init
  <1>2. /\ Fetch!NoLoad \in LoadStates /\ Fetch!NoLoad.at = "idle" /\ Fetch!NoLoad.open = {}
        /\ Fetch!NoLoad.asked = {} /\ Fetch!NoLoad.todo = <<>>
    BY DEF Fetch!NoLoad, LoadStates, Fetch!Ended
  <1>3. FetchTypeInv
    <2>1. \A f \in Fetch!Feeds : f \in Fetch!Asks  BY DEF Fetch!Asks
    <2>2. Fetch!Quiet \in [at : {"none", "send", "sleep"}, n : Nat]  BY DEF Fetch!Quiet
    <2>3. \A f \in Fetch!Feeds : shared[f] # "kept"
      BY <1>1, <2>1 DEF Fetch!RssFetchAssumption
    <2> QED  BY <1>1, <1>2, <2>2, <2>3 DEF FetchTypeInv
  <1>4. RequestsInv  BY <1>1, <1>2 DEF RequestsInv
  <1>5. ASSUME NEW l \in Loads  PROVE GapFree(FullFeeds, load[l])
    BY <1>1, <1>2 DEF GapFree
  <1> QED  BY <1>3, <1>4, <1>5 DEF FetchInv

\* The fields of a load.
LEMMA LoadFields ==
    ASSUME FetchTypeInv, NEW l \in Loads
    PROVE  /\ load[l] \in LoadStates /\ load[l].kind \in LoadKinds \cup {None}
           /\ load[l].todo \in Seq(Fetch!Feeds) /\ load[l].open \subseteq Fetch!Asks \X Loads
           /\ load[l].asked \subseteq Fetch!Feeds /\ load[l].got \subseteq Fetch!Feeds
           /\ load[l].failed \in BOOLEAN /\ load[l].live \in BOOLEAN
           /\ load[l].at \in Fetch!Ended \cup {"catalog", "feeds", "split", "parts"}
  BY DEF FetchTypeInv, LoadStates

\* Every feed of those is awaited.
Covers(awaited, asks) == \A f \in asks \cap Fetch!Feeds : \E m \in Loads : <<f, m>> \in awaited

\* What asking does to the requests, and what is awaited then.
LEMMA AskKeeps ==
    ASSUME Fetch!RssFetchAssumption, FetchTypeInv, RequestsInv, NEW l \in Loads, load[l].open = {},
           NEW kind, NEW asks \in SUBSET Fetch!Asks, Fetch!Ask(l, kind, asks),
           NEW awaited, awaited = Fetch!Awaited(l, kind, asks)
    PROVE  /\ shared' \in [Fetch!Asks -> Loads \cup {None, "kept"}]
           /\ \A f \in Fetch!Feeds : shared'[f] # "kept"
           /\ req' \in [Loads \X Fetch!Asks -> [at : {"none", "send", "sleep"}, n : Nat]]
           /\ \A m \in Loads, a \in Fetch!Asks : m # l => req'[<<m, a>>] = req[<<m, a>>]
           /\ \A a \in Fetch!Asks : req'[<<l, a>>] # Fetch!Quiet => <<a, l>> \in awaited
           /\ awaited \subseteq asks \X Loads
           /\ Covers(awaited, asks)
  <1> DEFINE joined == Fetch!Joined(kind, asks)
             new == asks \ joined
  <1>1. joined \subseteq asks /\ \A a \in joined : shared[a] # None  BY DEF Fetch!Joined
  <1>2. /\ req' = [x \in Loads \X Fetch!Asks |-> IF x[1] = l /\ x[2] \in new THEN [at |-> "send", n |-> 1]
                                                                        ELSE req[x]]
        /\ shared' = IF Fetch!Signalled(kind) THEN shared
                     ELSE [a \in Fetch!Asks |-> IF a \in new THEN l ELSE shared[a]]
    BY DEF Fetch!Ask
  <1>3. awaited = {<<a, l>> : a \in new} \cup {<<a, shared[a]>> : a \in {b \in joined : shared[b] # "kept"}}
    BY DEF Fetch!Awaited
  <1> HIDE DEF joined
  <1>4. "kept" \notin Loads /\ l # "kept"  BY DEF Fetch!RssFetchAssumption
  <1>5. \A f \in Fetch!Feeds : f \in Fetch!Asks  BY DEF Fetch!Asks
  <1>6. /\ shared \in [Fetch!Asks -> Loads \cup {None, "kept"}] /\ \A f \in Fetch!Feeds : shared[f] # "kept"
        /\ req \in [Loads \X Fetch!Asks -> [at : {"none", "send", "sleep"}, n : Nat]]
    BY DEF FetchTypeInv
  <1>7. /\ shared' \in [Fetch!Asks -> Loads \cup {None, "kept"}]
        /\ \A f \in Fetch!Feeds : shared'[f] # "kept"
    BY <1>2, <1>4, <1>5, <1>6
  <1>8. req' \in [Loads \X Fetch!Asks -> [at : {"none", "send", "sleep"}, n : Nat]]
    <2>1. [at |-> "send", n |-> 1] \in [at : {"none", "send", "sleep"}, n : Nat]  OBVIOUS
    <2> HIDE DEF new
    <2> QED  BY <1>2, <1>6, <2>1
  <1>9. \A m \in Loads, a \in Fetch!Asks :
           req'[<<m, a>>] = IF m = l /\ a \in new THEN [at |-> "send", n |-> 1] ELSE req[<<m, a>>]
    <2> HIDE DEF new
    <2> TAKE m \in Loads, a \in Fetch!Asks
    <2>1. <<m, a>> \in Loads \X Fetch!Asks /\ <<m, a>>[1] = m /\ <<m, a>>[2] = a  OBVIOUS
    <2> QED  BY <1>2, <2>1
  <1>10. \A a \in Fetch!Asks : req[<<l, a>>] = Fetch!Quiet  BY DEF RequestsInv
  <1>11. \A a \in Fetch!Asks : req'[<<l, a>>] # Fetch!Quiet => <<a, l>> \in awaited
    <2>1. \A a \in Fetch!Asks : req'[<<l, a>>] # Fetch!Quiet => a \in new  BY <1>9, <1>10
    <2> QED  BY <1>3, <2>1
  <1>12. \A a \in joined : shared[a] # "kept" => shared[a] \in Loads
    BY <1>1, <1>6
  <1>13. awaited \subseteq asks \X Loads  BY <1>1, <1>3, <1>12
  <1>14. ASSUME NEW f \in asks \cap Fetch!Feeds  PROVE \E m \in Loads : <<f, m>> \in awaited
    <2>1. CASE f \in new  BY <2>1, <1>3
    <2>2. CASE f \in joined
      <3>1. shared[f] # "kept" /\ shared[f] \in Loads  BY <2>2, <1>6, <1>12
      <3> QED  BY <2>2, <3>1, <1>3
    <2> QED  BY <2>1, <2>2
  <1> QED  BY <1>7, <1>8, <1>9, <1>11, <1>13, <1>14 DEF Covers

\* Only one load changes, and what is published does not.
LEMMA OneLoad ==
    ASSUME FetchInv, UNCHANGED published, feedCache' \subseteq Fetch!Feeds,
           shared' \in [Fetch!Asks -> Loads \cup {None, "kept"}],
           \A f \in Fetch!Feeds : shared'[f] # "kept",
           req' \in [Loads \X Fetch!Asks -> [at : {"none", "send", "sleep"}, n : Nat]],
           NEW l \in Loads, NEW s \in LoadStates, load' = [load EXCEPT ![l] = s],
           s.at # "idle" => s.kind \in LoadKinds,
           \A m \in Loads, a \in Fetch!Asks : m # l => req'[<<m, a>>] = req[<<m, a>>],
           \A a \in Fetch!Asks : req'[<<l, a>>] # Fetch!Quiet => <<a, l>> \in s.open,
           s.at \in Fetch!Ended => s.open = {},
           \A w \in s.open : w[1] = Fetch!Catalog => s.open = {w},
           GapFree(FullFeeds, s)
    PROVE  FetchInv'
  <1>1. FetchTypeInv /\ load \in [Loads -> LoadStates]  BY DEF FetchInv, FetchTypeInv
  <1>2. load' \in [Loads -> LoadStates] /\ load'[l] = s /\ \A m \in Loads : m # l => load'[m] = load[m]
    BY <1>1
  <1>3. FetchTypeInv'
    <2>1. \A m \in Loads : load'[m].at # "idle" => load'[m].kind \in LoadKinds
      BY <1>2 DEF FetchInv, FetchTypeInv
    <2> QED  BY <1>1, <1>2, <2>1 DEF FetchTypeInv
  <1>4. RequestsInv'
    <2> SUFFICES ASSUME NEW m \in Loads
                 PROVE  /\ \A a \in Fetch!Asks : req'[<<m, a>>] # Fetch!Quiet => <<a, m>> \in load'[m].open
                        /\ load'[m].at \in Fetch!Ended => load'[m].open = {}
                        /\ \A w \in load'[m].open : w[1] = Fetch!Catalog => load'[m].open = {w}
      BY DEF RequestsInv
    <2>1. CASE m = l  BY <2>1, <1>2
    <2>2. CASE m # l  BY <2>2, <1>2 DEF FetchInv, RequestsInv
    <2> QED  BY <2>1, <2>2
  <1>5. FullFeeds' = FullFeeds
    BY DEF FullFeeds, Fetch!Parsed, Fetch!Listed, Fetch!In
  <1>6. \A m \in Loads : GapFree(FullFeeds', load'[m])
    BY <1>2, <1>5 DEF FetchInv
  <1> QED  BY <1>3, <1>4, <1>6 DEF FetchInv

\* A load after it has asked for the catalog, or for a chunk of its feeds.
ForCatalog(r, kind, at, open) == [r EXCEPT !.kind = kind, !.at = at, !.open = open]
ForFeeds(r, at, todo, open, asked, new) ==
    [r EXCEPT !.at = at, !.todo = todo, !.asked = asked, !.got = new, !.open = open]

\* What a load is when it has asked for the catalog.
LEMMA CatalogRecord ==
    ASSUME NEW r \in LoadStates, NEW kind \in LoadKinds, NEW at \in {"catalog", "split"},
           NEW open \in SUBSET (Fetch!Asks \X Loads), NEW s, s = ForCatalog(r, kind, at, open)
    PROVE  /\ s \in LoadStates /\ s.kind = kind /\ s.at = at /\ s.open = open /\ s.todo = r.todo
           /\ s.asked = r.asked /\ s.got = r.got /\ s.failed = r.failed
  <1>1. s \in LoadStates  BY DEF LoadStates, ForCatalog
  <1>2. s.kind = kind /\ s.at = at /\ s.todo = r.todo /\ s.open = open  BY DEF LoadStates, ForCatalog
  <1>3. s.asked = r.asked /\ s.got = r.got /\ s.failed = r.failed  BY DEF LoadStates, ForCatalog
  <1> QED  BY <1>1, <1>2, <1>3

\* What it is when it has asked for a chunk.
LEMMA FeedsRecord ==
    ASSUME NEW r \in LoadStates, NEW at \in {"feeds", "parts"}, NEW todo \in Seq(Fetch!Feeds),
           NEW open \in SUBSET (Fetch!Asks \X Loads), NEW asked \in SUBSET Fetch!Feeds,
           NEW new \in SUBSET Fetch!Feeds, NEW s, s = ForFeeds(r, at, todo, open, asked, new)
    PROVE  /\ s \in LoadStates /\ s.kind = r.kind /\ s.at = at /\ s.todo = todo /\ s.open = open
           /\ s.asked = asked /\ s.got = new /\ s.failed = r.failed
  <1>1. s \in LoadStates  BY DEF LoadStates, ForFeeds
  <1>2. s.kind = r.kind /\ s.at = at /\ s.todo = todo /\ s.open = open  BY DEF LoadStates, ForFeeds
  <1>3. s.asked = asked /\ s.got = new /\ s.failed = r.failed  BY DEF LoadStates, ForFeeds
  <1> QED  BY <1>1, <1>2, <1>3

\* A load that asks for the catalog.
LEMMA CatalogKeeps ==
    ASSUME Fetch!RssFetchAssumption, FetchInv, NEW l \in Loads, NEW kind \in LoadKinds,
           NEW step \in {"catalog", "split"}, Fetch!AskCatalog(l, kind, step),
           load[l].open = {}, load[l].todo = <<>>,
           step = "split" /\ ~load[l].failed => Fetch!Urls(kind) \subseteq load[l].asked
    PROVE  FetchInv'
  <1> DEFINE r == load[l]
             awaited == Fetch!Awaited(l, kind, {Fetch!Catalog})
             s == ForCatalog(r, kind, step, awaited)
  <1>1. FetchTypeInv /\ RequestsInv /\ load \in [Loads -> LoadStates] /\ GapFree(FullFeeds, r)
    BY DEF FetchInv, FetchTypeInv
  <1>2. /\ r \in LoadStates /\ r.todo \in Seq(Fetch!Feeds) /\ r.asked \subseteq Fetch!Feeds
        /\ r.got \subseteq Fetch!Feeds /\ r.failed \in BOOLEAN /\ r.live \in BOOLEAN
    BY <1>1, LoadFields
  <1>3. Fetch!Ask(l, kind, {Fetch!Catalog}) /\ UNCHANGED <<published, feedCache>>
    BY DEF Fetch!AskCatalog
  <1>4. load' = [load EXCEPT ![l] = s]  BY DEF Fetch!AskCatalog, ForCatalog
  <1>5. Fetch!Catalog \in Fetch!Asks /\ Fetch!Catalog \notin Fetch!Feeds
    BY FewFeeds DEF Fetch!Asks
  <1>6. /\ shared' \in [Fetch!Asks -> Loads \cup {None, "kept"}]
        /\ \A f \in Fetch!Feeds : shared'[f] # "kept"
        /\ req' \in [Loads \X Fetch!Asks -> [at : {"none", "send", "sleep"}, n : Nat]]
        /\ \A m \in Loads, a \in Fetch!Asks : m # l => req'[<<m, a>>] = req[<<m, a>>]
        /\ \A a \in Fetch!Asks : req'[<<l, a>>] # Fetch!Quiet => <<a, l>> \in awaited
        /\ awaited \subseteq {Fetch!Catalog} \X Loads
    <2>1. {Fetch!Catalog} \in SUBSET Fetch!Asks /\ load[l].open = {}  BY <1>5
    <2>2. awaited = Fetch!Awaited(l, kind, {Fetch!Catalog})  OBVIOUS
    <2> HIDE DEF awaited
    <2> QED  BY <1>1, <1>3, <2>1, <2>2, AskKeeps
  <1>7. \A w \in awaited : awaited = {w}
    <2>1. Fetch!Joined(kind, {Fetch!Catalog}) \subseteq {Fetch!Catalog}  BY DEF Fetch!Joined
    <2> QED  BY <2>1 DEF Fetch!Awaited
  <1> HIDE DEF awaited
  <1>8. /\ s \in LoadStates /\ s.at = step /\ s.open = awaited /\ s.kind = kind /\ s.todo = r.todo
        /\ s.failed = r.failed /\ s.asked = r.asked /\ s.got = r.got
    <2>1. awaited \in SUBSET (Fetch!Asks \X Loads)  BY <1>5, <1>6
    <2>2. s = ForCatalog(r, kind, step, awaited)  OBVIOUS
    <2> HIDE DEF r, s
    <2> QED  BY <1>2, <2>1, <2>2, CatalogRecord
  <1>9. GapFree(FullFeeds, s)
    <2>1. ~r.failed => r.asked \ r.got = {}  BY <1>1 DEF GapFree
    <2> HIDE DEF s
    <2> QED  BY <1>8, <2>1 DEF GapFree
  <1>10. s.at \notin Fetch!Ended /\ feedCache' \subseteq Fetch!Feeds
    BY <1>1, <1>3, <1>8 DEF Fetch!Ended, FetchTypeInv
  <1> HIDE DEF s, r
  <1> QED  BY <1>3, <1>4, <1>6, <1>7, <1>8, <1>9, <1>10, OneLoad

\* A load that asks for the next chunk of its feeds.
LEMMA FeedsKeep ==
    ASSUME Fetch!RssFetchAssumption, FetchInv, NEW l \in Loads, NEW step \in {"feeds", "parts"},
           NEW todo \in Seq(Fetch!Feeds), Fetch!AskFeeds(l, step, todo),
           load[l].open = {}, load[l].kind \in LoadKinds,
           ~load[l].failed /\ step = "feeds" =>
              Fetch!Urls(load[l].kind) \subseteq load[l].asked \cup Fetch!ToSet(todo),
           ~load[l].failed /\ step = "parts" =>
              /\ Fetch!Urls(load[l].kind) \subseteq load[l].asked
              /\ \A f \in load[l].asked \cap FullFeeds :
                    Fetch!Partition(f) \subseteq load[l].asked \cup Fetch!ToSet(todo)
              /\ \A f \in Fetch!ToSet(todo) : Fetch!Partition(f) = {}
    PROVE  FetchInv'
  <1> DEFINE r == load[l]
             first == SubSeq(todo, 1, Fetch!Min({Concurrency, Len(todo)}))
             chunk == Fetch!ToSet(first)
             rest == SubSeq(todo, Concurrency + 1, Len(todo))
             asks == chunk \ feedCache
             awaited == Fetch!Awaited(l, r.kind, asks)
             asked == r.asked \cup chunk
             new == r.got \cup (chunk \cap feedCache)
             s == ForFeeds(r, step, rest, awaited, asked, new)
  <1>1. FetchTypeInv /\ RequestsInv /\ load \in [Loads -> LoadStates] /\ GapFree(FullFeeds, r)
    BY DEF FetchInv, FetchTypeInv
  <1>2. /\ r \in LoadStates /\ r.todo \in Seq(Fetch!Feeds) /\ r.asked \subseteq Fetch!Feeds
        /\ r.got \subseteq Fetch!Feeds /\ r.failed \in BOOLEAN /\ r.live \in BOOLEAN
        /\ r.kind \in LoadKinds \cup {None}
    BY <1>1, LoadFields
  <1>3. Fetch!Ask(l, r.kind, asks) /\ UNCHANGED <<published, feedCache>>
    BY DEF Fetch!AskFeeds
  <1>4. load' = [load EXCEPT ![l] = s]  BY DEF Fetch!AskFeeds, ForFeeds
  <1>5. /\ rest \in Seq(Fetch!Feeds) /\ chunk \subseteq Fetch!Feeds
        /\ chunk \cup Fetch!ToSet(rest) = Fetch!ToSet(todo)
    <2>1. Concurrency \in Nat \ {0}  BY DEF Fetch!RssFetchAssumption
    <2>2. Chunks(todo, Concurrency, first, rest)  BY DEF Chunks
    <2> HIDE DEF first, rest
    <2> QED  BY <2>1, <2>2, ChunkAndRest
  <1> HIDE DEF first, chunk, rest
  <1>6. /\ shared' \in [Fetch!Asks -> Loads \cup {None, "kept"}]
        /\ \A f \in Fetch!Feeds : shared'[f] # "kept"
        /\ req' \in [Loads \X Fetch!Asks -> [at : {"none", "send", "sleep"}, n : Nat]]
        /\ \A m \in Loads, a \in Fetch!Asks : m # l => req'[<<m, a>>] = req[<<m, a>>]
        /\ \A a \in Fetch!Asks : req'[<<l, a>>] # Fetch!Quiet => <<a, l>> \in awaited
        /\ awaited \subseteq asks \X Loads
        /\ Covers(awaited, asks)
    <2>1. asks \in SUBSET Fetch!Asks /\ load[l].open = {}  BY <1>5 DEF Fetch!Asks
    <2>2. awaited = Fetch!Awaited(l, r.kind, asks)  OBVIOUS
    <2> DEFINE kind == r.kind
    <2>3. Fetch!Ask(l, kind, asks) /\ awaited = Fetch!Awaited(l, kind, asks)  BY <1>3, <2>2
    <2> HIDE DEF awaited, asks, r, kind
    <2>4. /\ shared' \in [Fetch!Asks -> Loads \cup {None, "kept"}]
          /\ \A f \in Fetch!Feeds : shared'[f] # "kept"
          /\ req' \in [Loads \X Fetch!Asks -> [at : {"none", "send", "sleep"}, n : Nat]]
          /\ \A m \in Loads, a \in Fetch!Asks : m # l => req'[<<m, a>>] = req[<<m, a>>]
      BY <1>1, <2>1, <2>3, AskKeeps
    <2>5. \A a \in Fetch!Asks : req'[<<l, a>>] # Fetch!Quiet => <<a, l>> \in awaited
      BY <1>1, <2>1, <2>3, AskKeeps
    <2>6. awaited \subseteq asks \X Loads
      BY <1>1, <2>1, <2>3, AskKeeps
    <2>7. Covers(awaited, asks)
      BY <1>1, <2>1, <2>3, AskKeeps
    <2> QED  BY <2>4, <2>5, <2>6, <2>7
  <1> HIDE DEF awaited
  <1>7. \A w \in awaited : w[1] # Fetch!Catalog
    <2>1. Fetch!Catalog \notin Fetch!Feeds  BY FewFeeds
    <2> QED  BY <2>1, <1>5, <1>6
  <1>8. /\ s \in LoadStates /\ s.at = step /\ s.open = awaited /\ s.kind = r.kind /\ s.todo = rest
        /\ s.failed = r.failed /\ s.asked = r.asked \cup chunk /\ s.got = r.got \cup (chunk \cap feedCache)
    <2>1. awaited \in SUBSET (Fetch!Asks \X Loads)  BY <1>5, <1>6 DEF Fetch!Asks
    <2>2. asked \in SUBSET Fetch!Feeds /\ new \in SUBSET Fetch!Feeds  BY <1>2, <1>5
    <2>3. s = ForFeeds(r, step, rest, awaited, asked, new)  OBVIOUS
    <2>4. asked = r.asked \cup chunk /\ new = r.got \cup (chunk \cap feedCache)  OBVIOUS
    <2> HIDE DEF r, s, asked, new
    <2>5. r \in LoadStates /\ rest \in Seq(Fetch!Feeds)  BY <1>2, <1>5
    <2>6. /\ s \in LoadStates /\ s.kind = r.kind /\ s.at = step /\ s.todo = rest /\ s.open = awaited
          /\ s.asked = asked /\ s.got = new /\ s.failed = r.failed
      BY <2>1, <2>2, <2>3, <2>5, FeedsRecord
    <2> QED  BY <2>4, <2>6
  <1> HIDE DEF s, r
  <1>9. GapFree(FullFeeds, s)
    <2>1. ~r.failed => r.asked \ r.got = {}  BY <1>1 DEF GapFree, r
    <2>3. ~r.failed => \A f \in s.asked \ s.got : \E m \in Loads : <<f, m>> \in s.open
      <3>1. ~r.failed => s.asked \ s.got \subseteq asks \cap Fetch!Feeds  BY <1>5, <1>8, <2>1
      <3> HIDE DEF asks
      <3> QED  BY <3>1, <1>6, <1>8 DEF Covers
    <2>4. step = "feeds" /\ ~r.failed => Fetch!Urls(r.kind) \subseteq s.asked \cup Fetch!ToSet(s.todo)
      BY <1>5, <1>8 DEF r
    <2>5. step = "parts" /\ ~r.failed =>
            /\ Fetch!Urls(r.kind) \subseteq s.asked
            /\ \A f \in s.asked \cap FullFeeds : Fetch!Partition(f) \subseteq s.asked \cup Fetch!ToSet(s.todo)
            /\ \A f \in Fetch!ToSet(s.todo) : Fetch!Partition(f) = {}
      BY <1>5, <1>8 DEF r
    <2> QED  BY <1>8, <2>3, <2>4, <2>5 DEF GapFree
  <1>10. s.at \notin Fetch!Ended /\ feedCache' \subseteq Fetch!Feeds
    BY <1>1, <1>3, <1>8 DEF Fetch!Ended, FetchTypeInv
  <1>11. s.kind \in LoadKinds  BY <1>8 DEF r
  <1> QED  BY <1>3, <1>4, <1>6, <1>7, <1>8, <1>9, <1>10, <1>11, OneLoad

\* A load that ends, or is given up.
Ends(r, at) == [r EXCEPT !.at = at]

\* It ends as done only with the parts of its full feeds.
LEMMA EndKeeps ==
    ASSUME FetchInv, NEW l \in Loads, NEW at \in {"done", "failed"},
           load' = [load EXCEPT ![l] = Ends(load[l], at)], load[l].open = {},
           load[l].at \notin Fetch!Ended,
           UNCHANGED <<published, feedCache, shared, req>>,
           at = "done" /\ ~load[l].failed =>
              /\ Fetch!Urls(load[l].kind) \subseteq load[l].asked
              /\ Fetch!Splits(load[l].kind) =>
                    \A f \in load[l].asked \cap FullFeeds : Fetch!Partition(f) \subseteq load[l].asked
    PROVE  FetchInv'
  <1> DEFINE r == load[l]
             s == Ends(r, at)
  <1>1. FetchTypeInv /\ RequestsInv /\ GapFree(FullFeeds, r)  BY DEF FetchInv
  <1>2. r \in LoadStates /\ r.kind \in LoadKinds
    BY <1>1, LoadFields DEF FetchTypeInv, Fetch!Ended
  <1>3. /\ s \in LoadStates /\ s.at = at
        /\ s.kind = r.kind /\ s.todo = r.todo /\ s.open = r.open
        /\ s.asked = r.asked /\ s.got = r.got /\ s.failed = r.failed
    <2>1. s \in LoadStates /\ s.at = at  BY <1>2 DEF LoadStates, Ends, Fetch!Ended
    <2>2. s.kind = r.kind /\ s.todo = r.todo /\ s.open = r.open  BY <1>2 DEF LoadStates, Ends
    <2>3. s.asked = r.asked /\ s.got = r.got /\ s.failed = r.failed  BY <1>2 DEF LoadStates, Ends
    <2> QED  BY <2>1, <2>2, <2>3
  <1>4. load' = [load EXCEPT ![l] = s]  OBVIOUS
  <1> HIDE DEF s
  <1>5. GapFree(FullFeeds, s)  BY <1>1, <1>3 DEF GapFree
  <1>6. /\ feedCache' \subseteq Fetch!Feeds /\ shared' \in [Fetch!Asks -> Loads \cup {None, "kept"}]
        /\ \A f \in Fetch!Feeds : shared'[f] # "kept"
        /\ req' \in [Loads \X Fetch!Asks -> [at : {"none", "send", "sleep"}, n : Nat]]
    BY <1>1 DEF FetchTypeInv
  <1>7. \A a \in Fetch!Asks : req'[<<l, a>>] # Fetch!Quiet => <<a, l>> \in s.open
    BY <1>1, <1>3 DEF RequestsInv
  <1>8. s.open = {} /\ s.kind \in LoadKinds /\ UNCHANGED published  BY <1>2, <1>3
  <1>9. \A m \in Loads, a \in Fetch!Asks : m # l => req'[<<m, a>>] = req[<<m, a>>]  OBVIOUS
  <1> HIDE DEF r
  <1> QED  BY <1>3, <1>4, <1>5, <1>6, <1>7, <1>8, <1>9, OneLoad

\* When nothing is awaited, what was asked for has come, unless it failed.
LEMMA AllCame ==
    ASSUME FetchInv, NEW l \in Loads, load[l].open = {}, ~load[l].failed
    PROVE  /\ load[l].asked \subseteq load[l].got
           /\ load[l].asked \cap FullFeeds \subseteq Fetch!Full(l)
  <1>1. GapFree(FullFeeds, load[l])  BY DEF FetchInv
  <1>2. load[l].asked \subseteq load[l].got  BY <1>1 DEF GapFree
  <1> QED  BY <1>2 DEF FullFeeds, Fetch!Full

\* There is nothing in an empty sequence.
LEMMA NoFeeds == Fetch!ToSet(<<>>) = {}
  BY DEF Fetch!ToSet

\* A load begins.
LEMMA BeginKeeps ==
    ASSUME Fetch!RssFetchAssumption, FetchInv, NEW l \in Loads, NEW kind \in LoadKinds, Fetch!Begin(l, kind)
    PROVE  FetchInv'
  <1>1. load[l].at = "idle" /\ Fetch!AskCatalog(l, kind, "catalog")  BY DEF Fetch!Begin
  <1>2. load[l].open = {}  BY <1>1 DEF FetchInv, RequestsInv, Fetch!Ended
  <1>3. load[l].todo = <<>>  BY <1>1 DEF FetchInv, GapFree
  <1> QED  BY <1>1, <1>2, <1>3, CatalogKeeps

\* A load goes on: with its feeds, the next chunk, the catalog again or the
\* parts of the full feeds, or it ends.
LEMMA GoOnKeeps ==
    ASSUME Fetch!RssFetchAssumption, FetchInv, NEW l \in Loads, Fetch!GoOn(l)
    PROVE  FetchInv'
  <1>1. FetchTypeInv /\ GapFree(FullFeeds, load[l])  BY DEF FetchInv
  <1>2. load[l].at \notin Fetch!Ended /\ load[l].open = {}  BY DEF Fetch!GoOn, Fetch!Ready
  <1>3. load[l].kind \in LoadKinds /\ load[l].todo \in Seq(Fetch!Feeds)
        /\ load[l].at \in {"catalog", "feeds", "split", "parts"}
    BY <1>1, <1>2, LoadFields DEF FetchTypeInv, Fetch!Ended
  <1>4. ASSUME NEW S \in SUBSET Fetch!Feeds
        PROVE  Fetch!SetToSeq(S) \in Seq(Fetch!Feeds) /\ Fetch!ToSet(Fetch!SetToSeq(S)) = S
    <2>1. IsFiniteSet(S)  BY FewFeeds, FS_Subset
    <2>2. PICK s : s = Fetch!SetToSeq(S)  OBVIOUS
    <2>3. s \in Seq(S) /\ Fetch!ToSet(s) = S  BY <2>1, <2>2, ListedSet
    <2>4. s \in Seq(Fetch!Feeds)  BY <2>3
    <2> QED  BY <2>2, <2>3, <2>4
  <1>5. CASE load[l].at = "catalog" /\ Fetch!AskFeeds(l, "feeds", Fetch!SetToSeq(Fetch!Urls(load[l].kind)))
    <2> DEFINE todo == Fetch!SetToSeq(Fetch!Urls(load[l].kind))
    <2>1. Fetch!Urls(load[l].kind) \in SUBSET Fetch!Feeds  BY <1>3, FeedsOf
    <2>2. todo \in Seq(Fetch!Feeds) /\ Fetch!ToSet(todo) = Fetch!Urls(load[l].kind)  BY <1>4, <2>1
    <2>3. Fetch!AskFeeds(l, "feeds", todo)  BY <1>5
    <2> HIDE DEF todo
    <2>4. Fetch!Urls(load[l].kind) \subseteq load[l].asked \cup Fetch!ToSet(todo)  BY <2>2
    <2> QED  BY <1>2, <1>3, <2>2, <2>3, <2>4, FeedsKeep
  <1>6. CASE load[l].todo # <<>> /\ Fetch!AskFeeds(l, load[l].at, load[l].todo)
    <2> DEFINE todo == load[l].todo
               step == load[l].at
    <2>1. step \in {"feeds", "parts"}  BY <1>1, <1>3, <1>6 DEF GapFree
    <2>2. ~load[l].failed /\ step = "feeds" =>
              Fetch!Urls(load[l].kind) \subseteq load[l].asked \cup Fetch!ToSet(todo)
      BY <1>1 DEF GapFree
    <2>3. ~load[l].failed /\ step = "parts" =>
              /\ Fetch!Urls(load[l].kind) \subseteq load[l].asked
              /\ \A f \in load[l].asked \cap FullFeeds :
                    Fetch!Partition(f) \subseteq load[l].asked \cup Fetch!ToSet(todo)
              /\ \A f \in Fetch!ToSet(todo) : Fetch!Partition(f) = {}
      BY <1>1 DEF GapFree
    <2>4. Fetch!AskFeeds(l, step, todo) /\ todo \in Seq(Fetch!Feeds)  BY <1>3, <1>6
    <2> HIDE DEF todo, step
    <2> QED  BY <1>2, <1>3, <2>1, <2>2, <2>3, <2>4, FeedsKeep
  <1>7. CASE load[l].todo = <<>> /\ Fetch!ToSplit(l) /\ Fetch!AskCatalog(l, load[l].kind, "split")
    <2>1. load[l].at = "feeds"  BY <1>7 DEF Fetch!ToSplit
    <2>2. ~load[l].failed => Fetch!Urls(load[l].kind) \subseteq load[l].asked
      BY <1>1, <1>7, <2>1, NoFeeds DEF GapFree
    <2> DEFINE kind == load[l].kind
    <2>3. kind \in LoadKinds /\ Fetch!AskCatalog(l, kind, "split") /\ load[l].todo = <<>>
          /\ (~load[l].failed => Fetch!Urls(kind) \subseteq load[l].asked)
      BY <1>3, <1>7, <2>2
    <2> HIDE DEF kind
    <2> QED  BY <1>2, <2>3, CatalogKeeps
  <1>8. CASE /\ load[l].at = "split"
             /\ Fetch!AskFeeds(l, "parts", Fetch!SetToSeq(Fetch!PartsOf(l) \ load[l].asked))
    <2> DEFINE P == Fetch!PartsOf(l)
               S == P \ load[l].asked
               todo == Fetch!SetToSeq(S)
    <2>1. Fetch!Full(l) \subseteq Fetch!Feeds  BY <1>1, LoadFields DEF Fetch!Full
    <2>2. P \subseteq Fetch!Feeds /\ \A f \in P : Fetch!Partition(f) = {}  BY <2>1, FeedsOf DEF Fetch!PartsOf
    <2>3. S \in SUBSET Fetch!Feeds  BY <2>2
    <2>4. todo \in Seq(Fetch!Feeds) /\ Fetch!ToSet(todo) = S  BY <1>4, <2>3
    <2>5. Fetch!AskFeeds(l, "parts", todo)  BY <1>8
    <2>6. ~load[l].failed => Fetch!Urls(load[l].kind) \subseteq load[l].asked  BY <1>1, <1>8 DEF GapFree
    <2>7. ~load[l].failed =>
              \A f \in load[l].asked \cap FullFeeds : Fetch!Partition(f) \subseteq load[l].asked \cup S
      BY <1>2, AllCame DEF Fetch!PartsOf
    <2> HIDE DEF todo, P
    <2>8. \A f \in Fetch!ToSet(todo) : Fetch!Partition(f) = {}  BY <2>2, <2>4
    <2> HIDE DEF S
    <2> QED  BY <1>2, <1>3, <2>4, <2>5, <2>6, <2>7, <2>8, FeedsKeep
  <1>9. CASE /\ load[l].at \in {"feeds", "parts"} /\ load[l].todo = <<>> /\ ~Fetch!ToSplit(l)
             /\ load' = [load EXCEPT ![l].at = IF Fetch!Result(l) = {} THEN "failed" ELSE "done"]
             /\ UNCHANGED <<published, feedCache, shared, req, troubles>>
    <2> DEFINE at == IF Fetch!Result(l) = {} THEN "failed" ELSE "done"
    <2>1. load' = [load EXCEPT ![l] = Ends(load[l], at)]  BY <1>9 DEF Ends
    <2>2. at \in {"done", "failed"}  OBVIOUS
    <2>3. ~load[l].failed => Fetch!Urls(load[l].kind) \subseteq load[l].asked
      BY <1>1, <1>9, NoFeeds DEF GapFree
    <2>4. ~load[l].failed /\ Fetch!Splits(load[l].kind) =>
              \A f \in load[l].asked \cap FullFeeds : Fetch!Partition(f) \subseteq load[l].asked
      <3>1. CASE load[l].at = "feeds"
        <4>1. Fetch!Splits(load[l].kind) => Fetch!Full(l) = {}  BY <1>9, <3>1 DEF Fetch!ToSplit
        <4> QED  BY <4>1, <1>2, AllCame
      <3>2. CASE load[l].at = "parts"
        BY <1>1, <1>9, <3>2, NoFeeds DEF GapFree
      <3> QED  BY <3>1, <3>2, <1>9
    <2> HIDE DEF at
    <2> QED  BY <1>2, <1>9, <2>1, <2>2, <2>3, <2>4, EndKeeps
  <1> QED  BY <1>5, <1>6, <1>7, <1>8, <1>9 DEF Fetch!GoOn

\* An aborted load ends.
LEMMA GiveUpKeeps ==
    ASSUME FetchInv, NEW l \in Loads, Fetch!GiveUp(l)
    PROVE  FetchInv'
  <1>1. load' = [load EXCEPT ![l] = Ends(load[l], "failed")]  BY DEF Fetch!GiveUp, Ends
  <1>2. load[l].at \notin Fetch!Ended /\ load[l].open = {} /\ UNCHANGED <<published, feedCache, shared, req>>
    BY DEF Fetch!GiveUp
  <1> QED  BY <1>1, <1>2, EndKeeps

\* An aborted load.
Given(r) == [r EXCEPT !.live = FALSE]

\* A load is aborted: its requests still end by themselves.
LEMMA AbortKeeps ==
    ASSUME FetchInv, NEW l \in Loads, Fetch!Abort(l)
    PROVE  FetchInv'
  <1> DEFINE r == load[l]
             s == Given(r)
  <1>1. FetchTypeInv /\ RequestsInv /\ GapFree(FullFeeds, r)  BY DEF FetchInv
  <1>2. r \in LoadStates /\ r.kind \in LoadKinds
    BY <1>1, LoadFields DEF FetchTypeInv, Fetch!Ended, Fetch!Abort
  <1>3. /\ s \in LoadStates /\ s.at = r.at
        /\ s.kind = r.kind /\ s.todo = r.todo /\ s.open = r.open
        /\ s.asked = r.asked /\ s.got = r.got /\ s.failed = r.failed
    <2>1. s \in LoadStates /\ s.at = r.at  BY <1>2 DEF LoadStates, Given
    <2>2. s.kind = r.kind /\ s.todo = r.todo /\ s.open = r.open  BY <1>2 DEF LoadStates, Given
    <2>3. s.asked = r.asked /\ s.got = r.got /\ s.failed = r.failed  BY <1>2 DEF LoadStates, Given
    <2> QED  BY <2>1, <2>2, <2>3
  <1>4. load' = [load EXCEPT ![l] = s] /\ UNCHANGED <<published, feedCache, shared, req>>
    BY DEF Fetch!Abort, Given
  <1> HIDE DEF s
  <1>5. GapFree(FullFeeds, s)  BY <1>1, <1>3 DEF GapFree
  <1>6. /\ feedCache' \subseteq Fetch!Feeds /\ shared' \in [Fetch!Asks -> Loads \cup {None, "kept"}]
        /\ \A f \in Fetch!Feeds : shared'[f] # "kept"
        /\ req' \in [Loads \X Fetch!Asks -> [at : {"none", "send", "sleep"}, n : Nat]]
    BY <1>1, <1>4 DEF FetchTypeInv
  <1>7. \A a \in Fetch!Asks : req'[<<l, a>>] # Fetch!Quiet => <<a, l>> \in s.open
    BY <1>1, <1>3, <1>4 DEF RequestsInv
  <1>8. /\ s.at \in Fetch!Ended => s.open = {}
        /\ \A w \in s.open : w[1] = Fetch!Catalog => s.open = {w}
    BY <1>1, <1>3 DEF RequestsInv
  <1>9. \A m \in Loads, a \in Fetch!Asks : m # l => req'[<<m, a>>] = req[<<m, a>>]  BY <1>4
  <1>10. s.kind \in LoadKinds /\ UNCHANGED published  BY <1>2, <1>3, <1>4
  <1> HIDE DEF r
  <1> QED  BY <1>3, <1>4, <1>5, <1>6, <1>7, <1>8, <1>9, <1>10, OneLoad

\* What is full does not change.
LEMMA FullStays == UNCHANGED published => FullFeeds' = FullFeeds
  BY DEF FullFeeds, Fetch!Parsed, Fetch!Listed, Fetch!In

\* An attempt that is tried again changes neither the loads nor whose it is.
LEMMA AttemptKeeps ==
    ASSUME FetchInv, NEW l \in Loads, NEW a \in Fetch!Asks, Fetch!Refused(l, a) \/ Fetch!Retry(l, a)
    PROVE  FetchInv'
  <1>1. FetchTypeInv /\ RequestsInv /\ \A m \in Loads : GapFree(FullFeeds, load[m])  BY DEF FetchInv
  <1>2. UNCHANGED <<published, feedCache, shared, load>>  BY DEF Fetch!Refused, Fetch!Retry
  <1>3. req[<<l, a>>].at # "none" /\ <<l, a>> \in Loads \X Fetch!Asks  BY DEF Fetch!Refused, Fetch!Retry
  <1>4. PICK q \in [at : {"none", "send", "sleep"}, n : Nat] : req' = [req EXCEPT ![<<l, a>>] = q]
    <2>1. req[<<l, a>>] \in [at : {"none", "send", "sleep"}, n : Nat]  BY <1>1, <1>3 DEF FetchTypeInv
    <2>2. CASE Fetch!Refused(l, a)
      <3>1. req' = [req EXCEPT ![<<l, a>>] = [req[<<l, a>>] EXCEPT !.at = "sleep"]]
        BY <2>2 DEF Fetch!Refused
      <3>2. [req[<<l, a>>] EXCEPT !.at = "sleep"] \in [at : {"none", "send", "sleep"}, n : Nat]  BY <2>1
      <3> QED  BY <3>1, <3>2
    <2>3. CASE Fetch!Retry(l, a)
      <3>1. req' = [req EXCEPT ![<<l, a>>] = [at |-> "send", n |-> req[<<l, a>>].n + 1]]
        BY <2>3 DEF Fetch!Retry
      <3>2. [at |-> "send", n |-> req[<<l, a>>].n + 1] \in [at : {"none", "send", "sleep"}, n : Nat]  BY <2>1
      <3> QED  BY <3>1, <3>2
    <2> QED  BY <2>2, <2>3
  <1>5. req' \in [Loads \X Fetch!Asks -> [at : {"none", "send", "sleep"}, n : Nat]]
    BY <1>1, <1>4 DEF FetchTypeInv
  <1>6. FetchTypeInv'  BY <1>1, <1>2, <1>5 DEF FetchTypeInv
  <1>7. \A m \in Loads, b \in Fetch!Asks : req'[<<m, b>>] # Fetch!Quiet => req[<<m, b>>] # Fetch!Quiet
    <2> TAKE m \in Loads, b \in Fetch!Asks
    <2>1. CASE m = l /\ b = a  BY <1>3, <2>1 DEF Fetch!Quiet
    <2>2. CASE ~(m = l /\ b = a)
      <3>1. <<m, b>> # <<l, a>> /\ <<m, b>> \in Loads \X Fetch!Asks  BY <2>2
      <3>2. req'[<<m, b>>] = req[<<m, b>>]  BY <1>1, <1>4, <3>1 DEF FetchTypeInv
      <3> QED  BY <3>2
    <2> QED  BY <2>1, <2>2
  <1>8. RequestsInv'  BY <1>1, <1>2, <1>7 DEF RequestsInv
  <1>9. \A m \in Loads : GapFree(FullFeeds', load'[m])  BY <1>1, <1>2, FullStays
  <1> QED  BY <1>6, <1>8, <1>9 DEF FetchInv

\* What an answer makes of a load that awaits it.
Lost(r) == [r EXCEPT !.at = "failed", !.open = {}]
Learns(r, w, ok) == [r EXCEPT !.open = @ \ {w}, !.failed = @ \/ ~ok,
                             !.got = IF ok /\ w[1] # Fetch!Catalog THEN @ \cup {w[1]} ELSE @]

\* A load whose catalog failed.
LEMMA LostFields ==
    ASSUME NEW r \in LoadStates, NEW s, s = Lost(r)
    PROVE  /\ s \in LoadStates /\ s.at = "failed" /\ s.open = {} /\ s.kind = r.kind /\ s.todo = r.todo
           /\ s.asked = r.asked /\ s.got = r.got /\ s.failed = r.failed
  <1>1. s \in LoadStates  BY DEF LoadStates, Lost, Fetch!Ended
  <1>2. s.at = "failed" /\ s.open = {} /\ s.kind = r.kind /\ s.todo = r.todo  BY DEF LoadStates, Lost
  <1>3. s.asked = r.asked /\ s.got = r.got /\ s.failed = r.failed  BY DEF LoadStates, Lost
  <1> QED  BY <1>1, <1>2, <1>3

\* A load one of whose feeds has come or failed, or whose catalog has come.
LEMMA HeardFields ==
    ASSUME NEW r \in LoadStates, NEW a \in Fetch!Asks, NEW l \in Loads, NEW ok \in BOOLEAN,
           NEW s, s = Learns(r, <<a, l>>, ok)
    PROVE  /\ s \in LoadStates /\ s.at = r.at /\ s.open = r.open \ {<<a, l>>} /\ s.kind = r.kind
           /\ s.todo = r.todo /\ s.asked = r.asked
           /\ s.got = (IF ok /\ a # Fetch!Catalog THEN r.got \cup {a} ELSE r.got)
           /\ s.failed = (r.failed \/ ~ok)
  <1> DEFINE new == IF ok /\ a # Fetch!Catalog THEN r.got \cup {a} ELSE r.got
             open == r.open \ {<<a, l>>}
             failed == r.failed \/ ~ok
  <1>1. s = [r EXCEPT !.open = open, !.failed = failed, !.got = new]
    <2>1. <<a, l>>[1] = a  OBVIOUS
    <2> QED  BY <2>1 DEF Learns
  <1>2. a # Fetch!Catalog => a \in Fetch!Feeds  BY DEF Fetch!Asks
  <1>3. r.got \subseteq Fetch!Feeds /\ r.open \subseteq Fetch!Asks \X Loads /\ r.failed \in BOOLEAN
    BY DEF LoadStates
  <1>4. new \in SUBSET Fetch!Feeds /\ open \in SUBSET (Fetch!Asks \X Loads) /\ failed \in BOOLEAN
    BY <1>2, <1>3
  <1> HIDE DEF new, open, failed
  <1>5. s \in LoadStates  BY <1>1, <1>4 DEF LoadStates
  <1>6. s.at = r.at /\ s.open = open /\ s.kind = r.kind /\ s.todo = r.todo  BY <1>1 DEF LoadStates
  <1>7. s.asked = r.asked /\ s.got = new /\ s.failed = failed  BY <1>1 DEF LoadStates
  <1> QED  BY <1>5, <1>6, <1>7 DEF new, open, failed

\* An answer, or a request that failed.
LEMMA SettleKeeps ==
    ASSUME Fetch!RssFetchAssumption, FetchInv, NEW l \in Loads, NEW a \in Fetch!Asks, NEW ok \in BOOLEAN,
           Fetch!Settle(l, a, ok), feedCache' \subseteq Fetch!Feeds
    PROVE  FetchInv'
  <1> DEFINE w == <<a, l>>
  <1>1. FetchTypeInv /\ RequestsInv /\ \A m \in Loads : GapFree(FullFeeds, load[m])  BY DEF FetchInv
  <1>2. /\ req' = [req EXCEPT ![<<l, a>>] = Fetch!Quiet] /\ shared' = Fetch!Unshared(l, a, ok)
        /\ load' = Fetch!Told(l, a, ok) /\ UNCHANGED published
    BY DEF Fetch!Settle
  <1>3. Fetch!Catalog \notin Fetch!Feeds  BY FewFeeds
  <1>4. \A m \in Loads : load'[m] = IF w \notin load[m].open THEN load[m]
                                    ELSE IF a = Fetch!Catalog /\ ~ok THEN Lost(load[m])
                                    ELSE Learns(load[m], w, ok)
    <2>1. w[1] = a  OBVIOUS
    <2> TAKE m \in Loads
    <2>2. CASE w \notin load[m].open  BY <1>2, <2>2 DEF Fetch!Told
    <2>3. CASE w \in load[m].open /\ a = Fetch!Catalog /\ ~ok  BY <1>2, <2>3 DEF Fetch!Told, Lost
    <2>4. CASE w \in load[m].open /\ ~(a = Fetch!Catalog /\ ~ok)
      BY <1>2, <2>1, <2>4 DEF Fetch!Told, Learns
    <2> QED  BY <2>2, <2>3, <2>4
  <1>5. DOMAIN load' = Loads /\ load' = [m \in Loads |-> load'[m]]  BY <1>2 DEF Fetch!Told
  <1>6. \A m \in Loads, b \in Fetch!Asks :
           req'[<<m, b>>] # Fetch!Quiet => <<b, m>> # w /\ req[<<m, b>>] # Fetch!Quiet
    <2> TAKE m \in Loads, b \in Fetch!Asks
    <2>0. <<m, b>> \in Loads \X Fetch!Asks  OBVIOUS
    <2>1. CASE <<m, b>> = <<l, a>>  BY <1>1, <1>2, <2>0, <2>1 DEF FetchTypeInv
    <2>2. CASE <<m, b>> # <<l, a>>
      <3>1. req'[<<m, b>>] = req[<<m, b>>]  BY <1>1, <1>2, <2>0, <2>2 DEF FetchTypeInv
      <3> QED  BY <2>2, <3>1
    <2> QED  BY <2>1, <2>2
  <1>7. ASSUME NEW m \in Loads
        PROVE  /\ load'[m] \in LoadStates /\ (load'[m].at # "idle" => load'[m].kind \in LoadKinds)
               /\ \A b \in Fetch!Asks : req'[<<m, b>>] # Fetch!Quiet => <<b, m>> \in load'[m].open
               /\ load'[m].at \in Fetch!Ended => load'[m].open = {}
               /\ \A v \in load'[m].open : v[1] = Fetch!Catalog => load'[m].open = {v}
               /\ GapFree(FullFeeds, load'[m])
    <2> DEFINE r == load[m]
               s == load'[m]
    <2>1. /\ r \in LoadStates /\ r.asked \subseteq Fetch!Feeds /\ r.failed \in BOOLEAN
          /\ GapFree(FullFeeds, r) /\ (r.at # "idle" => r.kind \in LoadKinds)
      BY <1>1, LoadFields DEF FetchTypeInv
    <2>2. /\ \A b \in Fetch!Asks : req'[<<m, b>>] # Fetch!Quiet => <<b, m>> \in r.open /\ <<b, m>> # w
          /\ r.at \in Fetch!Ended => r.open = {}
          /\ \A v \in r.open : v[1] = Fetch!Catalog => r.open = {v}
      BY <1>1, <1>6 DEF RequestsInv
    <2>3. w[1] = a  OBVIOUS
    <2>4. \A f, n : <<f, n>> = w => f = a  OBVIOUS
    <2> HIDE DEF w
    <2>5. CASE w \notin r.open
      <3>1. s = r  BY <1>4, <2>5
      <3> HIDE DEF s, r
      <3>2. /\ s \in LoadStates /\ (s.at # "idle" => s.kind \in LoadKinds)
            /\ \A b \in Fetch!Asks : req'[<<m, b>>] # Fetch!Quiet => <<b, m>> \in s.open
            /\ s.at \in Fetch!Ended => s.open = {}
            /\ \A v \in s.open : v[1] = Fetch!Catalog => s.open = {v}
            /\ GapFree(FullFeeds, s)
        BY <2>1, <2>2, <3>1
      <3> QED  BY <3>2 DEF s
    <2>6. CASE w \in r.open /\ a = Fetch!Catalog /\ ~ok
      <3>1. s = Lost(r)  BY <1>4, <2>6
      <3> HIDE DEF s, r
      <3>2. /\ s \in LoadStates /\ s.at = "failed" /\ s.open = {} /\ s.kind = r.kind /\ s.todo = r.todo
            /\ s.asked = r.asked /\ s.got = r.got /\ s.failed = r.failed
        BY <2>1, <3>1, LostFields
      <3>3. r.open = {w} /\ r.at # "idle"  BY <2>2, <2>3, <2>6 DEF Fetch!Ended
      <3>4. ~r.failed => r.asked \ r.got = {}
        BY <1>3, <2>1, <2>4, <2>6, <3>3 DEF GapFree
      <3>5. GapFree(FullFeeds, s)  BY <3>2, <3>4 DEF GapFree
      <3>6. /\ s.at # "idle" => s.kind \in LoadKinds
            /\ \A b \in Fetch!Asks : req'[<<m, b>>] # Fetch!Quiet => <<b, m>> \in s.open
            /\ s.at \in Fetch!Ended => s.open = {}
            /\ \A v \in s.open : v[1] = Fetch!Catalog => s.open = {v}
        BY <2>1, <2>2, <3>2, <3>3
      <3> QED  BY <3>2, <3>5, <3>6 DEF s
    <2>7. CASE w \in r.open /\ ~(a = Fetch!Catalog /\ ~ok)
      <3>1. s = Learns(r, w, ok)  BY <1>4, <2>7
      <3> HIDE DEF s, r
      <3>2. /\ s \in LoadStates /\ s.at = r.at /\ s.open = r.open \ {w} /\ s.kind = r.kind
            /\ s.todo = r.todo /\ s.asked = r.asked
            /\ s.got = (IF ok /\ a # Fetch!Catalog THEN r.got \cup {a} ELSE r.got)
            /\ s.failed = (r.failed \/ ~ok)
        BY <2>1, <3>1, HeardFields DEF w
      <3>3. ~s.failed => ok /\ ~r.failed  BY <2>1, <3>2
      <3>4. ASSUME ~s.failed, NEW f \in s.asked \ s.got  PROVE \E n \in Loads : <<f, n>> \in s.open
        <4>1. f \in r.asked \ r.got /\ f # a  BY <1>3, <2>1, <3>2, <3>3, <3>4
        <4>2. PICK n \in Loads : <<f, n>> \in r.open  BY <2>1, <3>3, <3>4, <4>1 DEF GapFree
        <4> QED  BY <2>4, <3>2, <4>1, <4>2
      <3>5. GapFree(FullFeeds, s)  BY <2>1, <3>2, <3>3, <3>4 DEF GapFree
      <3>6. r.at \notin Fetch!Ended /\ r.at # "idle"  BY <2>2, <2>7 DEF Fetch!Ended
      <3>7. /\ s.at # "idle" => s.kind \in LoadKinds
            /\ \A b \in Fetch!Asks : req'[<<m, b>>] # Fetch!Quiet => <<b, m>> \in s.open
            /\ s.at \in Fetch!Ended => s.open = {}
        BY <2>1, <2>2, <3>2, <3>6
      <3>8. \A v \in s.open : v[1] = Fetch!Catalog => s.open = {v}
        BY <2>2, <2>7, <3>2
      <3> QED  BY <3>2, <3>5, <3>7, <3>8 DEF s
    <2> QED  BY <2>5, <2>6, <2>7
  <1>8. shared' \in [Fetch!Asks -> Loads \cup {None, "kept"}] /\ \A f \in Fetch!Feeds : shared'[f] # "kept"
    <2>1. /\ shared \in [Fetch!Asks -> Loads \cup {None, "kept"}] /\ \A f \in Fetch!Feeds : shared[f] # "kept"
          /\ None # "kept"
      BY <1>1 DEF FetchTypeInv, Fetch!RssFetchAssumption
    <2>2. \A f \in Fetch!Feeds : f \in Fetch!Asks  BY DEF Fetch!Asks
    <2>3. CASE Fetch!Signalled(load[l].kind)  BY <1>2, <2>1, <2>3 DEF Fetch!Unshared
    <2>4. CASE ~Fetch!Signalled(load[l].kind) /\ (a # Fetch!Catalog \/ ~ok)
      <3>1. shared' = [shared EXCEPT ![a] = None]  BY <1>2, <2>4 DEF Fetch!Unshared
      <3> QED  BY <2>1, <2>2, <3>1
    <2>5. CASE ~Fetch!Signalled(load[l].kind) /\ ~(a # Fetch!Catalog \/ ~ok)
      <3>1. shared' = [shared EXCEPT ![a] = IF shared[a] = l THEN "kept" ELSE shared[a]]
        BY <1>2, <2>5 DEF Fetch!Unshared
      <3> QED  BY <1>3, <2>1, <2>2, <2>5, <3>1
    <2> QED  BY <2>3, <2>4, <2>5
  <1>9. FetchTypeInv'
    <2>1. req' \in [Loads \X Fetch!Asks -> [at : {"none", "send", "sleep"}, n : Nat]]
      <3>1. Fetch!Quiet \in [at : {"none", "send", "sleep"}, n : Nat]  BY DEF Fetch!Quiet
      <3> QED  BY <1>1, <1>2, <3>1 DEF FetchTypeInv
    <2>2. load' \in [Loads -> LoadStates]  BY <1>5, <1>7
    <2> QED  BY <1>1, <1>2, <1>7, <1>8, <2>1, <2>2 DEF FetchTypeInv
  <1>10. RequestsInv'  BY <1>7 DEF RequestsInv
  <1>11. \A m \in Loads : GapFree(FullFeeds', load'[m])  BY <1>2, <1>7, FullStays
  <1> QED  BY <1>9, <1>10, <1>11 DEF FetchInv

\* Caches that are emptied, and requests nobody joins any more.
LEMMA SameLoadsKeep ==
    ASSUME FetchInv, UNCHANGED <<published, req, load>>, feedCache' \subseteq Fetch!Feeds,
           shared' \in [Fetch!Asks -> Loads \cup {None, "kept"}], \A f \in Fetch!Feeds : shared'[f] # "kept"
    PROVE  FetchInv'
  <1>1. FetchTypeInv'  BY DEF FetchInv, FetchTypeInv
  <1>2. RequestsInv'  BY DEF FetchInv, RequestsInv
  <1>3. \A m \in Loads : GapFree(FullFeeds', load'[m])  BY FullStays DEF FetchInv
  <1> QED  BY <1>1, <1>2, <1>3 DEF FetchInv

\* Every step keeps what the loads keep.
LEMMA FetchKept ==
    ASSUME Fetch!RssFetchAssumption, FetchInv, [Fetch!Next]_(Fetch!vars)
    PROVE  FetchInv'
  <1>1. FetchTypeInv  BY DEF FetchInv
  <1>2. ASSUME NEW l \in Loads, NEW kind \in LoadKinds, Fetch!Begin(l, kind)  PROVE FetchInv'
    BY <1>2, BeginKeeps
  <1>3. ASSUME NEW l \in Loads, Fetch!GoOn(l) \/ Fetch!Abort(l) \/ Fetch!GiveUp(l)  PROVE FetchInv'
    BY <1>3, GoOnKeeps, AbortKeeps, GiveUpKeeps
  <1>4. ASSUME NEW l \in Loads, NEW a \in Fetch!Asks, Fetch!Refused(l, a) \/ Fetch!Retry(l, a)  PROVE FetchInv'
    BY <1>4, AttemptKeeps
  <1>5. ASSUME NEW l \in Loads, NEW a \in Fetch!Asks, Fetch!Answered(l, a)  PROVE FetchInv'
    <2>1. Fetch!Settle(l, a, TRUE)  BY <1>5 DEF Fetch!Answered
    <2>2. feedCache' \subseteq Fetch!Feeds  BY <1>1, <1>5 DEF Fetch!Answered, FetchTypeInv, Fetch!Asks
    <2> QED  BY <2>1, <2>2, SettleKeeps
  <1>6. ASSUME NEW l \in Loads, NEW a \in Fetch!Asks, Fetch!Failed(l, a)  PROVE FetchInv'
    <2>1. Fetch!Settle(l, a, FALSE)  BY <1>6 DEF Fetch!Failed
    <2>2. feedCache' \subseteq Fetch!Feeds  BY <1>1, <1>6 DEF Fetch!Failed, FetchTypeInv
    <2> QED  BY <2>1, <2>2, SettleKeeps
  <1>7. CASE Fetch!Forget
    <2>1. UNCHANGED <<published, req, load>> /\ feedCache' \subseteq Fetch!Feeds  BY <1>7 DEF Fetch!Forget
    <2>2. CASE shared' = [a \in Fetch!Asks |-> None]
      <3>1. \A f \in Fetch!Feeds : f \in Fetch!Asks  BY DEF Fetch!Asks
      <3>2. None # "kept"  BY DEF Fetch!RssFetchAssumption
      <3> QED  BY <2>1, <2>2, <3>1, <3>2, SameLoadsKeep
    <2>3. CASE UNCHANGED shared  BY <1>1, <2>1, <2>3, SameLoadsKeep DEF FetchTypeInv
    <2> QED  BY <1>7, <2>2, <2>3 DEF Fetch!Forget
  <1>8. CASE UNCHANGED Fetch!vars
    <2>1. UNCHANGED <<published, req, load, feedCache, shared>>  BY <1>8 DEF Fetch!vars
    <2> QED  BY <1>1, <2>1, SameLoadsKeep DEF FetchTypeInv
  <1> QED  BY <1>2, <1>3, <1>4, <1>5, <1>6, <1>7, <1>8 DEF Fetch!Next

\* What a load has when it is done.
LEMMA DoneHas ==
    ASSUME Fetch!RssFetchAssumption, FetchInv, NEW l \in Loads, load[l].at = "done", ~load[l].failed,
           Fetch!Splits(load[l].kind), NEW i \in Items, published[i].readable, ~Fetch!Beyond(l, i)
    PROVE  i \in Fetch!Result(l)
  <1>1. FetchTypeInv /\ RequestsInv /\ GapFree(FullFeeds, load[l])  BY DEF FetchInv
  <1>2. load[l].kind \in LoadKinds /\ published[i] \in Fetch!Published  BY <1>1 DEF FetchTypeInv
  <1>3. load[l].open = {}  BY <1>1 DEF RequestsInv, Fetch!Ended
  <1>4. load[l].asked \subseteq load[l].got  BY <1>3, AllCame
  <1>5. /\ Fetch!Urls(load[l].kind) \subseteq load[l].asked
        /\ \A f \in load[l].asked \cap FullFeeds : Fetch!Partition(f) \subseteq load[l].asked
    BY <1>1 DEF GapFree
  <1>6. i \in Fetch!Listed(OwnPart(i))  BY DEF Fetch!Beyond, OwnPart
  <1>7. PICK f \in Fetch!Urls(load[l].kind) \ {Fetch!All} : Fetch!In(f, i) /\ ~Fetch!LooksShort(f)
    BY DEF Fetch!Beyond
  <1>8. CASE i \in Fetch!Listed(f)
    <2>1. i \in Fetch!Parsed(f)  BY <1>8 DEF Fetch!Parsed
    <2> QED  BY <1>4, <1>5, <1>7, <2>1 DEF Fetch!Result
  <1>9. CASE i \notin Fetch!Listed(f)
    <2>1. Fetch!Cardinality(Fetch!Listed(f)) = Limit  BY <1>7, <1>9, ListsFull
    <2>2. Fetch!Cardinality(Fetch!Parsed(f)) = Limit  BY <1>7, <2>1 DEF Fetch!LooksShort
    <2>3. f \in Fetch!Feeds  BY <1>2, <1>7, FeedsOf
    <2>4. f \in load[l].asked \cap FullFeeds  BY <1>5, <1>7, <2>2, <2>3 DEF FullFeeds
    <2>5. OwnPart(i) \in Fetch!Partition(f)  BY <1>2, <1>7, OwnParts
    <2>6. OwnPart(i) \in load[l].got  BY <1>4, <1>5, <2>4, <2>5
    <2>7. i \in Fetch!Parsed(OwnPart(i))  BY <1>6 DEF Fetch!Parsed
    <2> QED  BY <2>6, <2>7 DEF Fetch!Result
  <1> QED  BY <1>8, <1>9

\* What the loads keep says what the property says.
LEMMA FetchSettles ==
    ASSUME Fetch!RssFetchAssumption, FetchInv
    PROVE  Fetch!FeedsFetched
  <1>1. Fetch!WholeLoad  BY DoneHas DEF Fetch!WholeLoad
  <1>2. Fetch!NothingLeft  BY DEF FetchInv, RequestsInv, Fetch!NothingLeft
  <1> QED  BY <1>1, <1>2 DEF Fetch!FeedsFetched

\* A step of the screens is one of the loads, or leaves them alone.
LEMMA FetchStep ==
    ASSUME [ScreensNext]_screensVars
    PROVE  [Fetch!Next]_(Fetch!vars)
  BY DEF ScreensNext, screensVars, fetchVars, Fetch!vars

\* A load of the public feeds that ends without a failed request has every
\* event of its format, whatever the limit, the chunks, the cache and the
\* requests it shared: what it asked for has come, and each part of a feed that
\* came back full was asked for.  A load that has ended leaves no request.
THEOREM FeedsAreFetched == ScreensSpec => []FeedsFetched
  <1>1. ScreensInit => FetchInv
    BY ScreensConstants, FetchBegins DEF ScreensInit
  <1>2. FetchInv /\ [ScreensNext]_screensVars => FetchInv'
    BY ScreensConstants, FetchStep, FetchKept
  <1>3. FetchInv => FeedsFetched
    BY ScreensConstants, FetchSettles DEF FeedsFetched
  <1> QED  BY <1>1, <1>2, <1>3, PTL DEF ScreensSpec, screensVars

\* An attempt that is repeated was not the last one.
Tried(q) == q.n <= Attempts /\ (q.at = "sleep" => q.n < Attempts)

\* The rest of the loads' state: what a load awaits is under way, is what it
\* asked for, and is joined only while it is under way.
FetchSides ==
    /\ troubles \in 0..MaxTroubles
    /\ \A m \in Loads, a \in Fetch!Asks : Tried(req[<<m, a>>])
    /\ \A m \in Loads : load[m].got \subseteq load[m].asked
    /\ \A m, n \in Loads, a \in Fetch!Asks : <<a, n>> \in load[m].open => req[<<n, a>>] # Fetch!Quiet
    /\ \A m, n \in Loads, f \in Fetch!Feeds : <<f, n>> \in load[m].open => f \in load[m].asked
    /\ \A m \in Loads, a \in Fetch!Asks :
          shared[a] = m => req[<<m, a>>] # Fetch!Quiet /\ ~Fetch!Signalled(load[m].kind)

\* What asking does to them.
AskedRight(l, kind, awaited) ==
    /\ \A m \in Loads, a \in Fetch!Asks : req[<<m, a>>] # Fetch!Quiet => req'[<<m, a>>] # Fetch!Quiet
    /\ \A m \in Loads, a \in Fetch!Asks : Tried(req'[<<m, a>>])
    /\ \A m \in Loads, a \in Fetch!Asks : <<a, m>> \in awaited => req'[<<m, a>>] # Fetch!Quiet
    /\ \A m \in Loads, a \in Fetch!Asks : shared'[a] = m /\ m # l => shared[a] = m
    /\ \A a \in Fetch!Asks : shared'[a] = l => req'[<<l, a>>] # Fetch!Quiet /\ ~Fetch!Signalled(kind)

\* It leaves them right.
LEMMA AskSides ==
    ASSUME Fetch!RssFetchAssumption, FetchInv, FetchSides, NEW l \in Loads, load[l].open = {},
           NEW kind, NEW asks \in SUBSET Fetch!Asks, Fetch!Ask(l, kind, asks),
           NEW awaited, awaited = Fetch!Awaited(l, kind, asks)
    PROVE  AskedRight(l, kind, awaited)
  <1> DEFINE joined == Fetch!Joined(kind, asks)
             new == asks \ joined
             first == [at |-> "send", n |-> 1]
  <1>1. \A a \in joined : a \in asks /\ shared[a] # None  BY DEF Fetch!Joined
  <1>2. /\ req' = [x \in Loads \X Fetch!Asks |-> IF x[1] = l /\ x[2] \in new THEN first ELSE req[x]]
        /\ shared' = IF Fetch!Signalled(kind) THEN shared
                     ELSE [a \in Fetch!Asks |-> IF a \in new THEN l ELSE shared[a]]
    BY DEF Fetch!Ask
  <1>3. awaited = {<<a, l>> : a \in new} \cup {<<a, shared[a]>> : a \in {b \in joined : shared[b] # "kept"}}
    BY DEF Fetch!Awaited
  <1>4. first # Fetch!Quiet /\ Tried(first)
    <2>1. first.at = "send" /\ first.n = 1 /\ Fetch!Quiet.at = "none"  BY DEF Fetch!Quiet
    <2>2. 1 <= Attempts  BY DEF Fetch!RssFetchAssumption
    <2> QED  BY <2>1, <2>2 DEF Tried
  <1> HIDE DEF joined, new, first
  <1>5. \A m \in Loads, a \in Fetch!Asks :
           req'[<<m, a>>] = IF m = l /\ a \in new THEN first ELSE req[<<m, a>>]
    <2> TAKE m \in Loads, a \in Fetch!Asks
    <2>1. <<m, a>> \in Loads \X Fetch!Asks /\ <<m, a>>[1] = m /\ <<m, a>>[2] = a  OBVIOUS
    <2> QED  BY <1>2, <2>1
  <1>6. \A a \in Fetch!Asks : req[<<l, a>>] = Fetch!Quiet  BY DEF FetchInv, RequestsInv
  <1>7. \A a \in Fetch!Asks : shared[a] # l  BY <1>6 DEF FetchSides
  <1>8. \A m \in Loads, a \in Fetch!Asks : req[<<m, a>>] # Fetch!Quiet => req'[<<m, a>>] # Fetch!Quiet
    BY <1>4, <1>5
  <1>9. \A m \in Loads, a \in Fetch!Asks : Tried(req'[<<m, a>>])
    BY <1>4, <1>5 DEF FetchSides
  <1>10. ASSUME NEW m \in Loads, NEW a \in Fetch!Asks, <<a, m>> \in awaited
         PROVE  req'[<<m, a>>] # Fetch!Quiet
    <2>1. CASE a \in new /\ m = l  BY <1>4, <1>5, <2>1
    <2>2. CASE a \in joined /\ m = shared[a]
      <3>1. req[<<m, a>>] # Fetch!Quiet  BY <2>2 DEF FetchSides
      <3> QED  BY <1>8, <3>1
    <2> QED  BY <1>3, <1>10, <2>1, <2>2
  <1>11. ASSUME NEW m \in Loads, NEW a \in Fetch!Asks, shared'[a] = m, m # l
         PROVE  shared[a] = m
    BY <1>2, <1>11
  <1>12. ASSUME NEW a \in Fetch!Asks, shared'[a] = l
         PROVE  req'[<<l, a>>] # Fetch!Quiet /\ ~Fetch!Signalled(kind)
    <2>1. ~Fetch!Signalled(kind) /\ a \in new  BY <1>2, <1>7, <1>12
    <2> QED  BY <1>4, <1>5, <2>1
  <1> QED  BY <1>8, <1>9, <1>10, <1>11, <1>12 DEF AskedRight

\* Only one load changes.
LEMMA OneSide ==
    ASSUME FetchInv, FetchSides, UNCHANGED troubles, NEW l \in Loads, NEW s,
           load' = [load EXCEPT ![l] = s], AskedRight(l, s.kind, s.open),
           s.got \subseteq s.asked,
           \A f \in Fetch!Feeds, n \in Loads : <<f, n>> \in s.open => f \in s.asked
    PROVE  FetchSides'
  <1>1. load'[l] = s /\ \A m \in Loads : m # l => load'[m] = load[m]  BY DEF FetchInv, FetchTypeInv
  <1>2. troubles' \in 0..MaxTroubles  BY DEF FetchSides
  <1>3. \A m \in Loads, a \in Fetch!Asks : Tried(req'[<<m, a>>])  BY DEF AskedRight
  <1>4. \A m \in Loads : load'[m].got \subseteq load'[m].asked  BY <1>1 DEF FetchSides
  <1>5. ASSUME NEW m \in Loads, NEW n \in Loads, NEW a \in Fetch!Asks, <<a, n>> \in load'[m].open
        PROVE  req'[<<n, a>>] # Fetch!Quiet
    <2>1. CASE m = l  BY <1>1, <1>5, <2>1 DEF AskedRight
    <2>2. CASE m # l
      <3>1. req[<<n, a>>] # Fetch!Quiet  BY <1>1, <1>5, <2>2 DEF FetchSides
      <3> QED  BY <3>1 DEF AskedRight
    <2> QED  BY <2>1, <2>2
  <1>6. \A m, n \in Loads, f \in Fetch!Feeds : <<f, n>> \in load'[m].open => f \in load'[m].asked
    BY <1>1 DEF FetchSides
  <1>7. ASSUME NEW m \in Loads, NEW a \in Fetch!Asks, shared'[a] = m
        PROVE  req'[<<m, a>>] # Fetch!Quiet /\ ~Fetch!Signalled(load'[m].kind)
    <2>1. CASE m = l  BY <1>1, <1>7, <2>1 DEF AskedRight
    <2>2. CASE m # l
      <3>1. shared[a] = m  BY <1>7, <2>2 DEF AskedRight
      <3>2. req[<<m, a>>] # Fetch!Quiet /\ ~Fetch!Signalled(load[m].kind)  BY <3>1 DEF FetchSides
      <3> QED  BY <1>1, <2>2, <3>2 DEF AskedRight
    <2> QED  BY <2>1, <2>2
  <1> QED  BY <1>2, <1>3, <1>4, <1>5, <1>6, <1>7 DEF FetchSides

\* Nothing is asked for.
LEMMA NotAsking ==
    ASSUME FetchInv, FetchSides, UNCHANGED <<shared, req>>, NEW l \in Loads
    PROVE  AskedRight(l, load[l].kind, load[l].open)
  <1>1. \A m \in Loads, a \in Fetch!Asks : Tried(req[<<m, a>>])  BY DEF FetchSides
  <1>2. \A m \in Loads, a \in Fetch!Asks : <<a, m>> \in load[l].open => req[<<m, a>>] # Fetch!Quiet
    BY DEF FetchSides
  <1>3. \A a \in Fetch!Asks : shared[a] = l => req[<<l, a>>] # Fetch!Quiet /\ ~Fetch!Signalled(load[l].kind)
    BY DEF FetchSides
  <1> QED  BY <1>1, <1>2, <1>3 DEF AskedRight

\* A load that asks for the catalog.
LEMMA CatalogSides ==
    ASSUME Fetch!RssFetchAssumption, FetchInv, FetchSides, NEW l \in Loads, NEW kind \in LoadKinds,
           NEW step \in {"catalog", "split"}, Fetch!AskCatalog(l, kind, step), load[l].open = {}
    PROVE  FetchSides'
  <1> DEFINE awaited == Fetch!Awaited(l, kind, {Fetch!Catalog})
             s == ForCatalog(load[l], kind, step, awaited)
  <1>1. Fetch!Ask(l, kind, {Fetch!Catalog}) /\ UNCHANGED troubles /\ load' = [load EXCEPT ![l] = s]
    BY DEF Fetch!AskCatalog, ForCatalog
  <1>2. {Fetch!Catalog} \in SUBSET Fetch!Asks /\ Fetch!Catalog \notin Fetch!Feeds  BY FewFeeds DEF Fetch!Asks
  <1>3. awaited = Fetch!Awaited(l, kind, {Fetch!Catalog})  OBVIOUS
  <1> HIDE DEF awaited
  <1>4. AskedRight(l, kind, awaited)  BY <1>1, <1>2, <1>3, AskSides
  <1>5. awaited \subseteq {Fetch!Catalog} \X Loads
    BY <1>1, <1>2, <1>3, AskKeeps DEF FetchInv
  <1>6. load[l] \in LoadStates /\ load[l].got \subseteq load[l].asked
    BY LoadFields DEF FetchInv, FetchSides
  <1>7. s.kind = kind /\ s.open = awaited /\ s.asked = load[l].asked /\ s.got = load[l].got
    <2>1. awaited \in SUBSET (Fetch!Asks \X Loads)  BY <1>2, <1>5
    <2>2. PICK r \in LoadStates : r = load[l]  BY <1>6
    <2>3. s = ForCatalog(r, kind, step, awaited)  BY <2>2
    <2> HIDE DEF s
    <2>4. s.kind = kind /\ s.open = awaited /\ s.asked = r.asked /\ s.got = r.got
      BY <2>1, <2>3, CatalogRecord
    <2> QED  BY <2>2, <2>4
  <1> HIDE DEF s
  <1>8. \A f \in Fetch!Feeds, n \in Loads : <<f, n>> \notin s.open  BY <1>2, <1>5, <1>7
  <1>9. AskedRight(l, s.kind, s.open) /\ s.got \subseteq s.asked  BY <1>4, <1>6, <1>7
  <1> QED  BY <1>1, <1>8, <1>9, OneSide

\* A load that asks for the next chunk of its feeds.
LEMMA FeedsSides ==
    ASSUME Fetch!RssFetchAssumption, FetchInv, FetchSides, NEW l \in Loads, NEW step \in {"feeds", "parts"},
           NEW todo \in Seq(Fetch!Feeds), Fetch!AskFeeds(l, step, todo), load[l].open = {}
    PROVE  FetchSides'
  <1> DEFINE kind == load[l].kind
             first == SubSeq(todo, 1, Fetch!Min({Concurrency, Len(todo)}))
             chunk == Fetch!ToSet(first)
             rest == SubSeq(todo, Concurrency + 1, Len(todo))
             asks == chunk \ feedCache
             awaited == Fetch!Awaited(l, kind, asks)
             asked == load[l].asked \cup chunk
             new == load[l].got \cup (chunk \cap feedCache)
             s == ForFeeds(load[l], step, rest, awaited, asked, new)
  <1>1. Fetch!Ask(l, kind, asks) /\ UNCHANGED troubles /\ load' = [load EXCEPT ![l] = s]
    BY DEF Fetch!AskFeeds, ForFeeds
  <1>2. rest \in Seq(Fetch!Feeds) /\ chunk \subseteq Fetch!Feeds
    <2>1. Concurrency \in Nat \ {0}  BY DEF Fetch!RssFetchAssumption
    <2>2. Chunks(todo, Concurrency, first, rest)  BY DEF Chunks
    <2> HIDE DEF first, rest
    <2> QED  BY <2>1, <2>2, ChunkAndRest
  <1> HIDE DEF first, chunk, rest
  <1>3. asks \in SUBSET Fetch!Asks /\ asks \subseteq chunk  BY <1>2 DEF Fetch!Asks
  <1>4. awaited = Fetch!Awaited(l, kind, asks)  OBVIOUS
  <1>5. load[l] \in LoadStates /\ load[l].got \subseteq load[l].asked /\ load[l].asked \subseteq Fetch!Feeds
        /\ load[l].got \subseteq Fetch!Feeds
    BY LoadFields DEF FetchInv, FetchSides
  <1>6. asked \in SUBSET Fetch!Feeds /\ new \in SUBSET Fetch!Feeds /\ new \subseteq asked /\ chunk \subseteq asked
    BY <1>2, <1>5
  <1> HIDE DEF awaited, asks, asked, new
  <1>7. AskedRight(l, kind, awaited)
    <2> HIDE DEF kind
    <2> QED  BY <1>1, <1>3, <1>4, AskSides
  <1>8. awaited \subseteq asks \X Loads
    <2> HIDE DEF kind
    <2> QED  BY <1>1, <1>3, <1>4, AskKeeps DEF FetchInv
  <1>9. s.kind = kind /\ s.open = awaited /\ s.asked = asked /\ s.got = new
    <2>1. awaited \in SUBSET (Fetch!Asks \X Loads)  BY <1>3, <1>8
    <2>2. PICK r \in LoadStates : r = load[l]  BY <1>5
    <2>3. s = ForFeeds(r, step, rest, awaited, asked, new)  BY <2>2
    <2> HIDE DEF s
    <2>4. s.kind = r.kind /\ s.open = awaited /\ s.asked = asked /\ s.got = new
      BY <1>2, <1>6, <2>1, <2>3, FeedsRecord
    <2> QED  BY <2>2, <2>4
  <1> HIDE DEF s, kind
  <1>10. \A f \in Fetch!Feeds, n \in Loads : <<f, n>> \in s.open => f \in s.asked
    BY <1>3, <1>6, <1>8, <1>9
  <1>11. AskedRight(l, s.kind, s.open) /\ s.got \subseteq s.asked  BY <1>6, <1>7, <1>9
  <1> QED  BY <1>1, <1>10, <1>11, OneSide

\* A load that ends, or is aborted, asks for nothing.
LEMMA EndSides ==
    ASSUME FetchInv, FetchSides, UNCHANGED <<shared, req, troubles>>, NEW l \in Loads, NEW s,
           load' = [load EXCEPT ![l] = s],
           s.kind = load[l].kind, s.open = load[l].open, s.asked = load[l].asked, s.got = load[l].got
    PROVE  FetchSides'
  <1>1. AskedRight(l, s.kind, s.open)  BY NotAsking
  <1>2. s.got \subseteq s.asked  BY DEF FetchSides
  <1>3. \A f \in Fetch!Feeds, n \in Loads : <<f, n>> \in s.open => f \in s.asked  BY DEF FetchSides
  <1> QED  BY <1>1, <1>2, <1>3, OneSide

\* The fields of a load that ends or is aborted.
LEMMA EndFields ==
    ASSUME NEW r \in LoadStates, NEW at, NEW s \in {Ends(r, at), Given(r)}
    PROVE  s.kind = r.kind /\ s.open = r.open /\ s.asked = r.asked /\ s.got = r.got
  BY DEF LoadStates, Ends, Given

\* A load begins, goes on, is aborted or given up.
LEMMA LoadSides ==
    ASSUME Fetch!RssFetchAssumption, FetchInv, FetchSides, NEW l \in Loads,
           \/ \E kind \in LoadKinds : Fetch!Begin(l, kind)
           \/ Fetch!GoOn(l) \/ Fetch!Abort(l) \/ Fetch!GiveUp(l)
    PROVE  FetchSides'
  <1>1. FetchTypeInv /\ RequestsInv /\ load[l] \in LoadStates
    BY LoadFields DEF FetchInv
  <1>2. ASSUME NEW kind \in LoadKinds, Fetch!Begin(l, kind)  PROVE FetchSides'
    <2>1. load[l].at = "idle" /\ Fetch!AskCatalog(l, kind, "catalog")  BY <1>2 DEF Fetch!Begin
    <2>2. load[l].open = {}  BY <1>1, <2>1 DEF RequestsInv, Fetch!Ended
    <2> QED  BY <2>1, <2>2, CatalogSides
  <1>3. ASSUME Fetch!GoOn(l)  PROVE FetchSides'
    <2>1. load[l].at \notin Fetch!Ended /\ load[l].open = {}  BY <1>3 DEF Fetch!GoOn, Fetch!Ready
    <2>2. load[l].kind \in LoadKinds /\ load[l].todo \in Seq(Fetch!Feeds)
          /\ load[l].at \in {"catalog", "feeds", "split", "parts"}
      BY <1>1, <2>1, LoadFields DEF FetchTypeInv, Fetch!Ended
    <2>3. ASSUME NEW S \in SUBSET Fetch!Feeds  PROVE Fetch!SetToSeq(S) \in Seq(Fetch!Feeds)
      <3>1. IsFiniteSet(S)  BY FewFeeds, FS_Subset
      <3>2. PICK q : q = Fetch!SetToSeq(S)  OBVIOUS
      <3>3. q \in Seq(S)  BY <3>1, <3>2, ListedSet
      <3>4. q \in Seq(Fetch!Feeds)  BY <3>3
      <3> QED  BY <3>2, <3>4
    <2>4. ASSUME NEW S \in SUBSET Fetch!Feeds, NEW step \in {"feeds", "parts"},
                 Fetch!AskFeeds(l, step, Fetch!SetToSeq(S))
          PROVE  FetchSides'
      <3> DEFINE todo == Fetch!SetToSeq(S)
      <3>1. todo \in Seq(Fetch!Feeds) /\ Fetch!AskFeeds(l, step, todo)  BY <2>3, <2>4
      <3> HIDE DEF todo
      <3> QED  BY <2>1, <3>1, FeedsSides
    <2>5. CASE Fetch!AskFeeds(l, "feeds", Fetch!SetToSeq(Fetch!Urls(load[l].kind)))
      <3>1. Fetch!Urls(load[l].kind) \in SUBSET Fetch!Feeds  BY <2>2, FeedsOf
      <3> QED  BY <2>4, <2>5, <3>1
    <2>6. CASE load[l].todo # <<>> /\ Fetch!AskFeeds(l, load[l].at, load[l].todo)
      <3> DEFINE todo == load[l].todo
                 step == load[l].at
      <3>1. step \in {"feeds", "parts"}  BY <2>2, <2>6 DEF FetchInv, GapFree
      <3>2. todo \in Seq(Fetch!Feeds) /\ Fetch!AskFeeds(l, step, todo)  BY <2>2, <2>6
      <3> HIDE DEF todo, step
      <3> QED  BY <2>1, <3>1, <3>2, FeedsSides
    <2>7. CASE Fetch!AskCatalog(l, load[l].kind, "split")
      <3> DEFINE kind == load[l].kind
      <3>1. kind \in LoadKinds /\ Fetch!AskCatalog(l, kind, "split")  BY <2>2, <2>7
      <3> HIDE DEF kind
      <3> QED  BY <2>1, <3>1, CatalogSides
    <2>8. CASE Fetch!AskFeeds(l, "parts", Fetch!SetToSeq(Fetch!PartsOf(l) \ load[l].asked))
      <3>1. Fetch!Full(l) \subseteq Fetch!Feeds  BY <1>1, LoadFields DEF Fetch!Full
      <3>2. Fetch!PartsOf(l) \ load[l].asked \in SUBSET Fetch!Feeds  BY <3>1, FeedsOf DEF Fetch!PartsOf
      <3> QED  BY <2>4, <2>8, <3>2
    <2>9. CASE /\ load' = [load EXCEPT ![l].at = IF Fetch!Result(l) = {} THEN "failed" ELSE "done"]
               /\ UNCHANGED <<published, feedCache, shared, req, troubles>>
      <3> DEFINE at == IF Fetch!Result(l) = {} THEN "failed" ELSE "done"
      <3>1. load' = [load EXCEPT ![l] = Ends(load[l], at)]  BY <2>9 DEF Ends
      <3> HIDE DEF at
      <3> QED  BY <1>1, <2>9, <3>1, EndFields, EndSides
    <2> QED  BY <1>3, <2>5, <2>6, <2>7, <2>8, <2>9 DEF Fetch!GoOn
  <1>4. ASSUME Fetch!Abort(l)  PROVE FetchSides'
    <2>1. load' = [load EXCEPT ![l] = Given(load[l])] /\ UNCHANGED <<shared, req, troubles>>
      BY <1>4 DEF Fetch!Abort, Given
    <2> QED  BY <1>1, <2>1, EndFields, EndSides
  <1>5. ASSUME Fetch!GiveUp(l)  PROVE FetchSides'
    <2>1. load' = [load EXCEPT ![l] = Ends(load[l], "failed")] /\ UNCHANGED <<shared, req, troubles>>
      BY <1>5 DEF Fetch!GiveUp, Ends
    <2> QED  BY <1>1, <2>1, EndFields, EndSides
  <1> QED  BY <1>2, <1>3, <1>4, <1>5

\* An attempt that is tried again goes on.
LEMMA AttemptSides ==
    ASSUME Fetch!RssFetchAssumption, FetchInv, FetchSides, NEW l \in Loads, NEW a \in Fetch!Asks,
           Fetch!Refused(l, a) \/ Fetch!Retry(l, a)
    PROVE  FetchSides'
  <1> DEFINE q == req[<<l, a>>]
  <1>1. /\ req \in [Loads \X Fetch!Asks -> [at : {"none", "send", "sleep"}, n : Nat]]
        /\ <<l, a>> \in Loads \X Fetch!Asks
    BY DEF FetchInv, FetchTypeInv
  <1>2. UNCHANGED <<load, shared>>  BY DEF Fetch!Refused, Fetch!Retry
  <1>3. PICK p : req' = [req EXCEPT ![<<l, a>>] = p] /\ Tried(p) /\ p # Fetch!Quiet
    <2>1. q \in [at : {"none", "send", "sleep"}, n : Nat] /\ Tried(q)  BY <1>1 DEF FetchSides
    <2>2. Attempts \in Nat  BY DEF Fetch!RssFetchAssumption
    <2>3. CASE Fetch!Refused(l, a)
      <3> DEFINE p == [q EXCEPT !.at = "sleep"]
      <3>1. req' = [req EXCEPT ![<<l, a>>] = p] /\ q.n < Attempts  BY <2>3 DEF Fetch!Refused
      <3>2. p.at = "sleep" /\ p.n = q.n  BY <2>1
      <3>3. Tried(p) /\ p # Fetch!Quiet
        <4> HIDE DEF p, q
        <4> QED  BY <2>1, <2>2, <3>1, <3>2 DEF Tried, Fetch!Quiet
      <3> QED  BY <3>1, <3>3
    <2>4. CASE Fetch!Retry(l, a)
      <3> DEFINE p == [at |-> "send", n |-> q.n + 1]
      <3>1. req' = [req EXCEPT ![<<l, a>>] = p] /\ q.at = "sleep"  BY <2>4 DEF Fetch!Retry
      <3>2. p.at = "send" /\ p.n = q.n + 1 /\ q.n \in Nat  BY <2>1
      <3>3. Tried(p) /\ p # Fetch!Quiet
        <4> HIDE DEF p, q
        <4> QED  BY <2>1, <2>2, <3>1, <3>2 DEF Tried, Fetch!Quiet
      <3> QED  BY <3>1, <3>3
    <2> QED  BY <2>3, <2>4
  <1>4. \A m \in Loads, b \in Fetch!Asks :
           req'[<<m, b>>] = IF m = l /\ b = a THEN p ELSE req[<<m, b>>]
    <2> TAKE m \in Loads, b \in Fetch!Asks
    <2>1. <<m, b>> \in Loads \X Fetch!Asks /\ (<<m, b>> = <<l, a>> <=> m = l /\ b = a)  OBVIOUS
    <2> QED  BY <1>1, <1>3, <2>1
  <1>5. \A m \in Loads, b \in Fetch!Asks :
           Tried(req'[<<m, b>>]) /\ (req[<<m, b>>] # Fetch!Quiet => req'[<<m, b>>] # Fetch!Quiet)
    <2> HIDE DEF q
    <2> TAKE m \in Loads, b \in Fetch!Asks
    <2>1. Tried(req[<<m, b>>])  BY DEF FetchSides
    <2>2. CASE m = l /\ b = a  BY <1>3, <1>4, <2>2
    <2>3. CASE ~(m = l /\ b = a)
      <3>1. req'[<<m, b>>] = req[<<m, b>>]  BY <1>4, <2>3
      <3> QED  BY <2>1, <3>1
    <2> QED  BY <2>2, <2>3
  <1>6. troubles' \in 0..MaxTroubles
    <2>1. MaxTroubles \in Nat  BY DEF Fetch!RssFetchAssumption
    <2> QED  BY <2>1 DEF FetchSides, Fetch!Refused, Fetch!Retry, Fetch!Trouble
  <1>7. \A m, n \in Loads, b \in Fetch!Asks : <<b, n>> \in load'[m].open => req'[<<n, b>>] # Fetch!Quiet
    BY <1>2, <1>5 DEF FetchSides
  <1>8. \A m \in Loads, b \in Fetch!Asks :
           shared'[b] = m => req'[<<m, b>>] # Fetch!Quiet /\ ~Fetch!Signalled(load'[m].kind)
    BY <1>2, <1>5 DEF FetchSides
  <1>9. /\ \A m \in Loads : load'[m].got \subseteq load'[m].asked
        /\ \A m, n \in Loads, f \in Fetch!Feeds : <<f, n>> \in load'[m].open => f \in load'[m].asked
    BY <1>2 DEF FetchSides
  <1> QED  BY <1>5, <1>6, <1>7, <1>8, <1>9 DEF FetchSides

\* An answer, or a request that failed: nobody awaits or joins it any more.
LEMMA SettleSides ==
    ASSUME Fetch!RssFetchAssumption, FetchInv, FetchSides, NEW l \in Loads, NEW a \in Fetch!Asks,
           NEW ok \in BOOLEAN, Fetch!Settle(l, a, ok), req[<<l, a>>] # Fetch!Quiet,
           troubles' \in 0..MaxTroubles
    PROVE  FetchSides'
  <1> DEFINE w == <<a, l>>
  <1>1. /\ req \in [Loads \X Fetch!Asks -> [at : {"none", "send", "sleep"}, n : Nat]]
        /\ shared \in [Fetch!Asks -> Loads \cup {None, "kept"}]
        /\ <<l, a>> \in Loads \X Fetch!Asks
    BY DEF FetchInv, FetchTypeInv
  <1>2. /\ req' = [req EXCEPT ![<<l, a>>] = Fetch!Quiet] /\ shared' = Fetch!Unshared(l, a, ok)
        /\ load' = Fetch!Told(l, a, ok)
    BY DEF Fetch!Settle
  <1>3. \A m \in Loads, b \in Fetch!Asks :
           req'[<<m, b>>] = IF m = l /\ b = a THEN Fetch!Quiet ELSE req[<<m, b>>]
    <2> TAKE m \in Loads, b \in Fetch!Asks
    <2>1. <<m, b>> \in Loads \X Fetch!Asks /\ (<<m, b>> = <<l, a>> <=> m = l /\ b = a)  OBVIOUS
    <2> QED  BY <1>1, <1>2, <2>1
  <1>4. \A m \in Loads, b \in Fetch!Asks : Tried(req'[<<m, b>>])
    <2>1. Tried(Fetch!Quiet)  BY DEF Tried, Fetch!Quiet, Fetch!RssFetchAssumption
    <2> QED  BY <1>3, <2>1 DEF FetchSides
  <1>5. ASSUME NEW m \in Loads
        PROVE  /\ load'[m].kind = load[m].kind /\ load'[m].asked = load[m].asked
               /\ load'[m].open \subseteq load[m].open \ {w}
               /\ load'[m].got \subseteq load'[m].asked
    <2>1. /\ load[m] \in LoadStates /\ load[m].got \subseteq load[m].asked
      BY LoadFields DEF FetchInv, FetchSides
    <2>2. PICK r \in LoadStates : r = load[m]  BY <2>1
    <2>3. PICK s : s = load'[m]  OBVIOUS
    <2>4. w[1] = a  OBVIOUS
    <2>5. CASE w \notin r.open
      <3>1. s = r  BY <1>2, <2>2, <2>3, <2>5 DEF Fetch!Told
      <3> QED  BY <2>1, <2>2, <2>3, <2>5, <3>1
    <2>6. CASE w \in r.open /\ a = Fetch!Catalog /\ ~ok
      <3>1. s = Lost(r)  BY <1>2, <2>2, <2>3, <2>6 DEF Fetch!Told, Lost
      <3>2. s.open = {} /\ s.kind = r.kind /\ s.asked = r.asked /\ s.got = r.got  BY <3>1, LostFields
      <3> QED  BY <2>1, <2>2, <2>3, <3>2
    <2>7. CASE w \in r.open /\ ~(a = Fetch!Catalog /\ ~ok)
      <3>1. s = Learns(r, w, ok)  BY <1>2, <2>2, <2>3, <2>4, <2>7 DEF Fetch!Told, Learns
      <3>2. /\ s.open = r.open \ {w} /\ s.kind = r.kind /\ s.asked = r.asked
            /\ s.got = (IF ok /\ a # Fetch!Catalog THEN r.got \cup {a} ELSE r.got)
        BY <3>1, HeardFields
      <3>3. a # Fetch!Catalog => a \in r.asked
        BY <2>2, <2>7 DEF FetchSides, Fetch!Asks
      <3> HIDE DEF w
      <3> QED  BY <2>1, <2>2, <2>3, <3>2, <3>3
    <2> QED  BY <2>5, <2>6, <2>7
  <1>6. ASSUME NEW m \in Loads, NEW n \in Loads, NEW b \in Fetch!Asks, <<b, n>> \in load'[m].open
        PROVE  req'[<<n, b>>] # Fetch!Quiet
    <2>1. <<b, n>> \in load[m].open /\ ~(n = l /\ b = a)  BY <1>5, <1>6
    <2> QED  BY <1>3, <2>1 DEF FetchSides
  <1>7. ASSUME NEW m \in Loads, NEW n \in Loads, NEW f \in Fetch!Feeds, <<f, n>> \in load'[m].open
        PROVE  f \in load'[m].asked
    <2>1. <<f, n>> \in load[m].open  BY <1>5, <1>7
    <2> QED  BY <1>5, <2>1 DEF FetchSides
  <1>8. ASSUME NEW m \in Loads, NEW b \in Fetch!Asks, shared'[b] = m
        PROVE  shared[b] = m /\ ~(m = l /\ b = a)
    <2>1. None \notin Loads /\ "kept" \notin Loads  BY DEF Fetch!RssFetchAssumption
    <2>2. CASE Fetch!Signalled(load[l].kind)
      <3>1. shared' = shared  BY <1>2, <2>2 DEF Fetch!Unshared
      <3> QED  BY <1>8, <2>2, <3>1 DEF FetchSides
    <2>3. CASE ~Fetch!Signalled(load[l].kind) /\ (a # Fetch!Catalog \/ ~ok)
      <3>1. shared' = [shared EXCEPT ![a] = None]  BY <1>2, <2>3 DEF Fetch!Unshared
      <3> QED  BY <1>1, <1>8, <2>1, <3>1
    <2>4. CASE ~Fetch!Signalled(load[l].kind) /\ ~(a # Fetch!Catalog \/ ~ok)
      <3>1. shared' = [shared EXCEPT ![a] = IF shared[a] = l THEN "kept" ELSE shared[a]]
        BY <1>2, <2>4 DEF Fetch!Unshared
      <3> QED  BY <1>1, <1>8, <2>1, <3>1
    <2> QED  BY <2>2, <2>3, <2>4
  <1>9. \A m \in Loads, b \in Fetch!Asks :
           shared'[b] = m => req'[<<m, b>>] # Fetch!Quiet /\ ~Fetch!Signalled(load'[m].kind)
    <2> TAKE m \in Loads, b \in Fetch!Asks
    <2>1. load'[m].kind = load[m].kind  BY <1>5
    <2> QED  BY <1>3, <1>8, <2>1 DEF FetchSides
  <1>10. \A m \in Loads : load'[m].got \subseteq load'[m].asked  BY <1>5
  <1> QED  BY <1>4, <1>6, <1>7, <1>9, <1>10 DEF FetchSides

\* The first state of the loads.
LEMMA SidesBegin == Fetch!RssFetchAssumption /\ Fetch!Init => FetchSides
  <1> SUFFICES ASSUME Fetch!RssFetchAssumption, Fetch!Init  PROVE FetchSides
    OBVIOUS
  <1>1. /\ shared = [a \in Fetch!Asks |-> None] /\ troubles = 0 /\ MaxTroubles \in Nat /\ None \notin Loads
        /\ req = [x \in Loads \X Fetch!Asks |-> Fetch!Quiet] /\ load = [m \in Loads |-> Fetch!NoLoad]
    BY DEF Fetch!Init, Fetch!RssFetchAssumption
  <1>2. Fetch!NoLoad.open = {} /\ Fetch!NoLoad.got = {}  BY DEF Fetch!NoLoad
  <1>3. Tried(Fetch!Quiet)  BY DEF Tried, Fetch!Quiet, Fetch!RssFetchAssumption
  <1>4. \A m \in Loads, a \in Fetch!Asks : req[<<m, a>>] = Fetch!Quiet  BY <1>1
  <1> QED  BY <1>1, <1>2, <1>3, <1>4 DEF FetchSides

\* Every step keeps it.
LEMMA SidesKept ==
    ASSUME Fetch!RssFetchAssumption, FetchInv, FetchSides, [Fetch!Next]_(Fetch!vars)
    PROVE  FetchSides'
  <1>1. MaxTroubles \in Nat /\ troubles \in 0..MaxTroubles /\ None \notin Loads
    BY DEF Fetch!RssFetchAssumption, FetchSides
  <1>2. Fetch!Trouble => troubles' \in 0..MaxTroubles  BY <1>1 DEF Fetch!Trouble
  <1>3. Fetch!Quiet.at = "none"  BY DEF Fetch!Quiet
  <1>4. ASSUME NEW l \in Loads,
               \/ \E kind \in LoadKinds : Fetch!Begin(l, kind)
               \/ Fetch!GoOn(l) \/ Fetch!Abort(l) \/ Fetch!GiveUp(l)
        PROVE  FetchSides'
    BY <1>4, LoadSides
  <1>5. ASSUME NEW l \in Loads, NEW a \in Fetch!Asks, Fetch!Refused(l, a) \/ Fetch!Retry(l, a)
        PROVE  FetchSides'
    BY <1>5, AttemptSides
  <1>6. ASSUME NEW l \in Loads, NEW a \in Fetch!Asks, Fetch!Answered(l, a)  PROVE FetchSides'
    <2>1. Fetch!Settle(l, a, TRUE) /\ req[<<l, a>>].at = "send" /\ UNCHANGED troubles
      BY <1>6 DEF Fetch!Answered
    <2> QED  BY <1>1, <1>3, <2>1, SettleSides
  <1>7. ASSUME NEW l \in Loads, NEW a \in Fetch!Asks, Fetch!Failed(l, a)  PROVE FetchSides'
    <2>1. Fetch!Settle(l, a, FALSE) /\ req[<<l, a>>].at # "none"  BY <1>7 DEF Fetch!Failed
    <2>2. troubles' \in 0..MaxTroubles  BY <1>1, <1>2, <1>7 DEF Fetch!Failed
    <2> QED  BY <1>3, <2>1, <2>2, SettleSides
  <1>8. CASE Fetch!Forget
    <2>1. UNCHANGED <<req, load>> /\ troubles' \in 0..MaxTroubles  BY <1>2, <1>8 DEF Fetch!Forget
    <2>2. CASE shared' = [a \in Fetch!Asks |-> None]  BY <1>1, <2>1, <2>2 DEF FetchSides
    <2>3. CASE UNCHANGED shared  BY <2>1, <2>3 DEF FetchSides
    <2> QED  BY <1>8, <2>2, <2>3 DEF Fetch!Forget
  <1>9. CASE UNCHANGED Fetch!vars  BY <1>9 DEF Fetch!vars, FetchSides
  <1> QED  BY <1>4, <1>5, <1>6, <1>7, <1>8, <1>9 DEF Fetch!Next

\* The types of the loads' state.
LEMMA LoadsTyped ==
    ASSUME Fetch!RssFetchAssumption, FetchInv, FetchSides
    PROVE  Fetch!RssTypeOK
  <1>1. FetchTypeInv  BY DEF FetchInv
  <1>2. req \in [Loads \X Fetch!Asks -> [at : {"none", "send", "sleep"}, n : 0..Attempts]]
    <2>1. req \in [Loads \X Fetch!Asks -> [at : {"none", "send", "sleep"}, n : Nat]]  BY <1>1 DEF FetchTypeInv
    <2>2. ASSUME NEW x \in Loads \X Fetch!Asks
          PROVE  req[x] \in [at : {"none", "send", "sleep"}, n : 0..Attempts]
      <3>1. PICK m \in Loads, a \in Fetch!Asks : x = <<m, a>>  OBVIOUS
      <3>2. Tried(req[x])  BY <3>1 DEF FetchSides
      <3>3. req[x] \in [at : {"none", "send", "sleep"}, n : Nat] /\ Attempts \in Nat
        BY <2>1 DEF Fetch!RssFetchAssumption
      <3> QED  BY <3>2, <3>3 DEF Tried
    <2> QED  BY <2>1, <2>2
  <1>3. ASSUME NEW m \in Loads, NEW w \in load[m].open  PROVE req[<<w[2], w[1]>>] # Fetch!Quiet
    <2>1. load[m].open \subseteq Fetch!Asks \X Loads  BY <1>1, LoadFields
    <2>2. PICK a \in Fetch!Asks, n \in Loads : w = <<a, n>>  BY <2>1
    <2> QED  BY <2>2 DEF FetchSides
  <1>4. ASSUME NEW m \in Loads
        PROVE  /\ load[m].kind \in LoadKinds \cup {None} /\ load[m].got \subseteq load[m].asked
               /\ load[m].at \in Fetch!Ended \cup {"catalog", "feeds", "split", "parts"}
    BY <1>1, LoadFields DEF FetchSides
  <1>5. troubles \in 0..MaxTroubles  BY DEF FetchSides
  <1> QED  BY <1>1, <1>2, <1>3, <1>4, <1>5 DEF Fetch!RssTypeOK, FetchTypeInv
=============================================================================
