------------------------------ MODULE MatchDeck ------------------------------
(* The matching screens of one user: the deck of candidates of an event      *)
(* (MatchCardsScreen.tsx) and the lists of pending likes                     *)
(* (MatchingLikesScreen.tsx), with the optimistic writes and rollbacks of    *)
(* their mutations (matchingQueryCache.ts) over the cached queries.          *)
(* Candidates are numbered in the order of the server's answer.              *)
EXTENDS Naturals, Sequences, FiniteSets, SequencesExt, QueryCache

CONSTANTS Candidates,   \* 1..n
          PageSize,     \* paginationLimits.candidates
          Ahead,        \* cards left when the next page is asked for
          Likes,        \* like rights of the window; passes are not limited here
          Admirers,     \* candidates who like the user
          Liked,        \* candidates whom the user has liked before
          Lists,        \* the lists of pending likes that are opened
          MaxTries,     \* bound: decisions
          MaxRefresh    \* bound: refreshes of the deck and background refetches

\* What the constants are.
DeckAssumption ==
    /\ IsFiniteSet(Candidates) /\ Candidates = 1..Cardinality(Candidates)
    /\ PageSize \in Nat \ {0} /\ Ahead \in Nat /\ Likes \in Nat
    /\ MaxTries \in Nat /\ MaxRefresh \in Nat
    /\ Admirers \subseteq Candidates /\ Liked \subseteq Candidates
    /\ Lists \subseteq {"outgoing", "incoming"}

Kinds == {"like", "pass"}
NoCards == [items |-> <<>>, more |-> FALSE]

VARIABLES reaction,   \* the server's event_likes and event_passes of the user
          left,       \* the server's remaining likes
          deck,       \* the infinite query of the candidates
          want,       \* what its running fetch asks for
          index,      \* the card on top
          likes,      \* the cached lists of pending likes
          quota,      \* the cached remaining likes; its fetch is one step
          jobs,       \* the mutations under way
          whole,      \* no refetch has replaced the deck since it was refreshed
          tries,      \* decisions so far
          refreshes   \* refreshes and background refetches
vars == <<reaction, left, deck, want, index, likes, quota, jobs, whole, tries, refreshes>>

Jobs == [c : Candidates, kind : Kinds, from : {"cards", "likes"}, at : {"sent", "done", "failed"},
         had : [Lists -> [loaded : BOOLEAN, data : SUBSET Candidates]], quota : 0..Likes, left : 0..Likes]

DeckTypeOK ==
    /\ reaction \in [Candidates -> Kinds \cup {"none"}]
    /\ left \in 0..Likes
    /\ deck.data.items \in BoundedSeq(Candidates, Cardinality(Candidates))
    /\ want \in {"pages", "next"} /\ index \in 0..Cardinality(Candidates)
    /\ likes \in [Lists -> Queries(SUBSET Candidates)]
    /\ quota \in 0..Likes
    /\ jobs \subseteq Jobs
    /\ whole \in BOOLEAN /\ tries \in 0..MaxTries /\ refreshes \in 0..MaxRefresh

Init ==
    /\ reaction = [c \in Candidates |-> IF c \in Liked THEN "like" ELSE "none"]
    /\ left = Likes
    /\ deck = Refetched(Unloaded(NoCards)) /\ want = "pages" /\ index = 0
    /\ likes = [l \in Lists |-> Unloaded({})]
    /\ quota = Likes
    /\ jobs = {} /\ whole = TRUE /\ tries = 0 /\ refreshes = 0

-----------------------------------------------------------------------------
(* The server's reads (matchingService.ts) *)

Matched(c) == reaction[c] = "like" /\ c \in Admirers

\* get_event_candidates leaves out whom the user has decided on.
Eligible == {c \in Candidates : reaction[c] = "none"}

\* The page that begins after a candidate: the first n of them, in the order of
\* the server.
Pages(after, n) ==
    LET all == {c \in Eligible : c > after} IN
    {page \in UNION {[1..m -> all] : m \in 0..n} :
        /\ \A i, k \in DOMAIN page : i < k => page[i] < page[k]
        /\ \A c \in all : \/ c \in Range(page)
                          \/ Len(page) = n /\ \A i \in DOMAIN page : page[i] < c}

\* get_outgoing_event_likes, get_incoming_event_likes
Pending(l) ==
    IF l = "outgoing" THEN {c \in Candidates : reaction[c] = "like" /\ ~Matched(c)}
                      ELSE {c \in Admirers : reaction[c] = "none"}

\* listCandidates: the pages of the deck, or one more page after the last card.
ServeDeck ==
    LET items == deck.data.items
        n     == IF want = "next" \/ items = <<>> THEN PageSize ELSE Len(items)
        after == IF want = "next" /\ items # <<>> THEN Last(items) ELSE 0
    IN  /\ deck.fetch = "sent"
        /\ \E page \in Pages(after, n) :
              deck' = Served(deck, [items |-> page, more |-> Len(page) = n])
        /\ UNCHANGED <<reaction, left, want, index, likes, quota, jobs, whole, tries, refreshes>>

ServeLikes(l) ==
    /\ likes[l].fetch = "sent"
    /\ likes' = [likes EXCEPT ![l] = Served(@, Pending(l))]
    /\ UNCHANGED <<reaction, left, deck, want, index, quota, jobs, whole, tries, refreshes>>

\* getSwipeQuota, every 30 seconds and with each refresh.
ServeQuota ==
    /\ quota' = left
    /\ UNCHANGED <<reaction, left, deck, want, index, likes, jobs, whole, tries, refreshes>>

-----------------------------------------------------------------------------
(* The deck *)

Fresh(q) == Refetched(Unloaded(NoCards))

\* The focus of the screen, a change of the attendees, the button.
RefreshDeck ==
    /\ refreshes < MaxRefresh
    /\ refreshes' = refreshes + 1
    /\ index' = 0
    /\ deck' = Fresh(deck) /\ want' = "pages" /\ whole' = TRUE
    /\ UNCHANGED <<reaction, left, likes, quota, jobs, tries>>

\* refetchOnReconnect, refetchOnWindowFocus: the pages are fetched again, the
\* index stays.
Background ==
    /\ refreshes < MaxRefresh /\ deck.loaded
    /\ refreshes' = refreshes + 1
    /\ deck' = Refetched(deck) /\ want' = "pages"
    /\ likes' = [l \in Lists |-> IF likes[l].loaded THEN Refetched(likes[l]) ELSE likes[l]]
    /\ UNCHANGED <<reaction, left, index, quota, jobs, whole, tries>>

\* fetchNextPage when few cards are left.
NextPage ==
    /\ deck.loaded /\ deck.data.more
    /\ Len(deck.data.items) <= index + Ahead
    /\ ~(deck.fetch # "idle" /\ want = "next")
    /\ deck' = Refetched(deck) /\ want' = "next"
    /\ UNCHANGED <<reaction, left, index, likes, quota, jobs, whole, tries, refreshes>>

DeckArrives ==
    /\ deck.fetch = "served"
    /\ LET cards == IF want = "next" THEN [deck.got EXCEPT !.items = deck.data.items \o @] ELSE deck.got
       IN  deck' = Written(Arrived(deck, NoCards), cards)
    /\ whole' = (whole /\ (want = "next" \/ ~deck.loaded))
    /\ UNCHANGED <<reaction, left, want, index, likes, quota, jobs, tries, refreshes>>

\* The likes screen, another tab, is opened or pulled.
OpenLikes(l) ==
    /\ likes[l].fetch = "idle" /\ ~likes[l].loaded
    /\ likes' = [likes EXCEPT ![l] = Refetched(@)]
    /\ UNCHANGED <<reaction, left, deck, want, index, quota, jobs, whole, tries, refreshes>>

LikesArrive(l) ==
    /\ likes[l].fetch = "served"
    /\ likes' = [likes EXCEPT ![l] = Arrived(@, {})]
    /\ UNCHANGED <<reaction, left, deck, want, index, quota, jobs, whole, tries, refreshes>>

-----------------------------------------------------------------------------
(* Decisions *)

\* suppressCandidateFromPendingLikes: off both lists in one frame.
Suppressed(c) == [l \in Lists |-> Updated(likes[l], likes[l].data \ {c})]

\* The snapshot that it returns, and the lists with it put back.
Had == [l \in Lists |-> [loaded |-> likes[l].loaded, data |-> likes[l].data]]
Restored(had) ==
    [l \in Lists |-> IF had[l].loaded THEN Written(likes[l], had[l].data) ELSE likes[l]]

Job(c, kind, from) ==
    [c |-> c, kind |-> kind, from |-> from, at |-> "sent", had |-> Had, quota |-> quota, left |-> 0]

CardsJobs == {j \in jobs : j.from = "cards"}

\* Mutant: two quick gestures are not kept apart.
SwipeTwice(kind) ==
    /\ tries < MaxTries /\ tries' = tries + 1
    /\ deck.loaded /\ index < Len(deck.data.items)
    /\ kind = "like" => quota > 0
    /\ LET c == deck.data.items[index + 1]
       IN  /\ ~\E j \in jobs : j.c = c
           /\ jobs' = jobs \cup {Job(c, kind, "cards")}
           /\ likes' = Suppressed(c)
    /\ quota' = IF kind = "like" THEN quota - 1 ELSE quota
    /\ index' = index + 1
    /\ UNCHANGED <<reaction, left, deck, want, whole, refreshes>>

\* finishSwipe: the card on top is decided by a gesture or a button; one
\* decision of the deck at a time (swipePending).
Swipe(kind) ==
    /\ tries < MaxTries /\ tries' = tries + 1
    /\ deck.loaded /\ index < Len(deck.data.items)
    /\ CardsJobs = {}
    /\ kind = "like" => quota > 0
    /\ LET c == deck.data.items[index + 1]
       IN  /\ jobs' = jobs \cup {Job(c, kind, "cards")}
           /\ likes' = Suppressed(c)
    /\ quota' = IF kind = "like" THEN quota - 1 ELSE quota
    /\ index' = index + 1
    /\ UNCHANGED <<reaction, left, deck, want, whole, refreshes>>

\* changeLikeToPass of an outgoing like, swipeCandidate 'pass' of an incoming one.
PassLike(l, c) ==
    /\ tries < MaxTries /\ tries' = tries + 1
    /\ likes[l].loaded /\ c \in likes[l].data
    /\ ~\E j \in jobs : j.c = c /\ j.from = "likes"
    /\ jobs' = jobs \cup {Job(c, "pass", "likes")}
    /\ likes' = Suppressed(c)
    /\ UNCHANGED <<reaction, left, deck, want, index, quota, whole, refreshes>>

\* The server decides: a second decision is a duplicate, and changes nothing
\* unless it withdraws a like.
Decide(j) ==
    /\ j.at = "sent"
    /\ \/ reaction[j.c] = "none" /\ (j.kind = "like" => left > 0)
       \/ reaction[j.c] = "like" /\ j.from = "likes"
    /\ reaction' = [reaction EXCEPT ![j.c] = j.kind]
    /\ left' = IF j.kind = "like" THEN left - 1 ELSE left
    /\ \E at \in {"done", "failed"} : jobs' = (jobs \ {j}) \cup {[j EXCEPT !.at = at, !.left = left']}
    /\ UNCHANGED <<deck, want, index, likes, quota, whole, tries, refreshes>>

\* A duplicate is answered like a success; the call may also fail.
Undecided(j) ==
    /\ j.at = "sent"
    /\ \/ jobs' = (jobs \ {j}) \cup {[j EXCEPT !.at = "failed"]}
       \/ /\ reaction[j.c] # "none" /\ ~(reaction[j.c] = "like" /\ j.from = "likes")
          /\ jobs' = (jobs \ {j}) \cup {[j EXCEPT !.at = "done", !.left = left]}
    /\ UNCHANGED <<reaction, left, deck, want, index, likes, quota, whole, tries, refreshes>>

\* onSuccess: the quota of the answer, and the lists are fetched again.  The
\* deck on the screen is not.
Success(j) ==
    /\ j.at = "done"
    /\ jobs' = jobs \ {j}
    /\ quota' = j.left
    /\ likes' = [l \in Lists |-> IF likes[l].loaded THEN Refetched(likes[l]) ELSE likes[l]]
    /\ UNCHANGED <<reaction, left, deck, want, index, whole, tries, refreshes>>

\* onError: the quota and both lists are put back, and the card with them.
Failure(j) ==
    /\ j.at = "failed"
    /\ jobs' = jobs \ {j}
    /\ likes' = Restored(j.had)
    /\ IF j.from = "cards"
       THEN /\ quota' = j.quota
            /\ index' = IF index = 0 THEN 0 ELSE index - 1
       ELSE UNCHANGED <<quota, index>>
    /\ UNCHANGED <<reaction, left, deck, want, whole, tries, refreshes>>

-----------------------------------------------------------------------------
Next ==
    \/ ServeDeck \/ DeckArrives \/ ServeQuota
    \/ RefreshDeck \/ Background \/ NextPage
    \/ \E l \in Lists : ServeLikes(l) \/ LikesArrive(l) \/ OpenLikes(l)
    \/ \E kind \in Kinds : Swipe(kind)
    \/ \E l \in Lists, c \in Candidates : PassLike(l, c)
    \/ \E j \in jobs : Decide(j) \/ Undecided(j) \/ Success(j) \/ Failure(j)

Spec == Init /\ [][Next]_vars

-----------------------------------------------------------------------------
(* Properties *)

\* No candidate is passed over: every card before the one on top has been
\* decided, or is being decided, as long as the deck is the one that the last
\* refresh loaded.  Failures step back, refreshes start over, and the two may
\* come in any order.
NoCardSkipped ==
    whole => \A i \in 1..Len(deck.data.items) :
        i <= index => \/ reaction[deck.data.items[i]] # "none"
                      \/ \E j \in jobs : j.c = deck.data.items[i]
=============================================================================
