----------------------------- MODULE ChatThread -----------------------------
(* An open conversation, direct or of a room (DirectChatScreen.tsx,          *)
(* RoomDetailScreen.tsx): the pages of the thread, the user's own pending    *)
(* messages and the realtime events that make the screen fetch.  The outbox  *)
(* is a set here, ChatOutbox has its details; UnreadBadge has the list of    *)
(* the conversations and the marks of a room.                                *)
EXTENDS Naturals, Sequences, FiniteSets, SequencesExt, QueryCache

CONSTANTS Mine,       \* the messages of the user
          Theirs,     \* the messages of the others
          PageSize,   \* paginationLimits.thread
          Kinds,      \* "direct", "room"
          MaxOpens    \* bound: how often the screen is opened

\* What the constants are.
ChatThreadAssumption ==
    /\ Mine \cap Theirs = {}
    /\ PageSize \in Nat \ {0} /\ MaxOpens \in Nat \ {0}
    /\ Kinds \subseteq {"direct", "room"}

Messages == Mine \cup Theirs
NoPages  == [items |-> <<>>, pages |-> 0, more |-> FALSE]

VARIABLES kind,        \* which of the two screens
          stored,      \* the server's rows, the oldest first
          unread,      \* a row of the others is not marked as read
          news,        \* a realtime event is on its way to the open screen
          open, opens, \* the screen is open; its instances so far
          joined,      \* its realtime channel has joined
          thread,      \* the infinite query of the messages
          want,        \* what its running fetch asks for
          invalid,     \* it is marked invalid
          missed,      \* history: a fetch that was due has been joined, cut off or
                       \* left out, has failed, or a new row came unheard
          pending,     \* the screen's own messages and their status
          outbox,      \* the queued messages
          restore,     \* the screen's reading of the outbox
          got,         \* what it has read
          jobs,        \* submit and deliver
          marks        \* the calls that mark the direct chat as read
server   == <<kind, stored, unread>>
fetching == <<thread, want, invalid>>
query    == <<fetching, missed>>
mount    == <<open, opens, joined, restore, got>>
vars     == <<server, news, query, mount, pending, outbox, jobs, marks>>

Jobs == [m : Mine, of : 1..MaxOpens, at : {"enqueue", "send", "ok", "err"}]

ThreadTypeOK ==
    /\ kind \in Kinds /\ unread \in BOOLEAN /\ news \in BOOLEAN
    /\ stored \in Seq(Messages) /\ IsInjective(stored)
    /\ open \in BOOLEAN /\ opens \in 0..MaxOpens /\ joined \in BOOLEAN
    /\ thread.fetch # "idle" => open
    /\ want \in {"pages", "next"} /\ invalid \in BOOLEAN /\ missed \in BOOLEAN
    /\ pending \in [Mine -> {"none", "sending", "sent", "failed"}]
    /\ outbox \subseteq Mine /\ got \subseteq Mine /\ restore \in {"asked", "got", "done"}
    /\ jobs \subseteq Jobs /\ marks \subseteq {"asked", "done"}

Init ==
    /\ kind \in Kinds
    /\ stored = <<>> /\ unread = FALSE /\ news = FALSE
    /\ open = FALSE /\ opens = 0 /\ joined = FALSE /\ restore = "done" /\ got = {}
    /\ thread = Unloaded(NoPages) /\ want = "pages" /\ invalid = FALSE /\ missed = FALSE
    /\ pending = [m \in Mine |-> "none"]
    /\ outbox = {} /\ jobs = {} /\ marks = {}

-----------------------------------------------------------------------------
(* The server *)

Rows == ToSet(stored)

\* send_direct_message, send_room_message: a repeated one changes nothing; a
\* new row is told to a channel that has joined.  An open screen whose channel
\* has not joined learns of it from a fetch that is still to be served, or not.
Store(m) ==
    LET new == open /\ m \notin Rows
    IN  /\ stored' = IF m \in Rows THEN stored ELSE Append(stored, m)
        /\ unread' = (unread \/ m \in Theirs)
        /\ news' = (news \/ (new /\ joined))
        /\ missed' = (missed \/ (new /\ ~joined /\ ~(thread.fetch = "sent" /\ want = "pages")))

TheirMessage(m) ==
    /\ m \notin Rows
    /\ Store(m)
    /\ UNCHANGED <<kind, fetching, mount, pending, outbox, jobs, marks>>

\* At most n rows, the newest first, older than a row if one is given.
Older(from, n) ==
    LET end == IF from = <<>> THEN Len(stored) ELSE (CHOOSE i \in DOMAIN stored : stored[i] = from[1]) - 1
    IN  Reverse(SubSeq(stored, IF end < n THEN 1 ELSE end - n + 1, end))

\* listDirectMessages, listRoomMessages: as many pages as there are, or one
\* more after the last row; a page that is not full is the last one.
ServeThread ==
    LET old   == thread.data
        pages == IF want = "next" \/ old.pages = 0 THEN 1 ELSE old.pages
        items == Older(IF want = "next" /\ old.items # <<>> THEN <<Last(old.items)>> ELSE <<>>, pages * PageSize)
        need  == Len(items) \div PageSize + 1
    IN  /\ thread.fetch = "sent"
        /\ thread' = Served(thread, [items |-> items,
                                     pages |-> IF need < pages THEN need ELSE pages,
                                     more  |-> Len(items) = pages * PageSize])
        /\ UNCHANGED <<server, news, want, invalid, missed, mount, pending, outbox, jobs, marks>>

\* Every try of the fetch fails.
ThreadFails ==
    /\ thread.fetch = "sent"
    /\ thread' = Cancelled(thread, NoPages) /\ missed' = TRUE
    /\ UNCHANGED <<server, news, want, invalid, mount, pending, outbox, jobs, marks>>

\* mark_match_read changes the rows themselves, which is an event too; the
\* screen goes on in the same way when the call fails.
ServeMark ==
    /\ "asked" \in marks
    /\ marks' = (marks \ {"asked"}) \cup {"done"}
    /\ \/ unread' = FALSE /\ news' = (news \/ (open /\ joined /\ unread))
       \/ UNCHANGED <<unread, news>>
    /\ UNCHANGED <<kind, stored, query, mount, pending, outbox, jobs>>

-----------------------------------------------------------------------------
(* Fetching *)

\* Mutant: the running fetch is always joined.
InvalidateJoining ==
    /\ invalid' = TRUE
    /\ IF open /\ thread.fetch = "idle" THEN thread' = Refetched(thread) /\ want' = "pages" /\ missed' = FALSE
       ELSE UNCHANGED <<thread, want, missed>>

\* invalidateQueries of the thread: fetched again at once if it is shown.
Invalidate ==
    /\ invalid' = TRUE
    /\ CASE ~open         -> UNCHANGED <<thread, want, missed>>
         [] open /\ Joins(thread)  -> missed' = TRUE /\ UNCHANGED <<thread, want>>
         [] open /\ ~Joins(thread) -> thread' = Refetched(thread) /\ want' = "pages" /\ missed' = FALSE

\* fetchNextPage at the end of the list: it abandons a running refetch.
NextPage ==
    /\ open /\ thread.loaded /\ thread.data.more
    /\ ~(thread.fetch # "idle" /\ want = "next")
    /\ thread' = Refetched(thread) /\ want' = "next"
    /\ missed' = (missed \/ thread.fetch # "idle")
    /\ UNCHANGED <<server, news, invalid, mount, pending, outbox, jobs, marks>>

ThreadArrives ==
    /\ thread.fetch = "served"
    /\ LET new == IF want = "next"
                  THEN [thread.got EXCEPT !.items = thread.data.items \o @, !.pages = thread.data.pages + 1]
                  ELSE thread.got
       IN  thread' = Written(Arrived(thread, NoPages), new)
    /\ invalid' = FALSE
    /\ UNCHANGED <<server, news, want, missed, mount, pending, outbox, jobs, marks>>

-----------------------------------------------------------------------------
(* The screen *)

\* Mounting fetches what is missing, invalid or a minute old; a direct chat is
\* marked as read and then refreshed, a room is not.  Its channel joins later.
Open ==
    /\ ~open /\ opens < MaxOpens
    /\ open' = TRUE /\ opens' = opens + 1 /\ joined' = FALSE
    /\ pending' = [m \in Mine |-> "none"] /\ restore' = "asked" /\ got' = {}
    /\ want' = "pages"
    /\ \/ thread' = Refetched(thread) /\ missed' = FALSE
       \/ /\ thread.loaded /\ ~invalid
          /\ thread' = thread /\ missed' = (kind = "room")
    /\ marks' = IF kind = "direct" THEN marks \cup {"asked"} ELSE marks
    /\ UNCHANGED <<server, news, invalid, outbox, jobs>>

\* Unmounting ends the subscription and aborts the fetch; promises go on.
Close ==
    /\ open /\ open' = FALSE /\ joined' = FALSE /\ news' = FALSE
    /\ invalid' = (invalid \/ thread.fetch # "idle")
    /\ thread' = Cancelled(thread, NoPages)
    /\ UNCHANGED <<server, want, missed, opens, restore, got, pending, outbox, jobs, marks>>

\* The channel joins, in a room after getUser has told who is here.  Nothing is
\* fetched when it does.
Join ==
    /\ open /\ ~joined /\ joined' = TRUE
    /\ UNCHANGED <<server, news, query, open, opens, restore, got, pending, outbox, jobs, marks>>

\* subscribeToDirectMessages: mark, then refresh; useRoomRealtime: refresh.
Realtime ==
    /\ news /\ news' = FALSE
    /\ IF kind = "direct" THEN marks' = marks \cup {"asked"} /\ UNCHANGED query
                          ELSE Invalidate /\ UNCHANGED marks
    /\ UNCHANGED <<server, mount, pending, outbox, jobs>>

\* markReadAndRefresh goes on.
Marked ==
    /\ "done" \in marks /\ marks' = marks \ {"done"}
    /\ Invalidate
    /\ UNCHANGED <<server, news, mount, pending, outbox, jobs>>

\* listOutbox, whose answer replaces the pending messages.  The outbox serves
\* its callers one after another.
Restore ==
    /\ open
    /\ \/ /\ restore = "asked" /\ ~\E j \in jobs : j.at = "enqueue" /\ j.of < opens
          /\ restore' = "got" /\ got' = outbox /\ UNCHANGED pending
       \/ /\ restore = "got" /\ restore' = "done" /\ got' = {}
          /\ pending' = [m \in Mine |-> IF m \in got THEN "failed" ELSE "none"]
    /\ UNCHANGED <<server, news, query, open, opens, joined, outbox, jobs, marks>>

\* setPending of an instance that is still mounted.
Shows(j, status) ==
    pending' = IF open /\ j.of = opens /\ pending[j.m] # "none"
               THEN [pending EXCEPT ![j.m] = status] ELSE pending

\* submit: shown as sending, put into the outbox, delivered.
Submit(m) ==
    /\ open /\ thread.loaded
    /\ pending[m] = "none" /\ m \notin Rows \cup outbox /\ ~\E j \in jobs : j.m = m
    /\ pending' = [pending EXCEPT ![m] = "sending"]
    /\ jobs' = jobs \cup {[m |-> m, of |-> opens, at |-> "enqueue"]}
    /\ UNCHANGED <<server, news, query, mount, outbox, marks>>

Move(j, at) == jobs' = (jobs \ {j}) \cup {[j EXCEPT !.at = at]}

Enqueue(j) ==
    /\ j.at = "enqueue"
    /\ j.of = opens => restore # "asked"
    /\ \/ outbox' = outbox \cup {j.m} /\ Move(j, "send") /\ UNCHANGED pending
       \/ jobs' = jobs \ {j} /\ Shows(j, "failed") /\ UNCHANGED outbox
    /\ UNCHANGED <<server, news, query, mount, marks>>

\* deliver: the call is done or not, and its answer arrives or not.
Send(j) ==
    /\ j.at = "send"
    /\ \/ Store(j.m) /\ (Move(j, "ok") \/ Move(j, "err"))
       \/ Move(j, "err") /\ UNCHANGED <<stored, unread, news, missed>>
    /\ UNCHANGED <<kind, fetching, mount, pending, outbox, marks>>

Delivered(j) ==
    /\ j.at = "ok" /\ jobs' = jobs \ {j}
    /\ Shows(j, "sent")
    /\ outbox' \in {outbox \ {j.m}, outbox}
    /\ Invalidate
    /\ UNCHANGED <<server, news, mount, marks>>

Undelivered(j) ==
    /\ j.at = "err" /\ jobs' = jobs \ {j}
    /\ Shows(j, "failed")
    /\ UNCHANGED <<server, news, query, mount, outbox, marks>>

\* The menu of a message that is shown as failed: send it again, or give it up.
Failed(m) == open /\ pending[m] = "failed" /\ m \notin ToSet(thread.data.items)

Resend(m) ==
    /\ Failed(m)
    /\ pending' = [pending EXCEPT ![m] = "sending"]
    /\ jobs' = jobs \cup {[m |-> m, of |-> opens, at |-> "send"]}
    /\ UNCHANGED <<server, news, query, mount, outbox, marks>>

GiveUp(m) ==
    /\ Failed(m)
    /\ pending' = [pending EXCEPT ![m] = "none"]
    /\ outbox' = outbox \ {m}
    /\ UNCHANGED <<server, news, query, mount, jobs, marks>>

\* flushOutbox delivers a queued message behind the screen's back.
Flush(m) ==
    /\ m \in outbox
    /\ Store(m)
    /\ outbox' \in {outbox \ {m}, outbox}
    /\ UNCHANGED <<kind, fetching, mount, pending, jobs, marks>>

-----------------------------------------------------------------------------
Next ==
    \/ Open \/ Close \/ Join \/ Restore \/ Realtime \/ Marked
    \/ ServeThread \/ ThreadFails \/ ThreadArrives \/ NextPage \/ ServeMark
    \/ \E m \in Theirs : TheirMessage(m)
    \/ \E m \in Mine : Submit(m) \/ Resend(m) \/ GiveUp(m) \/ Flush(m)
    \/ \E j \in jobs : Enqueue(j) \/ Send(j) \/ Delivered(j) \/ Undelivered(j)

Spec == Init /\ [][Next]_vars

-----------------------------------------------------------------------------
(* Properties *)

\* An open conversation catches up: with no fetch, event or mark under way it
\* shows the newest rows without a gap, in order and each once, so that no
\* message is shown as failed that has been stored.  What breaks this until the
\* next event is a fetch that joined the first one, was abandoned for the next
\* page, failed, or was left out when a room was opened again; and a row stored
\* when the fetch had been served and the channel had not joined, for nothing
\* is fetched when it joins.
ThreadCatchesUp ==
    (open /\ thread.loaded /\ thread.fetch = "idle" /\ ~news /\ marks = {} /\ ~missed) =>
        /\ thread.data.items = Older(<<>>, Len(thread.data.items))
        /\ thread.data.items = <<>> => stored = <<>>
=============================================================================
