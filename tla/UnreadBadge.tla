---------------------------- MODULE UnreadBadge ----------------------------
(* The unread badge of one conversation in the list behind its screen:       *)
(* RoomsScreen.tsx with RoomDetailScreen.tsx (clearUnreadCount,              *)
(* markCurrentRoomRead), MessagesScreen.tsx with DirectChatScreen.tsx        *)
(* (markReadAndRefresh).  The list's query is fetched, written by the screen *)
(* and fetched again for the events of messages and marks, in any order.     *)
EXTENDS Naturals, QueryCache

CONSTANTS Kinds,      \* "direct", "room"
          MaxRows,    \* bound: messages of the others
          MaxOpens    \* bound: how often the screen is opened

\* What the constants are.
UnreadBadgeAssumption ==
    /\ Kinds \subseteq {"direct", "room"} /\ MaxRows \in Nat /\ MaxOpens \in Nat

VARIABLES kind,           \* which of the two
          rows, seen,     \* the server: the others' rows, and how many are marked as read
          news, listNews, \* realtime events on their way to the screen and to the list
          open, opens,    \* the screen is open; its instances so far
          badge,          \* the list's query, as far as it is the unread count
          marks           \* the calls that mark the conversation as read
vars == <<kind, rows, seen, news, listNews, open, opens, badge, marks>>

BadgeTypeOK ==
    /\ kind \in Kinds /\ rows \in 0..MaxRows /\ seen \in 0..rows
    /\ news \in BOOLEAN /\ listNews \in BOOLEAN /\ open \in BOOLEAN /\ opens \in 0..MaxOpens
    /\ news => open
    /\ badge \in Queries(0..MaxRows)
    /\ marks \subseteq {"asked", "done"}

\* A conversation is opened from the list, which has been loaded.
Init ==
    /\ kind \in Kinds
    /\ rows = 0 /\ seen = 0 /\ news = FALSE /\ listNews = FALSE
    /\ open = FALSE /\ opens = 0
    /\ badge = Written(Unloaded(0), 0)
    /\ marks = {}

-----------------------------------------------------------------------------
Unread == rows - seen

\* A message of somebody else.
Message ==
    /\ rows < MaxRows /\ rows' = rows + 1
    /\ news' = open /\ listNews' = TRUE
    /\ UNCHANGED <<kind, seen, open, opens, badge, marks>>

\* mark_match_read changes rows, if any is unread; mark_room_read always
\* writes the room_read_states row.  A direct chat goes on after a failure as
\* after a success, a room does not.
ServeMark ==
    /\ "asked" \in marks
    /\ LET goOn == (marks \ {"asked"}) \cup {"done"}
           told == kind = "room" \/ Unread > 0
       IN  \/ /\ seen' = rows
              /\ news' = (news \/ (open /\ kind = "direct" /\ told))
              /\ listNews' = (listNews \/ told)
              /\ marks' \in {goOn} \cup (IF kind = "room" THEN {marks \ {"asked"}} ELSE {})
           \/ /\ marks' = IF kind = "room" THEN marks \ {"asked"} ELSE goOn
              /\ UNCHANGED <<seen, news, listNews>>
    /\ UNCHANGED <<kind, rows, open, opens, badge>>

\* list_matches, list_joined_rooms
ServeBadge ==
    /\ badge.fetch = "sent"
    /\ badge' = Served(badge, Unread)
    /\ UNCHANGED <<kind, rows, seen, news, listNews, open, opens, marks>>

BadgeArrives ==
    /\ badge.fetch = "served"
    /\ badge' = Arrived(badge, 0)
    /\ UNCHANGED <<kind, rows, seen, news, listNews, open, opens, marks>>

\* Mutant: the list does not fetch again while it is being fetched.
ListEventJoining ==
    /\ listNews /\ listNews' = FALSE
    /\ badge' = IF badge.fetch = "idle" THEN Refetched(badge) ELSE badge
    /\ UNCHANGED <<kind, rows, seen, news, open, opens, marks>>

\* subscribeToMatchList, subscribeToRoomListChanges: the list hears of rows
\* and marks.
ListEvent ==
    /\ listNews /\ listNews' = FALSE
    /\ badge' = Refetched(badge)
    /\ UNCHANGED <<kind, rows, seen, news, open, opens, marks>>

-----------------------------------------------------------------------------
\* clearUnreadCount of the room; refresh of the direct chat comes later.
Cleared == IF kind = "room" THEN Written(badge, 0) ELSE badge

\* The focus of the direct chat, the mounting of the room.
Open ==
    /\ ~open /\ opens < MaxOpens
    /\ open' = TRUE /\ opens' = opens + 1
    /\ marks' = marks \cup {"asked"}
    /\ badge' = Cleared
    /\ UNCHANGED <<kind, rows, seen, news, listNews>>

\* Mutant: the subscription outlives the screen.
CloseListening ==
    /\ open /\ open' = FALSE
    /\ badge' = IF kind = "room" THEN Refetched(badge) ELSE badge
    /\ UNCHANGED <<kind, rows, seen, news, listNews, opens, marks>>

\* Back in the list, whose focus fetches the rooms again.
Close ==
    /\ open /\ open' = FALSE /\ news' = FALSE
    /\ badge' = IF kind = "room" THEN Refetched(badge) ELSE badge
    /\ UNCHANGED <<kind, rows, seen, listNews, opens, marks>>

\* A message arrives in the open conversation, or one of the user's own was sent.
Realtime ==
    /\ news /\ news' = FALSE
    /\ marks' = marks \cup {"asked"}
    /\ badge' = Cleared
    /\ UNCHANGED <<kind, rows, seen, listNews, open, opens>>

\* markReadAndRefresh and markCurrentRoomRead go on after the call, which may
\* be after the screen was closed.
Marked ==
    /\ "done" \in marks /\ marks' = marks \ {"done"}
    /\ badge' = IF kind = "room" THEN Written(badge, 0) ELSE Refetched(badge)
    /\ UNCHANGED <<kind, rows, seen, news, listNews, open, opens>>

Next ==
    \/ Message \/ ServeMark \/ ServeBadge \/ BadgeArrives
    \/ ListEvent \/ Open \/ Close \/ Realtime \/ Marked

Spec == Init /\ [][Next]_vars

-----------------------------------------------------------------------------
(* Properties *)

\* The badge settles: once the list has heard everything it shows no more
\* unread messages than there are, although the open room sets it to 0, the
\* list fetches it and marks are answered in any order.
BadgeSettles ==
    (~listNews /\ badge.fetch = "idle" /\ marks = {}) => badge.data <= Unread
=============================================================================
