------------------------------ MODULE Matching ------------------------------
(***************************************************************************)
(* Likes, matches and blocks of one pair of users, as the database         *)
(* functions change them.  Each call is a transaction at READ COMMITTED:   *)
(* a statement sees what is committed when it starts, the writes become    *)
(* visible at the commit, and what keeps transactions apart are two        *)
(* advisory locks of the pair and the row locks on its matches, one match  *)
(* per event.  The pairs of other users share nothing with this one but    *)
(* the swipe quotas, whose exhaustion is one of the reasons of Abort.      *)
(***************************************************************************)
EXTENDS Naturals

CONSTANTS Users,        \* the pair
          Events,       \* events both attend
          Sessions      \* connections that run transactions

ASSUME MatchingConstants == \E a, b \in Users : a # b /\ Users = {a, b}

VARIABLES
    likes,     \* event_likes: <<event_id, user_id>>
    passes,    \* event_passes: <<event_id, user_id>>
    blocks,    \* user_blocks: who blocks the other
    match,     \* status of the pair's match of each event
    tx,        \* what each connection does
    withdrew,  \* history: whose last word is a like turned into a pass
    blocked    \* history: somebody has blocked

vars == <<likes, passes, blocks, match, tx, withdrew, blocked>>

-----------------------------------------------------------------------------
Other(u) == CHOOSE v \in Users : v # u
Reactions == Events \X Users
Statuses == {"none", "active", "ended", "blocked"}

Swipes == {"like", "pass"}
Deletes == {"deleteEnd", "deleteBlock"}
Ops == Swipes \cup Deletes \cup {"change", "end", "send", "block", "unblock"}
Labels == {"idle", "lock", "upsert", "scan", "rows", "commit"}

\* An open transaction: the call, its next statement, the advisory lock and
\* the rows it holds, the rows its update waits for, and what it has written.
Transactions ==
    [op : Ops \cup {"none"}, by : Users \cup {"nobody"}, ev : Events \cup {"nowhere"},
     at : Labels, key : {"none", "pair", "pair:"}, rows : SUBSET Events, want : SUBSET Events,
     put : {"none", "like", "pass"}, dels : SUBSET Reactions, mark : Statuses]

Idle == [op |-> "none", by |-> "nobody", ev |-> "nowhere", at |-> "idle", key |-> "none",
         rows |-> {}, want |-> {}, put |-> "none", dels |-> {}, mark |-> "none"]

TypeOK ==
    /\ likes \subseteq Reactions
    /\ passes \subseteq Reactions
    /\ blocks \subseteq Users
    /\ match \in [Events -> Statuses]
    /\ tx \in [Sessions -> Transactions]
    /\ withdrew \subseteq Users
    /\ blocked \in BOOLEAN
    \* event_likes_global_reaction_idx and the locks
    /\ \A k, l \in likes : k[2] = l[2] => k = l
    /\ \A s, t \in Sessions : s # t =>
          /\ tx[s].key = "none" \/ tx[s].key # tx[t].key
          /\ tx[s].rows \cap tx[t].rows = {}

Init ==
    /\ likes = {}
    /\ passes = {}
    /\ blocks = {}
    /\ match = [e \in Events |-> "none"]
    /\ tx = [s \in Sessions |-> Idle]
    /\ withdrew = {}
    /\ blocked = FALSE

-----------------------------------------------------------------------------
Likes(u) == \E e \in Events : <<e, u>> \in likes
IsBlocked == blocks # {}
Matched == \E e \in Events : match[e] = "active"

\* Mutant: a match of another event is not looked at.
MatchedIn(e) == match[e] = "active"

\* Mutant: the advisory lock is only tried.
KeyFreeBlind(k) == TRUE

KeyFree(k) == \A s \in Sessions : tx[s].key # k

\* Mutant: rows are read without FOR UPDATE.
RowFreeBlind(s, e) == TRUE

RowFree(s, e) == \A t \in Sessions \ {s} : e \notin tx[t].rows

\* Mutant: change_event_like_to_pass takes the lock of the blocks.
KeyOfChange(op) == IF op \in Swipes THEN "pair" ELSE "pair:"

\* hashtextextended of the two ids: the swipes put nothing between them, the
\* blocks a colon, and so these are two locks.
KeyOf(op) == IF op \in Swipes \cup {"change"} THEN "pair" ELSE "pair:"

Step(s, r) == tx' = [tx EXCEPT ![s] = r]
Keep == UNCHANGED <<likes, passes, blocks, match, withdrew, blocked>>

-----------------------------------------------------------------------------
(* The calls.  A call that reads nothing before it waits for its first lock *)
(* starts when the lock is free; a refused call changes nothing.            *)

\* swipe_event_candidate before the lock: refused between blocked users.
Begin(s, op, u, e) ==
    /\ tx[s] = Idle
    /\ ~IsBlocked
    /\ Step(s, [Idle EXCEPT !.op = op, !.by = u, !.ev = e, !.at = "lock"])
    /\ Keep

\* Mutant: only a match of the same event makes a swipe a duplicate.
DecidePerEvent(s) ==
    LET r == tx[s]
    IN /\ r.at = "lock" /\ r.op \in Swipes
       /\ KeyFree(KeyOf(r.op))
       /\ Step(s, IF MatchedIn(r.ev) \/ Likes(r.by) \/ <<r.ev, r.by>> \in passes THEN Idle
                  ELSE [r EXCEPT !.key = KeyOf(r.op), !.put = r.op,
                          !.at = IF r.op = "like" /\ Likes(Other(r.by)) THEN "upsert" ELSE "commit"])
       /\ Keep

\* Under the lock a duplicate changes nothing.
Decide(s) ==
    LET r == tx[s]
    IN /\ r.at = "lock" /\ r.op \in Swipes
       /\ KeyFree(KeyOf(r.op))
       /\ Step(s, IF Matched \/ Likes(r.by) \/ <<r.ev, r.by>> \in passes THEN Idle
                  ELSE [r EXCEPT !.key = KeyOf(r.op), !.put = r.op,
                          !.at = IF r.op = "like" /\ Likes(Other(r.by)) THEN "upsert" ELSE "commit"])
       /\ Keep

\* The insert of the match waits for a row that another transaction updates.
Upsert(s) ==
    LET r == tx[s]
    IN /\ r.at = "upsert"
       /\ RowFree(s, r.ev)
       /\ Step(s, [r EXCEPT !.rows = {r.ev}, !.mark = "active", !.at = "commit"])
       /\ Keep

\* change_event_like_to_pass
Change(s, u, e) ==
    /\ tx[s] = Idle
    /\ KeyFree(KeyOf("change"))
    /\ <<e, u>> \in likes /\ ~Matched
    /\ Step(s, [Idle EXCEPT !.op = "change", !.by = u, !.ev = e, !.key = KeyOf("change"),
                  !.put = "pass", !.dels = {<<e, u>>}, !.at = "commit"])
    /\ Keep

LikesOf(e) == {l \in likes : l[1] = e}

\* SELECT ... FOR UPDATE of the match of event e, as the first statement.
Take(s, e, r) ==
    /\ tx[s] = Idle
    /\ match[e] # "none"
    /\ RowFree(s, e)
    /\ Step(s, [r EXCEPT !.ev = e, !.rows = {e}])
    /\ Keep

EndMatch(s, u, e) ==
    Take(s, e, [Idle EXCEPT !.op = "end", !.by = u, !.dels = LikesOf(e), !.mark = "ended", !.at = "commit"])

\* send_direct_message is refused unless the match is active and nobody blocks.
Send(s, u, e) ==
    /\ match[e] = "active" /\ ~IsBlocked
    /\ Take(s, e, [Idle EXCEPT !.op = "send", !.by = u, !.at = "commit"])

\* delete_match_chat holds the row when it waits for the lock of the pair.
DeleteChat(s, op, u, e) ==
    Take(s, e, [Idle EXCEPT !.op = op, !.by = u, !.at = "lock"])

DeleteEnd(s) ==
    LET r == tx[s]
    IN /\ r.at = "lock" /\ r.op = "deleteEnd"
       /\ KeyFree(KeyOf(r.op))
       /\ Step(s, [r EXCEPT !.key = KeyOf(r.op), !.dels = LikesOf(r.ev), !.at = "commit",
                     !.mark = IF IsBlocked THEN "blocked" ELSE "ended"])
       /\ Keep

\* block_user and the block of delete_match_chat: the delete sees the likes
\* that are committed,
Block(s, u) ==
    LET r == IF tx[s] = Idle THEN [Idle EXCEPT !.op = "block", !.by = u] ELSE tx[s]
    IN /\ \/ tx[s] = Idle
          \/ r.at = "lock" /\ r.op = "deleteBlock" /\ r.by = u
       /\ KeyFree(KeyOf(r.op))
       /\ Step(s, [r EXCEPT !.key = KeyOf(r.op), !.dels = likes, !.mark = "blocked", !.at = "scan"])
       /\ Keep

\* and the update, a statement of its own, the matches that are committed.
Scan(s) ==
    /\ tx[s].at = "scan"
    /\ Step(s, [tx[s] EXCEPT !.want = {e \in Events : match[e] # "none"}, !.at = "rows"])
    /\ Keep

\* unblock_user updates the blocked matches, unless the other blocks too.
Unblock(s, u) ==
    /\ tx[s] = Idle
    /\ KeyFree(KeyOf("unblock"))
    /\ u \in blocks
    /\ Step(s, [Idle EXCEPT !.op = "unblock", !.by = u, !.key = KeyOf("unblock"), !.mark = "ended",
                  !.at = "rows", !.want = {e \in Events : blocks = {u} /\ match[e] = "blocked"}])
    /\ Keep

\* The update has all its rows; unblock_user looks at the status once more.
TakeRows(s) ==
    LET r == tx[s]
        fits == {e \in r.want : r.op = "unblock" => match[e] = "blocked"}
    IN /\ r.at = "rows"
       /\ \A e \in r.want : RowFree(s, e)
       /\ Step(s, [r EXCEPT !.rows = @ \cup fits, !.want = {}, !.at = "commit"])
       /\ Keep

Commit(s) ==
    LET r == tx[s]
    IN /\ r.at = "commit"
       /\ likes' = (likes \ r.dels) \cup (IF r.put = "like" THEN {<<r.ev, r.by>>} ELSE {})
       /\ passes' = passes \cup (IF r.put = "pass" THEN {<<r.ev, r.by>>} ELSE {})
       /\ blocks' = CASE r.op \in {"block", "deleteBlock"} -> blocks \cup {r.by}
                      [] r.op = "unblock" -> blocks \ {r.by}
                      [] OTHER -> blocks
       /\ match' = [e \in Events |-> IF e \in r.rows /\ r.mark # "none" THEN r.mark ELSE match[e]]
       /\ withdrew' = CASE r.op = "change" -> withdrew \cup {r.by}
                        [] r.put = "like" -> withdrew \ {r.by}
                        [] OTHER -> withdrew
       /\ blocked' = (blocked \/ blocks' # {})
       /\ Step(s, Idle)

\* An error: the quota or the rate limit, a check of attendance or profile,
\* a duplicate request_id, a deadlock that the database resolves, a lost
\* connection.  Nothing of the transaction remains.
Abort(s) ==
    /\ tx[s] # Idle
    /\ Step(s, Idle)
    /\ Keep

Next ==
    \E s \in Sessions :
        \/ \E op \in Swipes, u \in Users, e \in Events : Begin(s, op, u, e)
        \/ \E u \in Users, e \in Events : EndMatch(s, u, e) \/ Send(s, u, e)
        \/ \E op \in Deletes, u \in Users, e \in Events : DeleteChat(s, op, u, e)
        \/ \E u \in Users, e \in Events : Change(s, u, e)
        \/ \E u \in Users : Block(s, u) \/ Unblock(s, u)
        \/ Decide(s) \/ Upsert(s) \/ DeleteEnd(s) \/ Scan(s) \/ TakeRows(s)
        \/ Commit(s) \/ Abort(s)

Spec == Init /\ [][Next]_vars

-----------------------------------------------------------------------------
(* Properties *)

\* Two users who like each other are matched: two likes sent at the same time
\* never miss one another, an old row is reopened, and nothing that ends the
\* match leaves both likes.  Once somebody has blocked it does not hold: see
\* BlockLocksPair.
MutualMeansMatched == ~blocked /\ (\A u \in Users : Likes(u)) => Matched

\* A pair has one active match, though every event has a row of its own and
\* old rows are reopened.
OneActiveMatch ==
    \A e, f \in Events : match[e] = "active" /\ match[f] = "active" => e = f

\* Who has turned the like into a pass is not matched by a swipe that was
\* under way.
WithdrawnUnmatched == withdrew # {} => ~Matched

\* A message that is being stored belongs to an active match: the match
\* cannot be ended, deleted or blocked under it.
SendsIntoActive ==
    \A s \in Sessions : tx[s].op = "send" /\ tx[s].at = "commit" => match[tx[s].ev] = "active"

\* Stated by the comment at 20260809010000_wmatch_chat_presence_and_controls
\* line 151: a block always locks every relationship between the pair.
BlockLocksPair == IsBlocked => ~Matched

-----------------------------------------------------------------------------
(* The inductive invariant behind the first four *)

\* What a transaction r knows between its statements, by its call.
LikeKnows(r) ==
    /\ r.op = "like" /\ r.key = "pair" /\ r.at \in {"upsert", "commit"} /\ r.dels = {}
    /\ ~Likes(r.by) /\ ~Matched
    /\ r.at = "upsert" => r.mark = "none"
    /\ r.at = "commit" => r.mark \in {"none", "active"}
    /\ r.at = "upsert" \/ r.mark = "active" => Other(r.by) \notin withdrew
    /\ r.mark = "active" => r.rows = {r.ev}
    /\ r.at = "commit" /\ Likes(Other(r.by)) => r.mark = "active"

ChangeKnows(r) ==
    /\ r.key = "pair" /\ r.at = "commit" /\ r.put = "pass" /\ r.mark = "none"
    /\ r.dels = {<<r.ev, r.by>>}
    /\ \A l \in likes : l[2] = r.by => l[1] = r.ev
    /\ ~Matched

EndKnows(r) ==
    /\ r.mark \in {"ended", "blocked"}
    /\ r.rows = {r.ev}
    /\ match[r.ev] = "active" => LikesOf(r.ev) \subseteq r.dels

Formed(r) ==
    /\ r.op = "none" => r = Idle
    /\ r.op # "none" => r.by \in Users
    /\ r.op \notin {"none", "block", "unblock"} => r.ev \in Events
    /\ r.at = "lock" => /\ r.key = "none" /\ r.put = "none" /\ r.mark = "none" /\ r.dels = {}
                        /\ r.rows = IF r.op \in Deletes THEN {r.ev} ELSE {}
    /\ r.put # "none" => r.op \in {"like", "pass", "change"}
    /\ r.at \in {"scan", "rows"} => r.op \in {"block", "deleteBlock", "unblock"}

Sound(r) ==
    /\ r.put = "like" => LikeKnows(r)
    /\ r.at = "upsert" \/ r.mark = "active" => r.put = "like"
    /\ r.op = "like" /\ r.at = "commit" => r.put = "like"
    /\ r.op = "change" => ChangeKnows(r)
    /\ r.op \in {"end", "deleteEnd"} /\ r.at = "commit" => EndKnows(r)
    /\ r.op = "send" => r.rows = {r.ev} /\ r.mark = "none" /\ match[r.ev] = "active"
    /\ r.op = "unblock" => \A e \in r.rows : match[e] = "blocked"
    /\ r.op = "pass" => r.mark = "none"

\* The later like of a pair that is matched is one of the match's event.
MatchHasLike ==
    \A e \in Events :
        match[e] = "active" /\ (\A u \in Users : Likes(u)) => LikesOf(e) # {}

MatchInv == /\ TypeOK
            /\ \A s \in Sessions : Formed(tx[s]) /\ Sound(tx[s])
            /\ \A u \in withdrew : ~Likes(u)
            /\ MatchHasLike
            /\ MutualMeansMatched /\ OneActiveMatch /\ WithdrawnUnmatched
=============================================================================
