--------------------------- MODULE MCPair_proofs ---------------------------
(***************************************************************************)
(* Safety of the pair for any number of events and connections, and of the *)
(* chat outbox for any number of accounts, messages, attempts and deaths.  *)
(* In Matching a call that changes its own transaction alone goes through  *)
(* QuietStep; only Commit changes the tables, and what every other         *)
(* transaction knows stays true because the committer holds neither its    *)
(* lock nor its rows.  In the outbox an operation is a round of keychain   *)
(* calls or two: PlainCalls and BackedCalls say what a death leaves of a   *)
(* round, Performs and Crashes what that means for an operation, and the   *)
(* invariant ties what is stored, queued and held by a flush to the purges *)
(* that are still to come.                                                 *)
(***************************************************************************)
EXTENDS MCPair, WellFoundedInduction, SequenceTheorems, FiniteSetTheorems, TLAPS


\* A pair is two users.
LEMMA OtherUser ==
    ASSUME NEW u \in Users
    PROVE  /\ Other(u) \in Users /\ Other(u) # u
           /\ Users = {u, Other(u)}
<1>1. PICK a \in Users, b \in Users : a # b /\ Users = {a, b}
  BY MatchingConstants
<1>2. \E v \in Users : v # u
  BY <1>1
<1>3. Other(u) \in Users /\ Other(u) # u
  BY <1>2 DEF Other
<1>. QED BY <1>1, <1>3

LEMMA IdleType == Idle \in Transactions /\ Formed(Idle) /\ Sound(Idle)
BY DEF Idle, Transactions, Ops, Labels, Swipes, Deletes, Statuses, Formed, Sound

LEMMA Initially == Init => MatchInv
<1>. SUFFICES ASSUME Init PROVE MatchInv
  OBVIOUS
<1>1. TypeOK
  BY IdleType DEF Init, TypeOK, Statuses, Idle
<1>2. ~Matched /\ \A u \in Users : ~Likes(u)
  BY DEF Init, Matched, Likes
<1>3. OneActiveMatch /\ MatchHasLike /\ WithdrawnUnmatched
  BY DEF Init, OneActiveMatch, MatchHasLike, WithdrawnUnmatched
<1>4. MutualMeansMatched
  BY <1>2, MatchingConstants DEF MutualMeansMatched
<1>. QED BY <1>1, <1>2, <1>3, <1>4, IdleType DEF MatchInv, Init

\* A statement that changes nothing but its own transaction keeps the
\* invariant if the transaction stays sound and takes free locks alone.
LEMMA QuietStep ==
    ASSUME MatchInv, NEW s \in Sessions, NEW r \in Transactions, Step(s, r), Keep,
           Formed(r), Sound(r),
           \A t \in Sessions \ {s} : r.key = "none" \/ tx[t].key # r.key,
           \A t \in Sessions \ {s} : tx[t].rows \cap r.rows = {}
    PROVE  MatchInv'
<1>1. \A t \in Sessions : tx'[t] = IF t = s THEN r ELSE tx[t]
  BY DEF Step, MatchInv, TypeOK
<1>2. TypeOK'
  <2>1. tx' \in [Sessions -> Transactions]
    BY DEF Step, MatchInv, TypeOK
  <2>2. \A t, w \in Sessions : t # w => /\ tx'[t].key = "none" \/ tx'[t].key # tx'[w].key
                                        /\ tx'[t].rows \cap tx'[w].rows = {}
    BY <1>1 DEF MatchInv, TypeOK
  <2>. QED BY <2>1, <2>2 DEF MatchInv, TypeOK, Keep
<1>3. ASSUME NEW t \in Sessions PROVE (Formed(tx[t]) /\ Sound(tx[t]))'
  <2>1. Formed(tx'[t]) /\ Sound(tx'[t])
    BY <1>1 DEF MatchInv
  <2>. QED BY <2>1 DEF Keep, Formed, Sound, LikeKnows, ChangeKnows, EndKnows, Likes, Matched, LikesOf
<1>. QED BY <1>2, <1>3 DEF MatchInv, Keep, Likes, Matched, LikesOf, MatchHasLike,
            MutualMeansMatched, OneActiveMatch, WithdrawnUnmatched

LEMMA Begins ==
    ASSUME MatchInv, NEW s \in Sessions, NEW op \in Swipes, NEW u \in Users, NEW e \in Events,
           Begin(s, op, u, e)
    PROVE  MatchInv'
<1>. DEFINE r == [Idle EXCEPT !.op = op, !.by = u, !.ev = e, !.at = "lock"]
<1>1. r \in Transactions
  BY IdleType DEF Transactions, Ops, Labels, Swipes
<1>2. Formed(r) /\ Sound(r)
  BY DEF Idle, Formed, Sound, Swipes, Deletes
<1>3. r.key = "none" /\ r.rows = {}
  BY DEF Idle
<1>4. Step(s, r) /\ Keep
  BY DEF Begin
<1>. HIDE DEF r
<1>. QED BY <1>1, <1>2, <1>3, <1>4, QuietStep

LEMMA Aborts ==
    ASSUME MatchInv, NEW s \in Sessions, Abort(s)
    PROVE  MatchInv'
<1>1. Step(s, Idle) /\ Keep
  BY DEF Abort
<1>2. Idle.key = "none" /\ Idle.rows = {}
  BY DEF Idle
<1>. QED BY <1>1, <1>2, IdleType, QuietStep

LEMMA Decides ==
    ASSUME MatchInv, NEW s \in Sessions, Decide(s)
    PROVE  MatchInv'
<1>. DEFINE r == tx[s]
            d == [r EXCEPT !.key = KeyOf(r.op), !.put = r.op,
                    !.at = IF r.op = "like" /\ Likes(Other(r.by)) THEN "upsert" ELSE "commit"]
<1>0. r \in Transactions /\ Formed(r) /\ Sound(r)
  BY DEF MatchInv, TypeOK
<1>1. CASE Step(s, Idle)
  <2>1. Idle.key = "none" /\ Idle.rows = {}
    BY DEF Idle
  <2>. QED BY <1>1, <2>1, IdleType, QuietStep DEF Decide
<1>2. CASE ~Step(s, Idle)
  <2>1. Step(s, d) /\ Keep /\ ~Matched /\ ~Likes(r.by) /\ r.at = "lock" /\ r.op \in Swipes
        /\ KeyFree(KeyOf(r.op))
    BY <1>2 DEF Decide
  <2>2. d \in Transactions
    BY <1>0, <2>1 DEF Transactions, Labels, KeyOf, Swipes
  <2>3. r.by \in Users /\ r.ev \in Events /\ r.put = "none" /\ r.mark = "none" /\ r.dels = {}
        /\ r.rows = {}
    BY <1>0, <2>1 DEF Formed, Swipes, Deletes, Idle
  <2>4. /\ d.op = r.op /\ d.by = r.by /\ d.ev = r.ev /\ d.key = "pair" /\ d.put = r.op
        /\ d.at = IF r.op = "like" /\ Likes(Other(r.by)) THEN "upsert" ELSE "commit"
        /\ d.mark = "none" /\ d.dels = {} /\ d.rows = {}
    BY <1>0, <2>1, <2>3 DEF Transactions, KeyOf, Swipes
  <2>. HIDE DEF d
  <2>5. Formed(d)
    BY <2>1, <2>3, <2>4 DEF Formed, Swipes
  <2>6. Likes(Other(r.by)) => Other(r.by) \notin withdrew
    BY <2>3, OtherUser DEF MatchInv
  <2>7. Sound(d)
    BY <2>1, <2>3, <2>4, <2>6 DEF Sound, LikeKnows, Swipes
  <2>8. \A t \in Sessions \ {s} : tx[t].key # d.key
    BY <2>1, <2>4 DEF KeyFree, KeyOf, Swipes
  <2>. QED BY <2>1, <2>2, <2>4, <2>5, <2>7, <2>8, QuietStep
<1>. QED BY <1>1, <1>2

\* A transaction that waits for rows takes free ones.
LEMMA FreeRows ==
    ASSUME MatchInv, NEW s \in Sessions, NEW R \in SUBSET Events, \A e \in R : RowFree(s, e)
    PROVE  \A t \in Sessions \ {s} : tx[t].rows \cap R = {}
BY DEF RowFree, MatchInv, TypeOK, Transactions

LEMMA Upserts ==
    ASSUME MatchInv, NEW s \in Sessions, Upsert(s)
    PROVE  MatchInv'
<1>. DEFINE r == tx[s]
            d == [r EXCEPT !.rows = {r.ev}, !.mark = "active", !.at = "commit"]
<1>1. r \in Transactions /\ Formed(r) /\ Sound(r) /\ Step(s, d) /\ Keep /\ r.at = "upsert"
  BY DEF MatchInv, TypeOK, Upsert
<1>2. LikeKnows(r) /\ r.put = "like" /\ r.ev \in Events /\ r.by \in Users
  BY <1>1 DEF Sound, Formed, LikeKnows
<1>3. d \in Transactions
  BY <1>1, <1>2 DEF Transactions, Labels, Statuses
<1>4. /\ d.op = r.op /\ d.by = r.by /\ d.ev = r.ev /\ d.key = r.key /\ d.put = r.put
      /\ d.at = "commit" /\ d.mark = "active" /\ d.dels = r.dels /\ d.rows = {r.ev}
  BY <1>1, <1>2 DEF Transactions
<1>. HIDE DEF d
<1>5. Formed(d) /\ Sound(d)
  BY <1>1, <1>2, <1>4 DEF Formed, Sound, LikeKnows
<1>6. \A t \in Sessions \ {s} : tx[t].key # d.key
  BY <1>2, <1>4 DEF MatchInv, TypeOK, LikeKnows
<1>7. \A t \in Sessions \ {s} : tx[t].rows \cap d.rows = {}
  BY <1>2, <1>4, FreeRows DEF Upsert
<1>. QED BY <1>1, <1>3, <1>5, <1>6, <1>7, QuietStep

LEMMA Changes ==
    ASSUME MatchInv, NEW s \in Sessions, NEW u \in Users, NEW e \in Events, Change(s, u, e)
    PROVE  MatchInv'
<1>. DEFINE d == [Idle EXCEPT !.op = "change", !.by = u, !.ev = e, !.key = KeyOf("change"),
                    !.put = "pass", !.dels = {<<e, u>>}, !.at = "commit"]
<1>1. Step(s, d) /\ Keep /\ KeyFree(KeyOf("change")) /\ <<e, u>> \in likes /\ ~Matched
  BY DEF Change
<1>2. d \in Transactions
  <2>1. {<<e, u>>} \in SUBSET Reactions /\ KeyOf("change") = "pair"
    BY DEF Reactions, KeyOf
  <2>. QED BY <2>1, IdleType DEF Transactions, Labels, Ops
<1>3. /\ d.op = "change" /\ d.by = u /\ d.ev = e /\ d.key = "pair" /\ d.put = "pass"
      /\ d.at = "commit" /\ d.mark = "none" /\ d.dels = {<<e, u>>} /\ d.rows = {}
  BY DEF Idle, KeyOf
<1>. HIDE DEF d
<1>4. \A l \in likes : l[2] = u => l[1] = e
  BY <1>1 DEF MatchInv, TypeOK, Reactions
<1>5. Formed(d) /\ Sound(d)
  BY <1>1, <1>3, <1>4 DEF Formed, Sound, ChangeKnows
<1>6. \A t \in Sessions \ {s} : tx[t].key # d.key
  BY <1>1, <1>3 DEF KeyFree, KeyOf
<1>. QED BY <1>1, <1>2, <1>3, <1>5, <1>6, QuietStep

LEMMA RowTaken ==
    ASSUME MatchInv, NEW s \in Sessions, NEW e \in Events, NEW r \in Transactions, Take(s, e, r),
           r.key = "none", Formed([r EXCEPT !.ev = e, !.rows = {e}]),
           Sound([r EXCEPT !.ev = e, !.rows = {e}])
    PROVE  MatchInv'
<1>. DEFINE d == [r EXCEPT !.ev = e, !.rows = {e}]
<1>1. d \in Transactions /\ d.key = "none" /\ d.rows = {e}
  BY DEF Transactions
<1>2. Step(s, d) /\ Keep /\ RowFree(s, e)
  BY DEF Take
<1>. HIDE DEF d
<1>3. \A t \in Sessions \ {s} : tx[t].rows \cap d.rows = {}
  BY <1>1, <1>2, FreeRows
<1>. QED BY <1>1, <1>2, <1>3, QuietStep DEF d

LEMMA RowCalls ==
    ASSUME MatchInv, NEW s \in Sessions, NEW u \in Users, NEW e \in Events
    PROVE  /\ EndMatch(s, u, e) => MatchInv'
           /\ Send(s, u, e) => MatchInv'
           /\ \A op \in Deletes : DeleteChat(s, op, u, e) => MatchInv'
<1>1. ASSUME EndMatch(s, u, e) PROVE MatchInv'
  <2>. DEFINE r == [Idle EXCEPT !.op = "end", !.by = u, !.dels = LikesOf(e), !.mark = "ended",
                      !.at = "commit"]
  <2>1. r \in Transactions
    BY IdleType DEF MatchInv, TypeOK, Transactions, Labels, Ops, LikesOf, Statuses
  <2>2. /\ Formed([r EXCEPT !.ev = e, !.rows = {e}])
        /\ Sound([r EXCEPT !.ev = e, !.rows = {e}])
    BY DEF Idle, Formed, Sound, EndKnows
  <2>. QED BY <1>1, <2>1, <2>2, RowTaken DEF EndMatch, Idle
<1>2. ASSUME Send(s, u, e) PROVE MatchInv'
  <2>. DEFINE r == [Idle EXCEPT !.op = "send", !.by = u, !.at = "commit"]
  <2>1. r \in Transactions
    BY IdleType DEF Transactions, Labels, Ops
  <2>2. /\ Formed([r EXCEPT !.ev = e, !.rows = {e}])
        /\ Sound([r EXCEPT !.ev = e, !.rows = {e}])
    BY <1>2 DEF Idle, Formed, Sound, Send
  <2>. QED BY <1>2, <2>1, <2>2, RowTaken DEF Send, Idle
<1>3. ASSUME NEW op \in Deletes, DeleteChat(s, op, u, e) PROVE MatchInv'
  <2>. DEFINE r == [Idle EXCEPT !.op = op, !.by = u, !.at = "lock"]
  <2>1. r \in Transactions
    BY IdleType DEF Transactions, Labels, Ops
  <2>2. /\ Formed([r EXCEPT !.ev = e, !.rows = {e}])
        /\ Sound([r EXCEPT !.ev = e, !.rows = {e}])
    BY DEF Idle, Formed, Sound, Deletes
  <2>. QED BY <1>3, <2>1, <2>2, RowTaken DEF DeleteChat, Idle
<1>. QED BY <1>1, <1>2, <1>3

LEMMA Deletions ==
    ASSUME MatchInv, NEW s \in Sessions, DeleteEnd(s)
    PROVE  MatchInv'
<1>. DEFINE r == tx[s]
            d == [r EXCEPT !.key = KeyOf(r.op), !.dels = LikesOf(r.ev), !.at = "commit",
                    !.mark = IF IsBlocked THEN "blocked" ELSE "ended"]
<1>1. r \in Transactions /\ Formed(r) /\ Sound(r) /\ Step(s, d) /\ Keep /\ KeyFree(KeyOf(r.op))
      /\ r.at = "lock" /\ r.op = "deleteEnd"
  BY DEF MatchInv, TypeOK, DeleteEnd
<1>2. r.put = "none" /\ r.rows = {r.ev} /\ r.ev \in Events /\ r.by \in Users /\ KeyOf(r.op) = "pair:"
  BY <1>1 DEF Formed, Deletes, KeyOf, Swipes
<1>3. d \in Transactions
  BY <1>1, <1>2 DEF MatchInv, TypeOK, Transactions, Labels, Statuses, LikesOf
<1>4. /\ d.op = r.op /\ d.by = r.by /\ d.ev = r.ev /\ d.key = "pair:" /\ d.put = "none"
      /\ d.at = "commit" /\ d.mark \in {"blocked", "ended"} /\ d.dels = LikesOf(r.ev)
      /\ d.rows = r.rows
  BY <1>1, <1>2 DEF Transactions
<1>. HIDE DEF d
<1>5. Formed(d) /\ Sound(d)
  BY <1>1, <1>2, <1>4 DEF Formed, Sound, EndKnows
<1>6. \A t \in Sessions \ {s} : tx[t].key # d.key
  BY <1>1, <1>2, <1>4 DEF KeyFree
<1>7. \A t \in Sessions \ {s} : tx[t].rows \cap d.rows = {}
  BY <1>4 DEF MatchInv, TypeOK
<1>. QED BY <1>1, <1>3, <1>5, <1>6, <1>7, QuietStep

LEMMA Blocks ==
    ASSUME MatchInv, NEW s \in Sessions, NEW u \in Users, Block(s, u)
    PROVE  MatchInv'
<1>. DEFINE r == IF tx[s] = Idle THEN [Idle EXCEPT !.op = "block", !.by = u] ELSE tx[s]
            d == [r EXCEPT !.key = KeyOf(r.op), !.dels = likes, !.mark = "blocked", !.at = "scan"]
<1>1. Step(s, d) /\ Keep /\ KeyFree(KeyOf(r.op))
  BY DEF Block
<1>2. /\ r \in Transactions /\ r.op \in {"block", "deleteBlock"} /\ r.put = "none" /\ r.by = u
      /\ r.op = "deleteBlock" => r.ev \in Events
      /\ r.rows = {} \/ r.rows = tx[s].rows
  <2>1. CASE tx[s] = Idle
    BY <2>1, IdleType DEF Idle, Transactions, Ops
  <2>2. CASE tx[s] # Idle
    BY <2>2 DEF Block, MatchInv, TypeOK, Formed
  <2>. QED BY <2>1, <2>2
<1>. HIDE DEF r
<1>3. KeyOf(r.op) = "pair:" /\ likes \in SUBSET Reactions
  BY <1>2 DEF KeyOf, Swipes, MatchInv, TypeOK
<1>4. /\ d \in Transactions
      /\ d.op = r.op /\ d.by = r.by /\ d.ev = r.ev /\ d.key = "pair:" /\ d.put = "none"
      /\ d.at = "scan" /\ d.mark = "blocked" /\ d.rows = r.rows
  BY <1>2, <1>3 DEF Transactions, Labels, Statuses
<1>. HIDE DEF d
<1>5. Formed(d) /\ Sound(d)
  BY <1>2, <1>4 DEF Formed, Sound
<1>6. \A t \in Sessions \ {s} : tx[t].key # d.key
  BY <1>1, <1>3, <1>4 DEF KeyFree
<1>7. \A t \in Sessions \ {s} : tx[t].rows \cap d.rows = {}
  BY <1>2, <1>4 DEF MatchInv, TypeOK
<1>. QED BY <1>1, <1>4, <1>5, <1>6, <1>7, QuietStep

LEMMA Scans ==
    ASSUME MatchInv, NEW s \in Sessions, Scan(s)
    PROVE  MatchInv'
<1>. DEFINE r == tx[s]
            W == {e \in Events : match[e] # "none"}
            d == [r EXCEPT !.want = W, !.at = "rows"]
<1>1. r \in Transactions /\ Formed(r) /\ Sound(r) /\ Step(s, d) /\ Keep /\ r.at = "scan"
  BY DEF MatchInv, TypeOK, Scan
<1>2. /\ d \in Transactions
      /\ d.op = r.op /\ d.by = r.by /\ d.ev = r.ev /\ d.key = r.key /\ d.put = r.put
      /\ d.at = "rows" /\ d.mark = r.mark /\ d.dels = r.dels /\ d.rows = r.rows
  BY <1>1 DEF Transactions, Labels
<1>. HIDE DEF d
<1>3. Formed(d) /\ Sound(d)
  BY <1>1, <1>2 DEF Formed, Sound, LikeKnows, Idle
<1>4. /\ \A t \in Sessions \ {s} : d.key = "none" \/ tx[t].key # d.key
      /\ \A t \in Sessions \ {s} : tx[t].rows \cap d.rows = {}
  BY <1>2 DEF MatchInv, TypeOK
<1>. QED BY <1>1, <1>2, <1>3, <1>4, QuietStep

LEMMA Unblocks ==
    ASSUME MatchInv, NEW s \in Sessions, NEW u \in Users, Unblock(s, u)
    PROVE  MatchInv'
<1>. DEFINE W == {e \in Events : blocks = {u} /\ match[e] = "blocked"}
            d == [Idle EXCEPT !.op = "unblock", !.by = u, !.key = KeyOf("unblock"), !.mark = "ended",
                    !.at = "rows", !.want = W]
<1>1. Step(s, d) /\ Keep /\ KeyFree(KeyOf("unblock"))
  BY DEF Unblock
<1>2. KeyOf("unblock") = "pair:"
  BY DEF KeyOf, Swipes
<1>3. /\ d \in Transactions
      /\ d.op = "unblock" /\ d.by = u /\ d.key = "pair:" /\ d.put = "none"
      /\ d.at = "rows" /\ d.mark = "ended" /\ d.rows = {}
  BY <1>2, IdleType DEF Transactions, Labels, Ops, Statuses, Idle
<1>. HIDE DEF d
<1>4. Formed(d) /\ Sound(d)
  BY <1>3 DEF Formed, Sound
<1>5. \A t \in Sessions \ {s} : tx[t].key # d.key
  BY <1>1, <1>2, <1>3 DEF KeyFree
<1>. QED BY <1>1, <1>3, <1>4, <1>5, QuietStep

LEMMA RowsTaken ==
    ASSUME MatchInv, NEW s \in Sessions, TakeRows(s)
    PROVE  MatchInv'
<1>. DEFINE r == tx[s]
            fits == {e \in r.want : r.op = "unblock" => match[e] = "blocked"}
            d == [r EXCEPT !.rows = @ \cup fits, !.want = {}, !.at = "commit"]
<1>1. r \in Transactions /\ Formed(r) /\ Sound(r) /\ Step(s, d) /\ Keep /\ r.at = "rows"
      /\ \A e \in r.want : RowFree(s, e)
  BY DEF MatchInv, TypeOK, TakeRows
<1>2. fits \in SUBSET Events /\ fits \subseteq r.want
  BY <1>1 DEF Transactions
<1>3. /\ d \in Transactions
      /\ d.op = r.op /\ d.by = r.by /\ d.ev = r.ev /\ d.key = r.key /\ d.put = r.put
      /\ d.at = "commit" /\ d.mark = r.mark /\ d.dels = r.dels /\ d.rows = r.rows \cup fits
  BY <1>1, <1>2 DEF Transactions, Labels
<1>4. r.op = "unblock" => \A e \in fits : match[e] = "blocked"
  OBVIOUS
<1>. HIDE DEF d, fits
<1>5. Formed(d) /\ Sound(d)
  BY <1>1, <1>3, <1>4 DEF Formed, Sound, LikeKnows, Idle
<1>6. \A t \in Sessions \ {s} : tx[t].rows \cap fits = {}
  BY <1>1, <1>2, FreeRows
<1>7. /\ \A t \in Sessions \ {s} : d.key = "none" \/ tx[t].key # d.key
      /\ \A t \in Sessions \ {s} : tx[t].rows \cap d.rows = {}
  BY <1>3, <1>6 DEF MatchInv, TypeOK
<1>. QED BY <1>1, <1>3, <1>5, <1>7, QuietStep

\* What a commit does to the shared tables, from what its transaction knows.
LEMMA CommitTypes ==
    ASSUME MatchInv, NEW s \in Sessions, Commit(s)
    PROVE  TypeOK'
<1>. DEFINE r == tx[s]
<1>1. r \in Transactions /\ Formed(r) /\ Sound(r) /\ Step(s, Idle) /\ r.at = "commit"
  BY DEF MatchInv, TypeOK, Commit
<1>2. \A t \in Sessions : tx'[t] = IF t = s THEN Idle ELSE tx[t]
  BY <1>1 DEF Step, MatchInv, TypeOK
<1>3. tx' \in [Sessions -> Transactions]
  BY <1>1, IdleType DEF Step, MatchInv, TypeOK
<1>4. \A t, w \in Sessions : t # w => /\ tx'[t].key = "none" \/ tx'[t].key # tx'[w].key
                                      /\ tx'[t].rows \cap tx'[w].rows = {}
  BY <1>2 DEF MatchInv, TypeOK, Idle
<1>5. r.op # "none"
  BY <1>1 DEF Formed, Idle
<1>6. r.put # "none" => <<r.ev, r.by>> \in Reactions
  BY <1>1 DEF Formed, Reactions
<1>7. r.put = "like" => ~Likes(r.by)
  BY <1>1 DEF Sound, LikeKnows
<1>8. likes' \subseteq Reactions /\ \A k, l \in likes' : k[2] = l[2] => k = l
  <2>1. /\ likes \subseteq Reactions
        /\ \A k, l \in likes : k[2] = l[2] => k = l
        /\ likes' = (likes \ r.dels) \cup (IF r.put = "like" THEN {<<r.ev, r.by>>} ELSE {})
    BY DEF Commit, MatchInv, TypeOK
  <2>2. r.put = "like" => \A l \in likes : l[2] # r.by
    BY <1>7, <2>1 DEF Likes, Reactions
  <2>. QED BY <1>6, <2>1, <2>2
<1>9. passes' \subseteq Reactions /\ blocks' \subseteq Users /\ withdrew' \subseteq Users
  BY <1>1, <1>5, <1>6 DEF Commit, MatchInv, TypeOK, Formed
<1>10. match' \in [Events -> Statuses] /\ blocked' \in BOOLEAN
  BY <1>1 DEF Commit, MatchInv, TypeOK, Transactions
<1>. QED BY <1>3, <1>4, <1>8, <1>9, <1>10 DEF TypeOK

LEMMA CommitEffects ==
    ASSUME MatchInv, NEW s \in Sessions, Commit(s)
    PROVE  LET r == tx[s] IN
           /\ r.put # "like" => likes' \subseteq likes
           /\ r.put = "like" => likes' = likes \cup {<<r.ev, r.by>>} /\ withdrew' = withdrew \ {r.by}
           /\ r.op = "change" => withdrew' = withdrew \cup {r.by}
           /\ r.put # "like" /\ r.op # "change" => withdrew' = withdrew
           /\ \A e \in Events : e \notin r.rows \/ r.mark = "none" => match'[e] = match[e]
           /\ \A e \in Events : match'[e] = "active" =>
                 match[e] = "active" \/ (r.mark = "active" /\ e = r.ev)
           /\ r.mark = "active" => match'[r.ev] = "active"
<1>. DEFINE r == tx[s]
<1>1. r \in Transactions /\ Formed(r) /\ Sound(r) /\ r.at = "commit"
  BY DEF MatchInv, TypeOK, Commit
<1>2. r.put # "like" => likes' \subseteq likes
  BY DEF Commit
<1>3. r.put = "like" => likes' = likes \cup {<<r.ev, r.by>>} /\ withdrew' = withdrew \ {r.by}
  BY <1>1 DEF Commit, Sound, LikeKnows
<1>4. /\ r.op = "change" => withdrew' = withdrew \cup {r.by}
      /\ r.put # "like" /\ r.op # "change" => withdrew' = withdrew
  BY <1>1 DEF Commit, Sound, ChangeKnows
<1>5. \A e \in Events : match'[e] = IF e \in r.rows /\ r.mark # "none" THEN r.mark ELSE match[e]
  BY DEF Commit
<1>6. r.mark = "active" => r.rows = {r.ev} /\ r.ev \in Events
  BY <1>1 DEF Sound, LikeKnows, Formed
<1>7. \A e \in Events : e \notin r.rows \/ r.mark = "none" => match'[e] = match[e]
  BY <1>5
<1>8. \A e \in Events : match'[e] = "active" => match[e] = "active" \/ (r.mark = "active" /\ e = r.ev)
  BY <1>5, <1>6
<1>9. r.mark = "active" => match'[r.ev] = "active"
  BY <1>5, <1>6
<1>. QED BY <1>2, <1>3, <1>4, <1>7, <1>8, <1>9

LEMMA CommitSound ==
    ASSUME MatchInv, NEW s \in Sessions, Commit(s), NEW t \in Sessions
    PROVE  (Formed(tx[t]) /\ Sound(tx[t]))'
<1>. DEFINE r == tx[s]
            q == tx[t]
<1>1. tx' = [tx EXCEPT ![s] = Idle] /\ tx \in [Sessions -> Transactions]
  BY DEF Commit, Step, MatchInv, TypeOK
<1>2. CASE t = s
  <2>1. tx'[t] = Idle
    BY <1>1, <1>2
  <2>. QED BY <2>1 DEF Idle, Formed, Sound
<1>3. CASE t # s
  <2>0. tx'[t] = q /\ q \in Transactions /\ Formed(q) /\ Sound(q) /\ Sound(r) /\ r \in Transactions
    BY <1>1, <1>3 DEF MatchInv
  <2>1. ASSUME q.key = "pair"
        PROVE  /\ \A u : Likes(u)' => Likes(u)
               /\ likes' \subseteq likes
               /\ Matched' => Matched
               /\ withdrew' = withdrew
    <3>1. r.key # "pair"
      BY <1>3, <2>1 DEF MatchInv, TypeOK
    <3>2. r.put # "like" /\ r.op # "change" /\ r.mark # "active"
      BY <2>0, <3>1 DEF Sound, LikeKnows, ChangeKnows
    <3>. QED BY <3>2, CommitEffects DEF Likes, Matched
  <2>2. \A e \in q.rows : match'[e] = match[e]
    <3>1. q.rows \cap r.rows = {} /\ q.rows \subseteq Events
      BY <1>3, <2>0 DEF MatchInv, TypeOK, Transactions
    <3>. QED BY <3>1, CommitEffects
  <2>3. \A e \in Events : match[e] = "active" => LikesOf(e)' \subseteq LikesOf(e)
    <3>1. r.put = "like" => ~Matched
      BY <2>0 DEF Sound, LikeKnows
    <3>. QED BY <3>1, CommitEffects DEF LikesOf, Matched
  <2>4. q.put = "like" => LikeKnows(q)'
    BY <2>0, <2>1 DEF Sound, LikeKnows
  <2>5. q.op = "change" => ChangeKnows(q)'
    BY <2>0, <2>1 DEF Sound, ChangeKnows
  <2>6. q.op \in {"end", "deleteEnd"} /\ q.at = "commit" => EndKnows(q)'
    BY <2>0, <2>2, <2>3 DEF Sound, EndKnows, Formed
  <2>7. q.op = "send" => match'[q.ev] = "active"
    BY <2>0, <2>2 DEF Sound
  <2>8. q.op = "unblock" => \A e \in q.rows : match'[e] = "blocked"
    BY <2>0, <2>2 DEF Sound
  <2>9. Formed(tx'[t]) /\ Sound(q)'
    BY <2>0, <2>4, <2>5, <2>6, <2>7, <2>8 DEF Sound
  <2>. QED BY <2>0, <2>9
<1>. QED BY <1>2, <1>3

LEMMA CommitPair ==
    ASSUME MatchInv, NEW s \in Sessions, Commit(s)
    PROVE  /\ \A u \in withdrew' : ~Likes(u)'
           /\ MatchHasLike'
           /\ MutualMeansMatched'
           /\ OneActiveMatch'
           /\ WithdrawnUnmatched'
<1>. DEFINE r == tx[s]
<1>1. /\ r \in Transactions /\ Formed(r) /\ Sound(r) /\ r.at = "commit" /\ r.op # "none"
      /\ likes \subseteq Reactions /\ likes' \subseteq Reactions
      /\ \A k, l \in likes' : k[2] = l[2] => k = l
      /\ \A k, l \in likes : k[2] = l[2] => k = l
      /\ likes' = (likes \ r.dels) \cup (IF r.put = "like" THEN {<<r.ev, r.by>>} ELSE {})
      /\ r.by \in Users
  <2>1. r \in Transactions /\ Formed(r) /\ Sound(r) /\ r.at = "commit"
    BY DEF MatchInv, TypeOK, Commit
  <2>2. r.op # "none" /\ r.by \in Users
    BY <2>1 DEF Formed, Idle
  <2>3. /\ likes \subseteq Reactions
        /\ \A k, l \in likes : k[2] = l[2] => k = l
    BY DEF MatchInv, TypeOK
  <2>4. likes' \subseteq Reactions /\ \A k, l \in likes' : k[2] = l[2] => k = l
    BY CommitTypes DEF TypeOK
  <2>. QED BY <2>1, <2>2, <2>3, <2>4 DEF Commit
<1>2. r.put # "like" => \A u : Likes(u)' => Likes(u)
  BY <1>1 DEF Likes
<1>3. r.put = "like" => LikeKnows(r) /\ r.ev \in Events
  BY <1>1 DEF Sound, Formed, LikeKnows
<1>4. r.put = "like" => \A u : u # r.by /\ Likes(u)' => Likes(u)
  BY <1>1 DEF Likes
<1>5. ASSUME NEW u \in withdrew' PROVE ~Likes(u)'
  <2>1. CASE r.put = "like"
    BY <1>3, <1>4, <2>1, CommitEffects DEF MatchInv
  <2>2. CASE r.op = "change"
    <3>1. r.put # "like" /\ r.dels = {<<r.ev, r.by>>} /\ \A l \in likes : l[2] = r.by => l[1] = r.ev
      BY <1>1, <2>2 DEF Sound, ChangeKnows
    <3>2. ASSUME NEW e \in Events, <<e, r.by>> \in likes' PROVE FALSE
      <4>1. <<e, r.by>> \in likes \ r.dels
        BY <1>1, <3>1, <3>2
      <4>2. e = r.ev
        BY <3>1, <4>1
      <4>. QED BY <3>1, <4>1, <4>2
    <3>3. CASE u = r.by
      BY <3>2, <3>3 DEF Likes
    <3>4. CASE u # r.by
      <4>1. u \in withdrew
        BY <2>2, <3>4, CommitEffects
      <4>. QED BY <1>2, <3>1, <4>1 DEF MatchInv
    <3>. QED BY <3>3, <3>4
  <2>3. CASE r.put # "like" /\ r.op # "change"
    BY <1>2, <2>3, CommitEffects DEF MatchInv
  <2>. QED BY <2>1, <2>2, <2>3
<1>6. OneActiveMatch'
  <2>1. r.mark = "active" => ~Matched
    BY <1>1 DEF Sound, LikeKnows
  <2>. QED BY <2>1, CommitEffects DEF MatchInv, OneActiveMatch, Matched
<1>7. MatchHasLike'
  <2>. SUFFICES ASSUME NEW e \in Events, match'[e] = "active", \A u \in Users : Likes(u)'
                PROVE  LikesOf(e)' # {}
    BY DEF MatchHasLike
  <2>1. CASE r.mark = "active" /\ e = r.ev
    <3>1. r.put = "like"
      BY <1>1, <2>1 DEF Sound
    <3>2. <<r.ev, r.by>> \in likes'
      BY <1>1, <3>1
    <3>. QED BY <2>1, <3>2 DEF LikesOf
  <2>2. CASE match[e] = "active"
    <3>1. r.put # "like"
      BY <1>3, <2>2 DEF LikeKnows, Matched
    <3>2. \A u \in Users : Likes(u)
      BY <1>2, <3>1
    <3>3. PICK l \in likes : l[1] = e
      BY <2>2, <3>2 DEF MatchInv, MatchHasLike, LikesOf
    <3>4. l[2] \in Users /\ l = <<l[1], l[2]>>
      BY <1>1 DEF Reactions
    <3>5. PICK f \in Events : <<f, l[2]>> \in likes'
      BY <3>4 DEF Likes
    <3>6. <<f, l[2]>> \in likes
      BY <1>1, <3>1, <3>5
    <3>7. <<f, l[2]>> = l
      BY <1>1, <3>6
    <3>. QED BY <3>3, <3>5, <3>7 DEF LikesOf
  <2>. QED BY <2>1, <2>2, CommitEffects
<1>8. WithdrawnUnmatched'
  <2>. SUFFICES ASSUME withdrew' # {} PROVE ~Matched'
    BY DEF WithdrawnUnmatched
  <2>1. CASE r.mark = "active"
    <3>1. r.put = "like" /\ Other(r.by) \notin withdrew
      BY <1>1, <2>1 DEF Sound, LikeKnows
    <3>2. withdrew' = {}
      BY <1>1, <3>1, OtherUser, CommitEffects DEF MatchInv, TypeOK
    <3>. QED BY <3>2
  <2>2. CASE r.mark # "active"
    <3>1. Matched' => Matched
      BY <2>2, CommitEffects DEF Matched
    <3>2. r.op = "change" => ~Matched
      BY <1>1 DEF Sound, ChangeKnows
    <3>3. withdrew # {} => ~Matched
      BY DEF MatchInv, WithdrawnUnmatched
    <3>4. CASE r.op = "change"
      BY <3>1, <3>2, <3>4
    <3>5. CASE r.op # "change"
      BY <3>1, <3>3, <3>5, CommitEffects
    <3>. QED BY <3>4, <3>5
  <2>. QED BY <2>1, <2>2
<1>9. MutualMeansMatched'
  <2>. SUFFICES ASSUME ~blocked', \A u \in Users : Likes(u)' PROVE Matched'
    BY DEF MutualMeansMatched
  <2>1. ~blocked /\ r.op \notin {"block", "deleteBlock"}
    BY DEF Commit
  <2>2. CASE r.put = "like"
    <3>1. Likes(Other(r.by))
      BY <1>1, <1>4, <2>2, OtherUser
    <3>2. r.mark = "active"
      BY <1>1, <1>3, <2>2, <3>1 DEF LikeKnows
    <3>. QED BY <1>3, <2>2, <3>2, CommitEffects DEF Matched
  <2>3. CASE r.put # "like"
    <3>1. \A u \in Users : Likes(u)
      BY <1>2, <2>3
    <3>2. PICK e \in Events : match[e] = "active"
      BY <2>1, <3>1 DEF MatchInv, MutualMeansMatched, Matched
    <3>3. CASE r.op \in {"end", "deleteEnd"} /\ e = r.ev
      <4>1. LikesOf(e) \subseteq r.dels
        BY <1>1, <3>2, <3>3 DEF Sound, EndKnows
      <4>2. PICK l \in likes : l[1] = e
        BY <3>1, <3>2 DEF MatchInv, MatchHasLike, LikesOf
      <4>3. l[2] \in Users /\ l = <<l[1], l[2]>>
        BY <1>1 DEF Reactions
      <4>4. PICK f \in Events : <<f, l[2]>> \in likes'
        BY <4>3 DEF Likes
      <4>5. <<f, l[2]>> = l /\ l \notin r.dels
        BY <1>1, <2>3, <4>4
      <4>. QED BY <4>1, <4>2, <4>5 DEF LikesOf
    <3>4. CASE ~(r.op \in {"end", "deleteEnd"} /\ e = r.ev)
      <4>1. e \notin r.rows \/ r.mark = "none"
        BY <1>1, <2>1, <2>3, <3>2, <3>4 DEF Sound, EndKnows, Formed, Transactions, Ops, Swipes, Deletes, ChangeKnows
      <4>. QED BY <3>2, <4>1, CommitEffects DEF Matched
    <3>. QED BY <3>3, <3>4
  <2>. QED BY <2>2, <2>3
<1>. QED BY <1>5, <1>6, <1>7, <1>8, <1>9

LEMMA MatchStep == MatchInv /\ [Next]_vars => MatchInv'
<1>. SUFFICES ASSUME MatchInv, [Next]_vars PROVE MatchInv'
  OBVIOUS
<1>1. ASSUME NEW s \in Sessions, Commit(s) PROVE MatchInv'
  BY <1>1, CommitTypes, CommitSound, CommitPair DEF MatchInv
<1>2. CASE UNCHANGED vars
  <2>1. TypeOK'
    BY <1>2 DEF vars, MatchInv, TypeOK
  <2>2. ASSUME NEW s \in Sessions PROVE (Formed(tx[s]) /\ Sound(tx[s]))'
    BY <1>2 DEF vars, MatchInv, Sound, Formed, LikeKnows, ChangeKnows, EndKnows, Likes, Matched, LikesOf
  <2>. QED BY <1>2, <2>1, <2>2 DEF vars, MatchInv, Likes, Matched, LikesOf, MatchHasLike,
              MutualMeansMatched, OneActiveMatch, WithdrawnUnmatched
<1>3. CASE Next
  BY <1>1, <1>3, Begins, RowCalls, Changes, Blocks, Unblocks, Decides, Upserts, Deletions, Scans,
     RowsTaken, Aborts DEF Next
<1>. QED BY <1>2, <1>3

LEMMA Invariant == Spec => []MatchInv
BY Initially, MatchStep, PTL DEF Spec

-----------------------------------------------------------------------------
\* The tables and the transactions keep their types, no advisory lock and no
\* row has two holders, and a user likes another in one event at most
\* (event_likes_global_reaction_idx never refuses an insert).
THEOREM TypeCorrect == Spec => []TypeOK
<1>1. MatchInv => TypeOK
  BY DEF MatchInv
<1>. QED BY <1>1, Invariant, PTL

\* Two users who like each other are matched, as long as nobody has blocked:
\* for any number of events and of connections of swipe_event_candidate,
\* change_event_like_to_pass, end_match and delete_match_chat.
THEOREM MutualMatched == Spec => []MutualMeansMatched
<1>1. MatchInv => MutualMeansMatched
  BY DEF MatchInv
<1>. QED BY <1>1, Invariant, PTL

\* A pair has one active match, whatever the number of events it attends.
THEOREM OneMatch == Spec => []OneActiveMatch
<1>1. MatchInv => OneActiveMatch
  BY DEF MatchInv
<1>. QED BY <1>1, Invariant, PTL

\* A like turned into a pass by change_event_like_to_pass makes no match,
\* not even by a swipe that was waiting or half done.
THEOREM WithdrawnStays == Spec => []WithdrawnUnmatched
<1>1. MatchInv => WithdrawnUnmatched
  BY DEF MatchInv
<1>. QED BY <1>1, Invariant, PTL

\* send_direct_message stores into an active match only: its row lock holds
\* off end_match, delete_match_chat and the update of block_user.
THEOREM SendsActive == Spec => []SendsIntoActive
<1>1. MatchInv => SendsIntoActive
  BY DEF MatchInv, SendsIntoActive, Sound
<1>. QED BY <1>1, Invariant, PTL

-----------------------------------------------------------------------------
(* Lists of the chat outbox *)

\* A set of numbers has a least one.
LEMMA LeastNumber ==
    ASSUME NEW T \in SUBSET Nat, T # {}
    PROVE  \E x \in T : \A y \in T : x <= y
  <1> DEFINE R == OpToRel(<, Nat)
  <1>1. IsWellFoundedOn(R, Nat)  BY NatLessThanWellFounded, Zenon
  <1>2. \A x, y \in Nat : <<y, x>> \in R <=> y < x  BY DEF OpToRel
  <1> HIDE DEF R
  <1>3. PICK x \in T : \A y \in T : ~(<<y, x>> \in R)  BY <1>1, WFMin
  <1>4. ASSUME NEW y \in T  PROVE x <= y
    <2>1. y \in Nat /\ x \in Nat /\ ~(y < x)  BY <1>2, <1>3
    <2> QED  BY <2>1
  <1> QED  BY <1>4

\* And one below a bound has a greatest one.
LEMMA GreatestNumber ==
    ASSUME NEW n \in Nat, NEW T \in SUBSET (1..n), T # {}, NEW x, x = Chat!Max(T)
    PROVE  x \in T /\ \A y \in T : y <= x
  <1> DEFINE U == {u \in Nat : \A y \in T : y <= u}
  <1>1. n \in U  OBVIOUS
  <1>2. PICK u \in U : \A v \in U : u <= v
    <2>1. U \in SUBSET Nat /\ U # {}  BY <1>1
    <2> HIDE DEF U
    <2> QED  BY <2>1, LeastNumber
  <1>3. u \in T
    <2> SUFFICES ASSUME u \notin T  PROVE FALSE
      OBVIOUS
    <2>1. \A y \in T : y <= u - 1 /\ u - 1 \in Nat  BY <1>2
    <2>2. u - 1 \in U  BY <2>1
    <2>3. u <= u - 1 /\ u \in Nat  BY <1>2, <2>2
    <2> QED  BY <2>3
  <1>4. \A y \in T : u >= y  BY <1>2
  <1>5. x = CHOOSE z \in T : \A y \in T : z >= y  BY DEF Chat!Max
  <1>6. x \in T /\ \A y \in T : x >= y  BY <1>3, <1>4, <1>5
  <1>7. T \subseteq Nat  OBVIOUS
  <1> QED  BY <1>6, <1>7

\* Filtering a sequence keeps the chosen elements, and no other.
LEMMA FilteredAre ==
    ASSUME NEW S, NEW s \in Seq(S), NEW chosen \in SUBSET DOMAIN s, NEW f, f = Chat!Filtered(s, chosen)
    PROVE  /\ f \in Seq(S) /\ Len(f) <= Len(s)
           /\ \A i \in chosen : \E k \in DOMAIN f : f[k] = s[i]
           /\ \A k \in DOMAIN f : \E i \in chosen : f[k] = s[i]
  <1> DEFINE Upto(i) == {j \in chosen : j <= i}
             N == Cardinality(chosen)
             r == [i \in chosen |-> Cardinality(Upto(i))]
             nth(k) == CHOOSE i \in chosen : Chat!Cardinality({j \in chosen : j <= i}) = k
  <1>0. \A T : Chat!Cardinality(T) = Cardinality(T)  BY DEF Chat!Cardinality, Cardinality
  <1>1. chosen \subseteq 1..Len(s) /\ Len(s) \in Nat  OBVIOUS
  <1>2. IsFiniteSet(1..Len(s)) /\ Cardinality(1..Len(s)) = Len(s)
    <2>1. 1 \in Int /\ Len(s) \in Int /\ (IF 1 > Len(s) THEN 0 ELSE Len(s) - 1 + 1) = Len(s)  BY <1>1
    <2> QED  BY <2>1, FS_Interval
  <1>3. IsFiniteSet(chosen) /\ N \in Nat /\ N <= Len(s)
    BY <1>1, <1>2, FS_Subset, FS_CardinalityType
  <1>4. ASSUME NEW i \in chosen
        PROVE  IsFiniteSet(Upto(i)) /\ Cardinality(Upto(i)) \in 1..N
    <2>1. Upto(i) \in SUBSET chosen /\ i \in Upto(i)  BY <1>1
    <2> HIDE DEF Upto
    <2>2. IsFiniteSet(Upto(i)) /\ Cardinality(Upto(i)) <= N  BY <1>3, <2>1, FS_Subset
    <2>3. Cardinality(Upto(i)) \in Nat /\ Cardinality(Upto(i)) # 0
      BY <2>1, <2>2, FS_CardinalityType, FS_EmptySet
    <2> HIDE DEF N
    <2> QED  BY <1>3, <2>2, <2>3
  <1>5. ASSUME NEW i \in chosen, NEW j \in chosen, i < j
        PROVE  Cardinality(Upto(i)) # Cardinality(Upto(j))
    <2>1. Upto(i) \in SUBSET Upto(j) /\ j \in Upto(j) /\ j \notin Upto(i)  BY <1>1, <1>5
    <2> HIDE DEF Upto
    <2> QED  BY <1>4, <2>1, FS_Subset
  <1> HIDE DEF Upto, N
  <1>6. r \in Injection(chosen, 1..N)
    <2>1. r \in [chosen -> 1..N]  BY <1>4
    <2>2. ASSUME NEW i \in chosen, NEW j \in chosen, i # j  PROVE r[i] # r[j]
      <3>1. i < j \/ j < i  BY <1>1, <2>2
      <3>2. r[i] = Cardinality(Upto(i)) /\ r[j] = Cardinality(Upto(j))  OBVIOUS
      <3> HIDE DEF r
      <3> QED  BY <1>5, <3>1, <3>2
    <2> HIDE DEF r
    <2> QED  BY <2>1, <2>2 DEF Injection, IsInjective
  <1>7. IsFiniteSet(1..N) /\ Cardinality(1..N) = N
    <2>1. 1 \in Int /\ N \in Int /\ (IF 1 > N THEN 0 ELSE N - 1 + 1) = N  BY <1>3
    <2> QED  BY <2>1, FS_Interval
  <1>8. r \in Surjection(chosen, 1..N)
    <2> HIDE DEF r
    <2> QED  BY <1>3, <1>6, <1>7, FS_Injection DEF N
  <1>9. ASSUME NEW k \in 1..N  PROVE nth(k) \in chosen /\ Cardinality(Upto(nth(k))) = k
    <2>1. PICK i \in chosen : r[i] = k  BY <1>8 DEF Surjection
    <2>2. Chat!Cardinality({j \in chosen : j <= i}) = k  BY <1>0, <2>1 DEF Upto
    <2>3. nth(k) \in chosen /\ Chat!Cardinality({j \in chosen : j <= nth(k)}) = k  BY <2>2
    <2> HIDE DEF nth
    <2> QED  BY <1>0, <2>3 DEF Upto
  <1>10. f = [k \in 1..N |-> s[nth(k)]]
    <2>1. f = [k \in 1..Chat!Cardinality(chosen) |-> s[nth(k)]]  BY DEF Chat!Filtered
    <2> HIDE DEF nth
    <2> QED  BY <1>0, <2>1 DEF N
  <1>11. f \in Seq(S) /\ DOMAIN f = 1..N /\ Len(f) = N
    <2> HIDE DEF nth
    <2>1. \A k \in 1..N : s[nth(k)] \in S  BY <1>1, <1>9
    <2>2. f \in [1..N -> S]  BY <1>10, <2>1
    <2> QED  BY <1>3, <2>2
  <1>12. ASSUME NEW i \in chosen  PROVE \E k \in DOMAIN f : f[k] = s[i]
    <2>1. PICK k \in 1..N : k = Cardinality(Upto(i))  BY <1>4
    <2>2. nth(k) \in chosen /\ Cardinality(Upto(nth(k))) = Cardinality(Upto(i))  BY <1>9, <2>1
    <2> DEFINE x == nth(k)
    <2>3. f[k] = s[x] /\ x \in chosen /\ Cardinality(Upto(x)) = Cardinality(Upto(i))  BY <1>10, <2>2
    <2> HIDE DEF x, nth
    <2>4. ~(x < i) /\ ~(i < x)  BY <1>5, <2>3
    <2>5. x = i  BY <1>1, <2>3, <2>4
    <2> QED  BY <1>11, <2>3, <2>5
  <1>13. \A k \in DOMAIN f : \E i \in chosen : f[k] = s[i]
    <2> HIDE DEF nth
    <2> QED  BY <1>9, <1>10, <1>11
  <1> QED  BY <1>3, <1>11, <1>12, <1>13

\* What the lists are.
LEMMA ListsAre ==
    ASSUME Chat!ChatOutboxAssumption
    PROVE  /\ \A s : s \in Chat!Lists <=> s \in Seq(Chat!Entries) /\ Len(s) <= Capacity
           /\ <<>> \in Chat!Lists /\ Chat!Torn \notin Chat!Lists
  <1>1. Capacity \in Nat \ {0}  BY DEF Chat!ChatOutboxAssumption
  <1>2. ASSUME NEW s \in Chat!Lists  PROVE s \in Seq(Chat!Entries) /\ Len(s) <= Capacity
    <2>1. PICK n \in 0..Capacity : s \in [1..n -> Chat!Entries]  BY DEF Chat!Lists
    <2>2. n \in Nat /\ n <= Capacity  BY <1>1, <2>1
    <2> QED  BY <2>1, <2>2
  <1>3. ASSUME NEW s \in Seq(Chat!Entries), Len(s) <= Capacity  PROVE s \in Chat!Lists
    <2>1. Len(s) \in 0..Capacity /\ s \in [1..Len(s) -> Chat!Entries]  BY <1>1, <1>3
    <2> QED  BY <2>1 DEF Chat!Lists
  <1>4. <<>> \in Chat!Lists
    <2>1. <<>> \in Seq(Chat!Entries) /\ Len(<<>>) = 0  OBVIOUS
    <2>2. 0 <= Capacity  BY <1>1
    <2> QED  BY <1>3, <2>1, <2>2
  <1>5. Chat!Torn \notin Chat!Lists
    <2>1. Chat!Torn[1] = <<>> /\ 1 \in DOMAIN Chat!Torn  BY DEF Chat!Torn
    <2>2. \A x \in Chat!Entries : x # <<>>  BY DEF Chat!Entries
    <2>3. \A s \in Seq(Chat!Entries) : \A i \in DOMAIN s : s[i] \in Chat!Entries  OBVIOUS
    <2> QED  BY <1>2, <2>1, <2>2, <2>3
  <1> QED  BY <1>2, <1>3, <1>4, <1>5

\* What a list is after its last entries only, or some of them, are kept.
LEMMA FitKeeps ==
    ASSUME Chat!ChatOutboxAssumption, NEW s \in Seq(Chat!Entries), NEW f, f = Chat!FitStorageLimit(s)
    PROVE  /\ f \in Chat!Lists /\ Chat!Ids(f) \subseteq Chat!Ids(s)
           /\ Len(s) <= Capacity => f = s
  <1>1. Capacity \in Nat \ {0} /\ Len(s) \in Nat  BY DEF Chat!ChatOutboxAssumption
  <1>2. CASE Len(s) <= Capacity
    <2>1. f = s  BY <1>2 DEF Chat!FitStorageLimit
    <2> QED  BY <1>2, <2>1, ListsAre
  <1>3. CASE ~(Len(s) <= Capacity)
    <2> DEFINE a == Len(s) - Capacity + 1
               b == Len(s)
    <2>1. f = SubSeq(s, a, b)  BY <1>3 DEF Chat!FitStorageLimit, Chat!Fit
    <2>2. a \in Int /\ b \in Int /\ a <= b /\ b - a + 1 = Capacity /\ a >= 1  BY <1>1, <1>3
    <2>3. \A i \in a..b : i \in DOMAIN s /\ s[i] \in Chat!Entries  BY <1>1, <2>2
    <2> HIDE DEF a, b
    <2>4. SubSeq(s, a, b) \in Seq(Chat!Entries)  BY <2>2, <2>3, SubSeqProperties
    <2>5. Len(SubSeq(s, a, b)) = IF a <= b THEN b - a + 1 ELSE 0  BY <2>2, <2>3, SubSeqProperties
    <2>6. \A i \in 1..(b - a + 1) : SubSeq(s, a, b)[i] = s[a + i - 1]  BY <2>2, <2>3, SubSeqProperties
    <2>7. f \in Seq(Chat!Entries) /\ Len(f) = Capacity  BY <2>1, <2>2, <2>4, <2>5
    <2>8. \A i \in DOMAIN f : f[i] = s[a + i - 1] /\ a + i - 1 \in DOMAIN s
      <3>1. DOMAIN f = 1..(b - a + 1)  BY <2>2, <2>7
      <3>2. \A i \in 1..(b - a + 1) : a + i - 1 \in a..b  BY <2>2
      <3> QED  BY <2>1, <2>3, <2>6, <3>1, <3>2
    <2>9. Chat!Ids(f) \subseteq Chat!Ids(s)  BY <2>8 DEF Chat!Ids
    <2>10. f \in Chat!Lists  BY <1>1, <2>7, ListsAre
    <2> QED  BY <1>3, <2>9, <2>10
  <1> QED  BY <1>2, <1>3

LEMMA FilteredLists ==
    ASSUME Chat!ChatOutboxAssumption, NEW s \in Chat!Lists, NEW chosen \in SUBSET DOMAIN s,
           NEW f, f = Chat!Filtered(s, chosen)
    PROVE  /\ f \in Chat!Lists /\ Chat!Ids(f) = {s[i][1] : i \in chosen} /\ Chat!FitStorageLimit(f) = f
           /\ \A k \in DOMAIN f : \E i \in chosen : f[k] = s[i]
  <1>1. s \in Seq(Chat!Entries) /\ Len(s) <= Capacity /\ Capacity \in Nat
    BY ListsAre DEF Chat!ChatOutboxAssumption
  <1>2. /\ f \in Seq(Chat!Entries) /\ Len(f) <= Len(s)
        /\ \A i \in chosen : \E k \in DOMAIN f : f[k] = s[i]
        /\ \A k \in DOMAIN f : \E i \in chosen : f[k] = s[i]
    BY <1>1, FilteredAre
  <1>3. Len(f) <= Capacity /\ f \in Chat!Lists
    <2>1. Len(f) \in Nat /\ Len(s) \in Nat  BY <1>1, <1>2
    <2>2. Len(f) <= Capacity  BY <1>1, <1>2, <2>1
    <2> QED  BY <1>2, <2>2, ListsAre
  <1>4. Chat!Ids(f) = {s[i][1] : i \in chosen}  BY <1>2 DEF Chat!Ids
  <1>5. Chat!FitStorageLimit(f) = f  BY <1>2, <1>3, FitKeeps
  <1> QED  BY <1>2, <1>3, <1>4, <1>5

\* What is read of a list: the entries that have not expired.
LEMMA Parses ==
    ASSUME Chat!ChatOutboxAssumption, NEW s \in Chat!Lists, NEW f, f = Chat!Parse(s)
    PROVE  f \in Chat!Lists /\ Chat!Ids(f) = Chat!Ids(s) \ expired
  <1> DEFINE chosen == {i \in DOMAIN s : s[i][1] \notin expired}
             g == Chat!Filtered(s, chosen)
  <1>1. f = Chat!FitStorageLimit(g)  BY DEF Chat!Parse
  <1>2. chosen \in SUBSET DOMAIN s  OBVIOUS
  <1>3. Chat!Ids(s) \ expired = {s[i][1] : i \in chosen}  BY DEF Chat!Ids
  <1>4. g = Chat!Filtered(s, chosen)  OBVIOUS
  <1> HIDE DEF chosen, g
  <1>5. g \in Chat!Lists /\ Chat!Ids(g) = {s[i][1] : i \in chosen} /\ Chat!FitStorageLimit(g) = g
    BY <1>2, <1>4, FilteredLists
  <1> QED  BY <1>1, <1>3, <1>5

-----------------------------------------------------------------------------
(* The keychain *)

Keys == {"main", "backup"}
Disks == [Keys -> Chat!Lists \cup {Chat!Torn}]

\* What can be read of the keychain.
LEMMA Reads ==
    ASSUME Chat!ChatOutboxAssumption, NEW d \in Disks
    PROVE  /\ Chat!Readable(d) \in Chat!Lists
           /\ d["main"] # Chat!Torn => Chat!Ids(Chat!Readable(d)) = Chat!Ids(d["main"]) \ expired
           /\ d["main"] = Chat!Torn /\ d["backup"] # Chat!Torn
                  => Chat!Ids(Chat!Readable(d)) = Chat!Ids(d["backup"]) \ expired
           /\ d["main"] = Chat!Torn /\ d["backup"] = Chat!Torn => Chat!Readable(d) = <<>>
  <1>1. d["main"] \in Chat!Lists \cup {Chat!Torn} /\ d["backup"] \in Chat!Lists \cup {Chat!Torn}
    BY DEF Disks, Keys
  <1>2. \A s \in Chat!Lists : Chat!Parse(s) \in Chat!Lists /\ Chat!Ids(Chat!Parse(s)) = Chat!Ids(s) \ expired
    BY Parses
  <1>3. CASE d["main"] # Chat!Torn
    <2>1. Chat!Readable(d) = Chat!Parse(d["main"])  BY <1>3 DEF Chat!Readable
    <2> QED  BY <1>1, <1>2, <1>3, <2>1
  <1>4. CASE d["main"] = Chat!Torn /\ d["backup"] # Chat!Torn
    <2>1. Chat!Readable(d) = Chat!Parse(d["backup"])  BY <1>4 DEF Chat!Readable
    <2> QED  BY <1>1, <1>2, <1>4, <2>1
  <1>5. CASE d["main"] = Chat!Torn /\ d["backup"] = Chat!Torn
    <2>1. Chat!Readable(d) = <<>>  BY <1>5 DEF Chat!Readable
    <2> QED  BY <1>5, <2>1, ListsAre
  <1> QED  BY <1>3, <1>4, <1>5

\* The last call to a key decides; without one the key stays.
LastCall(d, calls, key, v) ==
    \/ \E i \in DOMAIN calls : /\ calls[i][1] = key /\ v = calls[i][2]
                               /\ \A j \in DOMAIN calls : j > i => calls[j][1] # key
    \/ v = d[key] /\ \A i \in DOMAIN calls : calls[i][1] # key

LEMMA LastDecides ==
    ASSUME NEW d \in Disks, NEW calls \in Seq(Keys \X Chat!Lists), NEW e, e = Chat!After(d, calls)
    PROVE  e \in Disks /\ \A key \in Keys : LastCall(d, calls, key, e[key])
  <1>1. DOMAIN d = Keys /\ \A key \in Keys : d[key] \in Chat!Lists \cup {Chat!Torn}  BY DEF Disks
  <1>2. ASSUME NEW key \in Keys
        PROVE e[key] \in Chat!Lists \cup {Chat!Torn} /\ LastCall(d, calls, key, e[key])
    <2> DEFINE writes == {i \in DOMAIN calls : calls[i][1] = key}
               x == Chat!Max(writes)
    <2>1. e[key] = IF writes = {} THEN d[key] ELSE calls[x][2]  BY <1>1 DEF Chat!After
    <2>2. CASE writes = {}
      <3>1. e[key] = d[key] /\ \A i \in DOMAIN calls : calls[i][1] # key  BY <2>1, <2>2
      <3> QED  BY <1>1, <3>1 DEF LastCall
    <2>3. CASE writes # {}
      <3>1. Len(calls) \in Nat /\ writes \in SUBSET (1..Len(calls)) /\ DOMAIN calls = 1..Len(calls)  OBVIOUS
      <3>2. x = Chat!Max(writes)  OBVIOUS
      <3>3. x \in writes /\ \A i \in writes : i <= x
        <4> HIDE DEF writes, x
        <4> QED  BY <2>3, <3>1, <3>2, GreatestNumber
      <3>4. x \in DOMAIN calls /\ calls[x][1] = key /\ e[key] = calls[x][2]  BY <2>1, <2>3, <3>3
      <3>5. \A j \in DOMAIN calls : j > x => calls[j][1] # key
        <4> HIDE DEF x
        <4> QED  BY <3>1, <3>3
      <3> HIDE DEF x, writes
      <3>6. calls[x][2] \in Chat!Lists
        <4>1. calls[x] \in Keys \X Chat!Lists  BY <3>4
        <4> QED  BY <4>1
      <3> QED  BY <3>4, <3>5, <3>6 DEF LastCall
    <2> QED  BY <2>2, <2>3
  <1>3. e = [key \in Keys |-> e[key]]  BY <1>1 DEF Chat!After
  <1> QED  BY <1>2, <1>3 DEF Disks

LEMMA OneDecision ==
    ASSUME NEW d, NEW calls, DOMAIN calls \subseteq Nat, NEW key, NEW v, NEW u,
           LastCall(d, calls, key, v), LastCall(d, calls, key, u)
    PROVE  v = u
  <1>1. CASE \A i \in DOMAIN calls : calls[i][1] # key  BY <1>1 DEF LastCall
  <1>2. CASE \E i \in DOMAIN calls : calls[i][1] = key
    <2>1. PICK i \in DOMAIN calls : /\ calls[i][1] = key /\ v = calls[i][2]
                                    /\ \A j \in DOMAIN calls : j > i => calls[j][1] # key
      BY <1>2 DEF LastCall
    <2>2. PICK j \in DOMAIN calls : /\ calls[j][1] = key /\ u = calls[j][2]
                                    /\ \A k \in DOMAIN calls : k > j => calls[k][1] # key
      BY <1>2 DEF LastCall
    <2>3. i \in Nat /\ j \in Nat /\ ~(j > i) /\ ~(i > j)  BY <2>1, <2>2
    <2>4. i = j  BY <2>3
    <2> QED  BY <2>1, <2>2, <2>4
  <1> QED  BY <1>1, <1>2

\* Calls one after another.
LEMMA AfterBoth ==
    ASSUME NEW d \in Disks, NEW r \in Seq(Keys \X Chat!Lists), NEW w \in Seq(Keys \X Chat!Lists)
    PROVE  Chat!After(d, r \o w) = Chat!After(Chat!After(d, r), w)
  <1> DEFINE c == r \o w
             m == Chat!After(d, r)
             e == Chat!After(m, w)
             f == Chat!After(d, c)
  <1>1. c \in Seq(Keys \X Chat!Lists) /\ Len(c) = Len(r) + Len(w) /\ Len(r) \in Nat /\ Len(w) \in Nat
        /\ (\A i \in 1..Len(r) : c[i] = r[i]) /\ (\A i \in 1..Len(w) : c[Len(r) + i] = w[i])
        /\ DOMAIN c = 1..(Len(r) + Len(w)) /\ DOMAIN r = 1..Len(r) /\ DOMAIN w = 1..Len(w)
    OBVIOUS
  <1>2. m \in Disks /\ \A key \in Keys : LastCall(d, r, key, m[key])  BY LastDecides
  <1>3. e \in Disks /\ \A key \in Keys : LastCall(m, w, key, e[key])
    <2> HIDE DEF m
    <2> QED  BY <1>2, LastDecides
  <1>4. f \in Disks /\ \A key \in Keys : LastCall(d, c, key, f[key])
    <2> HIDE DEF c
    <2> QED  BY <1>1, LastDecides
  <1>9. f = Chat!After(d, r \o w) /\ e = Chat!After(Chat!After(d, r), w)  OBVIOUS
  <1> HIDE DEF c, m, e, f
  <1>5. ASSUME NEW key \in Keys  PROVE LastCall(d, c, key, e[key])
    <2>1. CASE \A i \in DOMAIN w : w[i][1] # key
      <3>1. e[key] = m[key]  BY <1>3, <2>1 DEF LastCall
      <3>2. \A i \in DOMAIN c : c[i][1] = key => i \in DOMAIN r
        <4> TAKE i \in DOMAIN c
        <4>1. CASE i \in 1..Len(r)  BY <1>1, <4>1
        <4>2. CASE i - Len(r) \in DOMAIN w /\ Len(r) + (i - Len(r)) = i
          <5>1. c[i] = w[i - Len(r)]  BY <1>1, <4>2
          <5> QED  BY <2>1, <4>2, <5>1
        <4> QED  BY <1>1, <4>1, <4>2
      <3>3. \A i \in DOMAIN r : i \in DOMAIN c /\ c[i] = r[i]  BY <1>1
      <3>4. LastCall(d, r, key, e[key])  BY <1>2, <3>1
      <3>5. CASE \A i \in DOMAIN r : r[i][1] # key
        <4>1. e[key] = d[key]  BY <3>4, <3>5 DEF LastCall
        <4>2. \A i \in DOMAIN c : c[i][1] # key  BY <3>2, <3>3, <3>5
        <4> QED  BY <4>1, <4>2 DEF LastCall
      <3>6. CASE \E i \in DOMAIN r : r[i][1] = key
        <4>1. PICK i \in DOMAIN r : /\ r[i][1] = key /\ e[key] = r[i][2]
                                    /\ \A j \in DOMAIN r : j > i => r[j][1] # key
          BY <3>4, <3>6 DEF LastCall
        <4>2. \A j \in DOMAIN c : j > i => c[j][1] # key  BY <3>2, <3>3, <4>1
        <4> QED  BY <3>3, <4>1, <4>2 DEF LastCall
      <3> QED  BY <3>5, <3>6
    <2>2. CASE \E i \in DOMAIN w : w[i][1] = key
      <3>1. PICK i \in DOMAIN w : /\ w[i][1] = key /\ e[key] = w[i][2]
                                  /\ \A j \in DOMAIN w : j > i => w[j][1] # key
        BY <1>3, <2>2 DEF LastCall
      <3>2. Len(r) + i \in DOMAIN c /\ c[Len(r) + i] = w[i]  BY <1>1
      <3>3. \A j \in DOMAIN c : j > Len(r) + i => j - Len(r) \in DOMAIN w /\ j - Len(r) > i /\ c[j] = w[j - Len(r)]
        <4> TAKE j \in DOMAIN c
        <4> HAVE j > Len(r) + i
        <4>1. j - Len(r) \in DOMAIN w /\ j - Len(r) > i /\ Len(r) + (j - Len(r)) = j  BY <1>1
        <4> QED  BY <1>1, <4>1
      <3> QED  BY <3>1, <3>2, <3>3 DEF LastCall
    <2> QED  BY <2>1, <2>2
  <1>6. \A key \in Keys : e[key] = f[key]
    <2>1. DOMAIN c \subseteq Nat  BY <1>1
    <2> QED  BY <1>4, <1>5, <2>1, OneDecision
  <1> QED  BY <1>3, <1>4, <1>6, <1>9 DEF Disks

\* The keychain when the process dies: after a call, or with the item torn
\* that the call was writing.
Upto(calls, n) == SubSeq(calls, 1, n)
Dies(d, calls, e) ==
    \E n \in DOMAIN calls :
        \/ e = Chat!After(d, Upto(calls, n))
        \/ /\ calls[n][2] # <<>>
           /\ e = [Chat!After(d, Upto(calls, n - 1)) EXCEPT ![calls[n][1]] = Chat!Torn]

\* The first calls of some calls.
LEMMA FirstCalls ==
    ASSUME NEW S, NEW c \in Seq(S), NEW n \in Nat, n <= Len(c), NEW u, u = Upto(c, n)
    PROVE  u \in Seq(S) /\ Len(u) = n /\ \A i \in 1..n : u[i] = c[i]
  <1>1. n \in Int /\ n - 1 + 1 = n /\ \A i \in 1..n : 1 + i - 1 = i /\ c[i] \in S  OBVIOUS
  <1>2. SubSeq(c, 1, n) \in Seq(S)  BY <1>1, SubSeqProperties
  <1>3. Len(SubSeq(c, 1, n)) = IF 1 <= n THEN n - 1 + 1 ELSE 0  BY <1>1, SubSeqProperties
  <1>4. \A i \in 1..(n - 1 + 1) : SubSeq(c, 1, n)[i] = c[1 + i - 1]  BY <1>1, SubSeqProperties
  <1>5. Len(u) = n
    <2>1. 1 <= n \/ n = 0  OBVIOUS
    <2> QED  BY <1>1, <1>3, <2>1 DEF Upto
  <1> QED  BY <1>1, <1>2, <1>4, <1>5 DEF Upto

\* The first calls of two rounds are the first of one, or all of one and the
\* first of the other.
LEMMA FirstOfBoth ==
    ASSUME NEW S, NEW r \in Seq(S), NEW w \in Seq(S), NEW n \in Nat, n <= Len(r) + Len(w)
    PROVE  /\ n <= Len(r) => Upto(r \o w, n) = Upto(r, n)
           /\ n >= Len(r) => Upto(r \o w, n) = r \o Upto(w, n - Len(r))
  <1> DEFINE c == r \o w
             u == Upto(c, n)
  <1>1. c \in Seq(S) /\ Len(c) = Len(r) + Len(w) /\ Len(r) \in Nat /\ Len(w) \in Nat
        /\ (\A i \in 1..Len(r) : c[i] = r[i]) /\ (\A i \in 1..Len(w) : c[Len(r) + i] = w[i])
    OBVIOUS
  <1>2. u \in Seq(S) /\ Len(u) = n /\ \A i \in 1..n : u[i] = c[i]
    <2>1. c \in Seq(S) /\ n <= Len(c) /\ u = Upto(c, n)  BY <1>1
    <2> HIDE DEF c, u
    <2> QED  BY <2>1, FirstCalls
  <1> HIDE DEF c, u
  <1>3. ASSUME n <= Len(r)  PROVE u = Upto(r, n)
    <2> DEFINE v == Upto(r, n)
    <2>1. v \in Seq(S) /\ Len(v) = n /\ \A i \in 1..n : v[i] = r[i]  BY <1>3, FirstCalls
    <2> HIDE DEF v
    <2>2. \A i \in 1..n : u[i] = v[i]
      <3>1. \A i \in 1..n : i \in 1..Len(r)  BY <1>1, <1>3
      <3>2. \A i \in 1..n : u[i] = c[i] /\ c[i] = r[i]  BY <1>1, <1>2, <3>1
      <3> QED  BY <2>1, <3>2
    <2>3. u = v  BY <1>2, <2>1, <2>2
    <2> QED  BY <2>3 DEF v
  <1>4. ASSUME n >= Len(r)  PROVE u = r \o Upto(w, n - Len(r))
    <2> DEFINE k == n - Len(r)
               v == Upto(w, k)
               x == r \o v
    <2>0. k \in Nat /\ k <= Len(w) /\ n = Len(r) + k  BY <1>1, <1>4
    <2> HIDE DEF k
    <2>1. v \in Seq(S) /\ Len(v) = k /\ \A i \in 1..k : v[i] = w[i]  BY <2>0, FirstCalls
    <2> HIDE DEF v
    <2>2. x \in Seq(S) /\ Len(x) = Len(r) + k /\ (\A i \in 1..Len(r) : x[i] = r[i])
          /\ (\A i \in 1..k : x[Len(r) + i] = v[i])
      BY <2>1
    <2> HIDE DEF x
    <2>3. \A i \in 1..n : u[i] = x[i]
      <3> TAKE i \in 1..n
      <3>1. CASE i \in 1..Len(r)  BY <1>1, <1>2, <2>2, <3>1
      <3>2. CASE i - Len(r) \in 1..k /\ Len(r) + (i - Len(r)) = i
        <4>1. x[i] = w[i - Len(r)]  BY <2>1, <2>2, <3>2
        <4>2. c[i] = w[i - Len(r)]  BY <1>1, <2>0, <3>2
        <4> QED  BY <1>2, <4>1, <4>2
      <3> QED  BY <1>1, <2>0, <3>1, <3>2
    <2>4. Len(x) = n  BY <2>0, <2>2
    <2>5. u = x  BY <1>2, <2>2, <2>3, <2>4
    <2> QED  BY <2>5 DEF x, v, k
  <1> QED  BY <1>3, <1>4 DEF u, c

\* A death during two rounds is one during the first or during the second.
LEMMA DiesInOne ==
    ASSUME NEW d \in Disks, NEW r \in Seq(Keys \X Chat!Lists), NEW w \in Seq(Keys \X Chat!Lists), NEW e,
           Dies(d, r \o w, e)
    PROVE  Dies(d, r, e) \/ Dies(Chat!After(d, r), w, e)
  <1> DEFINE c == r \o w
             S == Keys \X Chat!Lists
             a == Len(r)
  <1>1. Len(c) = a + Len(w) /\ a \in Nat /\ Len(w) \in Nat /\ DOMAIN c = 1..(a + Len(w))
        /\ (\A i \in 1..a : c[i] = r[i]) /\ (\A i \in 1..Len(w) : c[a + i] = w[i])
        /\ DOMAIN r = 1..a /\ DOMAIN w = 1..Len(w)
    OBVIOUS
  <1>2. PICK n \in DOMAIN c :
           \/ e = Chat!After(d, Upto(c, n))
           \/ /\ c[n][2] # <<>>
              /\ e = [Chat!After(d, Upto(c, n - 1)) EXCEPT ![c[n][1]] = Chat!Torn]
    BY DEF Dies
  <1>3. n \in Nat /\ n - 1 \in Nat /\ n <= a + Len(w) /\ n - 1 <= a + Len(w)  BY <1>1
  <1>4. CASE n <= a
    <2>1. Upto(c, n) = Upto(r, n) /\ Upto(c, n - 1) = Upto(r, n - 1)
      <3>1. n - 1 <= a  BY <1>3, <1>4, <1>1
      <3> QED  BY <1>3, <1>4, <3>1, FirstOfBoth
    <2>2. n \in DOMAIN r /\ c[n] = r[n]  BY <1>1, <1>3, <1>4
    <2> HIDE DEF c, a
    <2>3. Dies(d, r, e)  BY <1>2, <2>1, <2>2 DEF Dies
    <2> QED  BY <2>3
  <1>5. CASE n > a
    <2> DEFINE k == n - a
    <2>1. k \in DOMAIN w /\ c[n] = w[k] /\ k \in Nat /\ k - 1 \in Nat /\ k <= Len(w) /\ k - 1 <= Len(w)
          /\ k - 1 = (n - 1) - a
      <3>1. k \in 1..Len(w) /\ a + k = n  BY <1>1, <1>3, <1>5
      <3>2. c[n] = w[k]  BY <1>1, <3>1
      <3> QED  BY <1>1, <1>3, <3>1, <3>2
    <2>2. Upto(c, n) = r \o Upto(w, k)
      <3>1. n >= a  BY <1>1, <1>3, <1>5
      <3>2. Upto(c, n) = r \o Upto(w, n - a)  BY <1>3, <3>1, FirstOfBoth
      <3> QED  BY <3>2
    <2>3. Upto(c, n - 1) = r \o Upto(w, k - 1)
      <3>1. n - 1 >= a  BY <1>1, <1>3, <1>5
      <3>2. Upto(c, n - 1) = r \o Upto(w, (n - 1) - a)  BY <1>3, <3>1, FirstOfBoth
      <3> QED  BY <2>1, <3>2
    <2> HIDE DEF c, k, a
    <2> DEFINE v == Upto(w, k)
               x == Upto(w, k - 1)
    <2>4. v \in Seq(Keys \X Chat!Lists) /\ x \in Seq(Keys \X Chat!Lists)  BY <2>1, FirstCalls
    <2>8. Upto(c, n) = r \o v /\ Upto(c, n - 1) = r \o x  BY <2>2, <2>3
    <2>9. v = Upto(w, k) /\ x = Upto(w, k - 1)  OBVIOUS
    <2> HIDE DEF v, x
    <2>5. Chat!After(d, Upto(c, n)) = Chat!After(Chat!After(d, r), Upto(w, k))
      <3>1. Chat!After(d, r \o v) = Chat!After(Chat!After(d, r), v)  BY <2>4, AfterBoth
      <3> QED  BY <2>8, <2>9, <3>1
    <2>6. Chat!After(d, Upto(c, n - 1)) = Chat!After(Chat!After(d, r), Upto(w, k - 1))
      <3>1. Chat!After(d, r \o x) = Chat!After(Chat!After(d, r), x)  BY <2>4, AfterBoth
      <3> QED  BY <2>8, <2>9, <3>1
    <2>7. Dies(Chat!After(d, r), w, e)  BY <1>2, <2>1, <2>5, <2>6 DEF Dies
    <2> QED  BY <2>7
  <1> QED  BY <1>1, <1>3, <1>4, <1>5

\* The two shapes that the rounds have.
Plain(f)     == << <<"main", f>>, <<"backup", <<>> >> >>
Backed(b, f) == << <<"backup", b>>, <<"main", f>>, <<"backup", <<>> >> >>

LEMMA PlainCalls ==
    ASSUME Chat!ChatOutboxAssumption, NEW d \in Disks, NEW f \in Chat!Lists
    PROVE  /\ Plain(f) \in Seq(Keys \X Chat!Lists)
           /\ Chat!After(d, Plain(f)) \in Disks /\ Chat!After(d, Plain(f))["main"] = f
                  /\ Chat!After(d, Plain(f))["backup"] = <<>>
           /\ \A e : Dies(d, Plain(f), e) =>
                 /\ e \in Disks
                 /\ \/ e["main"] = f /\ e["backup"] \in {d["backup"], <<>>}
                    \/ e["main"] = Chat!Torn /\ e["backup"] = d["backup"] /\ f # <<>>
  <1> DEFINE c == Plain(f)
  <1>1. c \in Seq(Keys \X Chat!Lists) /\ Len(c) = 2 /\ c[1] = <<"main", f>> /\ c[2] = <<"backup", <<>> >>
    BY ListsAre DEF Plain, Keys
  <1>2. \A k \in 0..2 : k \in Nat /\ k <= Len(c)  BY <1>1
  <1> HIDE DEF c
  <1>3. ASSUME NEW k \in 0..2
        PROVE  /\ Upto(c, k) \in Seq(Keys \X Chat!Lists) /\ Len(Upto(c, k)) = k
               /\ \A i \in 1..k : Upto(c, k)[i] = c[i]
    <2> DEFINE S == Keys \X Chat!Lists
               u == Upto(c, k)
    <2>1. k \in Nat /\ k <= Len(c) /\ c \in Seq(S)  BY <1>1, <1>2
    <2>2. u = Upto(c, k)  OBVIOUS
    <2> HIDE DEF S, u
    <2>3. u \in Seq(S) /\ Len(u) = k /\ \A i \in 1..k : u[i] = c[i]  BY <2>1, <2>2, FirstCalls
    <2> QED  BY <2>3 DEF u, S
  <1>4. ASSUME NEW k \in 0..2, NEW e, e = Chat!After(d, Upto(c, k))
        PROVE  /\ e \in Disks
               /\ e["main"] = IF k = 0 THEN d["main"] ELSE f
               /\ e["backup"] = IF k = 2 THEN <<>> ELSE d["backup"]
    <2> DEFINE u == Upto(c, k)
    <2>0. u \in Seq(Keys \X Chat!Lists) /\ Len(u) = k /\ \A i \in 1..k : u[i] = c[i]  BY <1>3
    <2>7. u = Upto(c, k)  OBVIOUS
    <2> HIDE DEF u
    <2>8. DOMAIN u = 1..Len(u)  BY <2>0
    <2>1. u \in Seq(Keys \X Chat!Lists) /\ DOMAIN u = 1..k /\ \A i \in 1..k : u[i] = c[i]  BY <2>0, <2>8
    <2>2. e \in Disks /\ LastCall(d, u, "main", e["main"]) /\ LastCall(d, u, "backup", e["backup"])
      BY <1>4, <2>1, <2>7, LastDecides DEF Keys
    <2>3. k = 0 \/ k = 1 \/ k = 2  OBVIOUS
    <2>4. c[1][1] = "main" /\ c[1][2] = f /\ c[2][1] = "backup" /\ c[2][2] = <<>>  BY <1>1
    <2>5. e["main"] = IF k = 0 THEN d["main"] ELSE f  BY <2>1, <2>2, <2>3, <2>4 DEF LastCall
    <2>6. e["backup"] = IF k = 2 THEN <<>> ELSE d["backup"]  BY <2>1, <2>2, <2>3, <2>4 DEF LastCall
    <2> QED  BY <2>2, <2>5, <2>6
  <1>5. Upto(c, 2) = c
    <2>1. Upto(c, 2) \in Seq(Keys \X Chat!Lists) /\ Len(Upto(c, 2)) = 2 /\ \A i \in 1..2 : Upto(c, 2)[i] = c[i]
      BY <1>3
    <2> QED  BY <1>1, <2>1
  <1>6. Chat!After(d, c) \in Disks /\ Chat!After(d, c)["main"] = f /\ Chat!After(d, c)["backup"] = <<>>
    BY <1>4, <1>5
  <1>7. ASSUME NEW e, Dies(d, c, e)
        PROVE  /\ e \in Disks
               /\ \/ e["main"] = f /\ e["backup"] \in {d["backup"], <<>>}
                  \/ e["main"] = Chat!Torn /\ e["backup"] = d["backup"] /\ f # <<>>
    <2>1. PICK n \in DOMAIN c :
             \/ e = Chat!After(d, Upto(c, n))
             \/ /\ c[n][2] # <<>>
                /\ e = [Chat!After(d, Upto(c, n - 1)) EXCEPT ![c[n][1]] = Chat!Torn]
      BY <1>7 DEF Dies
    <2>2. n \in 1..2 /\ n \in 0..2 /\ n - 1 \in 0..2  BY <1>1
    <2>3. CASE e = Chat!After(d, Upto(c, n))  BY <1>4, <2>2, <2>3
    <2>4. CASE c[n][2] # <<>> /\ e = [Chat!After(d, Upto(c, n - 1)) EXCEPT ![c[n][1]] = Chat!Torn]
      <3>1. n = 1 /\ c[n][1] = "main" /\ f # <<>>  BY <1>1, <2>2, <2>4
      <3> DEFINE g == Chat!After(d, Upto(c, 0))
      <3>2. e = [g EXCEPT !["main"] = Chat!Torn]  BY <2>4, <3>1
      <3>3. g \in Disks /\ g["backup"] = d["backup"]  BY <1>4
      <3> HIDE DEF g
      <3> QED  BY <3>1, <3>2, <3>3 DEF Disks, Keys
    <2> QED  BY <2>1, <2>3, <2>4
  <1> QED  BY <1>1, <1>6, <1>7 DEF c

LEMMA BackedCalls ==
    ASSUME Chat!ChatOutboxAssumption, NEW d \in Disks, NEW f \in Chat!Lists, NEW b \in Chat!Lists
    PROVE  /\ Backed(b, f) \in Seq(Keys \X Chat!Lists)
           /\ Chat!After(d, Backed(b, f)) \in Disks /\ Chat!After(d, Backed(b, f))["main"] = f
           /\ Chat!After(d, Backed(b, f))["backup"] = <<>>
           /\ \A e : Dies(d, Backed(b, f), e) =>
                 /\ e \in Disks
                 /\ \/ e["main"] = d["main"] /\ e["backup"] \in {b, Chat!Torn}
                    \/ e["main"] = f /\ e["backup"] \in {b, <<>>}
                    \/ e["main"] = Chat!Torn /\ e["backup"] = b
  <1> DEFINE c == Backed(b, f)
  <1>1. c \in Seq(Keys \X Chat!Lists) /\ Len(c) = 3
        /\ c[1] = <<"backup", b>> /\ c[2] = <<"main", f>> /\ c[3] = <<"backup", <<>> >>
    BY ListsAre DEF Backed, Keys
  <1>2. \A k \in 0..3 : k \in Nat /\ k <= Len(c)  BY <1>1
  <1> HIDE DEF c
  <1>3. ASSUME NEW k \in 0..3
        PROVE  /\ Upto(c, k) \in Seq(Keys \X Chat!Lists) /\ Len(Upto(c, k)) = k
               /\ \A i \in 1..k : Upto(c, k)[i] = c[i]
    <2> DEFINE S == Keys \X Chat!Lists
               u == Upto(c, k)
    <2>1. k \in Nat /\ k <= Len(c) /\ c \in Seq(S)  BY <1>1, <1>2
    <2>2. u = Upto(c, k)  OBVIOUS
    <2> HIDE DEF S, u
    <2>3. u \in Seq(S) /\ Len(u) = k /\ \A i \in 1..k : u[i] = c[i]  BY <2>1, <2>2, FirstCalls
    <2> QED  BY <2>3 DEF u, S
  <1>4. ASSUME NEW k \in 0..3, NEW e, e = Chat!After(d, Upto(c, k))
        PROVE  /\ e \in Disks
               /\ e["main"] = IF k \in {0, 1} THEN d["main"] ELSE f
               /\ e["backup"] = IF k = 0 THEN d["backup"] ELSE IF k = 3 THEN <<>> ELSE b
    <2> DEFINE u == Upto(c, k)
    <2>0. u \in Seq(Keys \X Chat!Lists) /\ Len(u) = k /\ \A i \in 1..k : u[i] = c[i]  BY <1>3
    <2>7. u = Upto(c, k)  OBVIOUS
    <2> HIDE DEF u
    <2>8. DOMAIN u = 1..Len(u)  BY <2>0
    <2>1. u \in Seq(Keys \X Chat!Lists) /\ DOMAIN u = 1..k /\ \A i \in 1..k : u[i] = c[i]  BY <2>0, <2>8
    <2>2. e \in Disks /\ LastCall(d, u, "main", e["main"]) /\ LastCall(d, u, "backup", e["backup"])
      BY <1>4, <2>1, <2>7, LastDecides DEF Keys
    <2>3. k = 0 \/ k = 1 \/ k = 2 \/ k = 3  OBVIOUS
    <2>4. /\ c[1][1] = "backup" /\ c[1][2] = b /\ c[2][1] = "main" /\ c[2][2] = f
          /\ c[3][1] = "backup" /\ c[3][2] = <<>>
      BY <1>1
    <2>5. e["main"] = IF k \in {0, 1} THEN d["main"] ELSE f  BY <2>1, <2>2, <2>3, <2>4 DEF LastCall
    <2>6. e["backup"] = IF k = 0 THEN d["backup"] ELSE IF k = 3 THEN <<>> ELSE b
      BY <2>1, <2>2, <2>3, <2>4 DEF LastCall
    <2> QED  BY <2>2, <2>5, <2>6
  <1>5. Upto(c, 3) = c
    <2>1. Upto(c, 3) \in Seq(Keys \X Chat!Lists) /\ Len(Upto(c, 3)) = 3 /\ \A i \in 1..3 : Upto(c, 3)[i] = c[i]
      BY <1>3
    <2> QED  BY <1>1, <2>1
  <1>6. Chat!After(d, c) \in Disks /\ Chat!After(d, c)["main"] = f /\ Chat!After(d, c)["backup"] = <<>>
    BY <1>4, <1>5
  <1>7. ASSUME NEW e, Dies(d, c, e)
        PROVE  /\ e \in Disks
               /\ \/ e["main"] = d["main"] /\ e["backup"] \in {b, Chat!Torn}
                  \/ e["main"] = f /\ e["backup"] \in {b, <<>>}
                  \/ e["main"] = Chat!Torn /\ e["backup"] = b
    <2>1. PICK n \in DOMAIN c :
             \/ e = Chat!After(d, Upto(c, n))
             \/ /\ c[n][2] # <<>>
                /\ e = [Chat!After(d, Upto(c, n - 1)) EXCEPT ![c[n][1]] = Chat!Torn]
      BY <1>7 DEF Dies
    <2>2. n \in 1..3 /\ n \in 0..3 /\ n - 1 \in 0..3  BY <1>1
    <2>3. CASE e = Chat!After(d, Upto(c, n))  BY <1>4, <2>2, <2>3
    <2>4. CASE c[n][2] # <<>> /\ e = [Chat!After(d, Upto(c, n - 1)) EXCEPT ![c[n][1]] = Chat!Torn]
      <3>1. n \in {1, 2}  BY <1>1, <2>2, <2>4
      <3> DEFINE g == Chat!After(d, Upto(c, n - 1))
      <3>2. g \in Disks /\ (n = 1 => g["main"] = d["main"]) /\ (n = 2 => g["backup"] = b)
        BY <1>4, <2>2, <3>1
      <3>3. e = [g EXCEPT ![c[n][1]] = Chat!Torn]  BY <2>4
      <3> HIDE DEF g
      <3>4. CASE n = 1
        <4>2. c[n][1] = "backup"  BY <1>1, <3>4
        <4>1. e = [g EXCEPT !["backup"] = Chat!Torn]  BY <3>3, <4>2
        <4> QED  BY <3>2, <3>4, <4>1 DEF Disks, Keys
      <3>5. CASE n = 2
        <4>2. c[n][1] = "main"  BY <1>1, <3>5
        <4>1. e = [g EXCEPT !["main"] = Chat!Torn]  BY <3>3, <4>2
        <4> QED  BY <3>2, <3>5, <4>1 DEF Disks, Keys
      <3> QED  BY <3>1, <3>4, <3>5
    <2> QED  BY <2>1, <2>3, <2>4
  <1> QED  BY <1>1, <1>6, <1>7 DEF c

-----------------------------------------------------------------------------
(* The rounds of an operation on the keychain *)

\* A message is under one of the keys.
HeldIn(d, m) == \E key \in Keys : d[key] # Chat!Torn /\ m \in Chat!Ids(d[key])

LEMMA NoCalls ==
    ASSUME NEW d \in Disks
    PROVE  Chat!After(d, <<>>) = d /\ \A e : ~Dies(d, <<>>, e)
  <1>1. <<>> \in Seq(Keys \X Chat!Lists) /\ DOMAIN <<>> = {}  OBVIOUS
  <1> DEFINE c == <<>>
             f == Chat!After(d, c)
  <1>2. c \in Seq(Keys \X Chat!Lists) /\ DOMAIN c = {} /\ f = Chat!After(d, c) /\ c = <<>>  BY <1>1
  <1> HIDE DEF c, f
  <1>3. f \in Disks /\ \A key \in Keys : LastCall(d, c, key, f[key])  BY <1>2, LastDecides
  <1>4. \A key \in Keys : f[key] = d[key]  BY <1>2, <1>3 DEF LastCall
  <1>5. f = d  BY <1>3, <1>4 DEF Disks
  <1>6. \A e : ~Dies(d, c, e)  BY <1>2 DEF Dies
  <1> QED  BY <1>2, <1>5, <1>6

LEMMA OneAndTwo ==
    ASSUME NEW S, NEW x \in S, NEW y \in S, NEW z \in S
    PROVE  <<x>> \o <<y, z>> = <<x, y, z>>
  <1> DEFINE c == <<x>> \o <<y, z>>
             u == <<x, y, z>>
  <1>1. <<x>> \in Seq(S) /\ <<y, z>> \in Seq(S) /\ u \in Seq(S)  OBVIOUS
  <1>2. Len(<<x>>) = 1 /\ Len(<<y, z>>) = 2 /\ Len(u) = 3  OBVIOUS
  <1>3. u[1] = x /\ u[2] = y /\ u[3] = z  OBVIOUS
  <1>4. c \in Seq(S) /\ Len(c) = 3  BY <1>1, <1>2
  <1>5. c[1] = x /\ c[2] = y /\ c[3] = z  BY <1>1, <1>2
  <1> HIDE DEF c, u
  <1>6. \A i \in 1..3 : c[i] = u[i]
    <2>1. \A i \in 1..3 : i = 1 \/ i = 2 \/ i = 3  OBVIOUS
    <2> QED  BY <1>3, <1>5, <2>1
  <1>7. c = u  BY <1>1, <1>2, <1>4, <1>6
  <1> QED  BY <1>7 DEF c, u

\* What a round of writes is.
LEMMA WritesAre ==
    ASSUME Chat!ChatOutboxAssumption, NEW d \in Disks, NEW s \in Seq(Chat!Entries), NEW f,
           f = Chat!FitStorageLimit(s)
    PROVE  /\ f \in Chat!Lists
           /\ s = <<>> \/ d["main"] = <<>> => Chat!WriteAll(d, s) = Plain(f)
           /\ s # <<>> /\ d["main"] # <<>> => Chat!WriteAll(d, s) = Backed(d["main"], f)
           /\ s = <<>> => f = <<>>
  <1>1. f \in Chat!Lists  BY FitKeeps
  <1>2. s = <<>> => f = <<>>
    <2>1. <<>> \in Chat!Lists  BY ListsAre
    <2>2. <<>> \in Seq(Chat!Entries) /\ Len(<<>>) <= Capacity  BY <2>1, ListsAre
    <2> QED  BY <2>2, FitKeeps
  <1>3. CASE s = <<>>
    <2>1. Chat!WriteAll(d, s) = Plain(<<>>)  BY <1>3 DEF Chat!WriteAll, Plain
    <2> QED  BY <1>1, <1>2, <1>3, <2>1
  <1>4. CASE s # <<>> /\ d["main"] = <<>>
    <2>1. Chat!WriteAll(d, s) = <<>> \o << <<"main", f>>, <<"backup", <<>> >> >>  BY <1>4 DEF Chat!WriteAll
    <2> DEFINE p == << <<"main", f>>, <<"backup", <<>> >> >>
    <2>2. p \in Seq(Keys \X Chat!Lists)  BY <1>1, ListsAre DEF Keys
    <2>3. p = Plain(f)  BY DEF Plain
    <2> HIDE DEF p
    <2>4. <<>> \o p = p  BY <2>2
    <2> QED  BY <1>1, <1>4, <2>1, <2>3, <2>4 DEF p
  <1>5. CASE s # <<>> /\ d["main"] # <<>>
    <2> DEFINE b == d["main"]
    <2>1. Chat!WriteAll(d, s) = << <<"backup", b>> >> \o << <<"main", f>>, <<"backup", <<>> >> >>
      BY <1>5 DEF Chat!WriteAll
    <2> HIDE DEF b
    <2> DEFINE x == <<"backup", b>>
               y == <<"main", f>>
               z == <<"backup", <<>> >>
               S == {x, y, z}
    <2>5. x \in S /\ y \in S /\ z \in S /\ Backed(b, f) = <<x, y, z>> /\ Chat!WriteAll(d, s) = <<x>> \o <<y, z>>
      BY <2>1 DEF Backed
    <2> HIDE DEF x, y, z, S
    <2>6. Chat!WriteAll(d, s) = Backed(b, f)  BY <2>5, OneAndTwo
    <2> QED  BY <1>1, <1>5, <2>6 DEF b
  <1> QED  BY <1>3, <1>4, <1>5

\* After a round of writes the list is under the main key, and alone.
LEMMA AfterWrites ==
    ASSUME Chat!ChatOutboxAssumption, NEW d \in Disks, d["main"] # Chat!Torn, NEW s \in Seq(Chat!Entries),
           NEW f, f = Chat!FitStorageLimit(s), NEW e, e = Chat!After(d, Chat!WriteAll(d, s))
    PROVE  /\ Chat!WriteAll(d, s) \in Seq(Keys \X Chat!Lists)
           /\ e \in Disks /\ f \in Chat!Lists /\ e["main"] = f /\ e["backup"] = <<>>
  <1>1. d["main"] \in Chat!Lists  BY DEF Disks, Keys
  <1>2. f \in Chat!Lists  BY WritesAre
  <1>3. Chat!WriteAll(d, s) = Plain(f) \/ Chat!WriteAll(d, s) = Backed(d["main"], f)  BY WritesAre
  <1>4. CASE Chat!WriteAll(d, s) = Plain(f)
    <2>1. /\ Plain(f) \in Seq(Keys \X Chat!Lists) /\ Chat!After(d, Plain(f)) \in Disks
          /\ Chat!After(d, Plain(f))["main"] = f /\ Chat!After(d, Plain(f))["backup"] = <<>>
      BY <1>2, PlainCalls
    <2> QED  BY <1>2, <1>4, <2>1
  <1>5. CASE Chat!WriteAll(d, s) = Backed(d["main"], f)
    <2> DEFINE b == d["main"]
    <2>1. b \in Chat!Lists /\ Chat!WriteAll(d, s) = Backed(b, f)  BY <1>1, <1>5
    <2> HIDE DEF b
    <2>2. /\ Backed(b, f) \in Seq(Keys \X Chat!Lists) /\ Chat!After(d, Backed(b, f)) \in Disks
          /\ Chat!After(d, Backed(b, f))["main"] = f /\ Chat!After(d, Backed(b, f))["backup"] = <<>>
      <3>1. b \in Chat!Lists /\ f \in Chat!Lists  BY <1>2, <2>1
      <3> QED  BY <3>1, BackedCalls
    <2> QED  BY <1>2, <2>1, <2>2
  <1> QED  BY <1>3, <1>4, <1>5

\* A death during a round of writes leaves the old list or the new one.
LEMMA DeathWrites ==
    ASSUME Chat!ChatOutboxAssumption, NEW d \in Disks, d["main"] # Chat!Torn, NEW s \in Seq(Chat!Entries),
           NEW f, f = Chat!FitStorageLimit(s), NEW e, Dies(d, Chat!WriteAll(d, s), e)
    PROVE  /\ e \in Disks
           /\ Chat!Ids(d["main"]) \ expired \subseteq Chat!Ids(Chat!Readable(e))
                  \/ Chat!Ids(Chat!Readable(e)) = Chat!Ids(f) \ expired
           /\ \A m : HeldIn(e, m) => HeldIn(d, m) \/ m \in Chat!Ids(f)
  <1>1. d["main"] \in Chat!Lists /\ d["backup"] \in Chat!Lists \cup {Chat!Torn} /\ "main" \in Keys
         /\ "backup" \in Keys
    BY DEF Disks, Keys
  <1>2. f \in Chat!Lists /\ (s = <<>> => f = <<>>)  BY WritesAre
  <1>3. <<>> \in Chat!Lists /\ <<>> # Chat!Torn /\ Chat!Ids(<<>>) = {} /\ f # Chat!Torn
    BY <1>2, ListsAre DEF Chat!Ids
  <1>4. CASE s = <<>> \/ d["main"] = <<>>
    <2>1. Chat!WriteAll(d, s) = Plain(f)  BY <1>4, WritesAre
    <2>2. /\ e \in Disks
          /\ \/ e["main"] = f /\ e["backup"] \in {d["backup"], <<>>}
             \/ e["main"] = Chat!Torn /\ e["backup"] = d["backup"] /\ f # <<>>
      BY <1>2, <2>1, PlainCalls
    <2>3. CASE e["main"] = f /\ e["backup"] \in {d["backup"], <<>>}
      <3>1. Chat!Ids(Chat!Readable(e)) = Chat!Ids(f) \ expired  BY <1>3, <2>2, <2>3, Reads
      <3>2. \A m : HeldIn(e, m) => HeldIn(d, m) \/ m \in Chat!Ids(f)  BY <1>1, <1>3, <2>3 DEF HeldIn, Keys
      <3> QED  BY <2>2, <3>1, <3>2
    <2>4. CASE e["main"] = Chat!Torn /\ e["backup"] = d["backup"] /\ f # <<>>
      <3>1. d["main"] = <<>>  BY <1>2, <1>4, <2>4
      <3>2. Chat!Ids(d["main"]) = {}  BY <1>3, <3>1
      <3>3. \A m : HeldIn(e, m) => HeldIn(d, m)  BY <1>1, <2>4 DEF HeldIn, Keys
      <3> QED  BY <2>2, <3>2, <3>3
    <2> QED  BY <2>2, <2>3, <2>4
  <1>5. CASE s # <<>> /\ d["main"] # <<>>
    <2> DEFINE b == d["main"]
    <2>1. Chat!WriteAll(d, s) = Backed(b, f) /\ b \in Chat!Lists  BY <1>1, <1>5, WritesAre
    <2>6. b = d["main"] /\ b # Chat!Torn  OBVIOUS
    <2> HIDE DEF b
    <2>2. /\ e \in Disks
          /\ \/ e["main"] = b /\ e["backup"] \in {b, Chat!Torn}
             \/ e["main"] = f /\ e["backup"] \in {b, <<>>}
             \/ e["main"] = Chat!Torn /\ e["backup"] = b
      <3>1. Dies(d, Backed(b, f), e)  BY <2>1
      <3>2. \A x : Dies(d, Backed(b, f), x) =>
              /\ x \in Disks
              /\ \/ x["main"] = d["main"] /\ x["backup"] \in {b, Chat!Torn}
                 \/ x["main"] = f /\ x["backup"] \in {b, <<>>}
                 \/ x["main"] = Chat!Torn /\ x["backup"] = b
        BY <1>2, <2>1, BackedCalls
      <3> QED  BY <2>6, <3>1, <3>2
    <2>3. b # Chat!Torn /\ b = d["main"]  BY <2>6
    <2>4. Chat!Ids(b) \ expired \subseteq Chat!Ids(Chat!Readable(e))
           \/ Chat!Ids(Chat!Readable(e)) = Chat!Ids(f) \ expired
      <3>1. CASE e["main"] = b  BY <2>2, <2>3, <3>1, Reads
      <3>2. CASE e["main"] = f  BY <1>3, <2>2, <3>2, Reads
      <3>3. CASE e["main"] = Chat!Torn /\ e["backup"] = b  BY <2>2, <2>3, <3>3, Reads
      <3> QED  BY <2>2, <3>1, <3>2, <3>3
    <2>5. \A m : HeldIn(e, m) => HeldIn(d, m) \/ m \in Chat!Ids(f)
      <3>1. \A key \in Keys : e[key] \in {b, f, <<>>, Chat!Torn}  BY <2>2 DEF Keys
      <3> QED  BY <1>1, <1>3, <2>3, <3>1 DEF HeldIn
    <2> QED  BY <2>2, <2>3, <2>4, <2>5
  <1> QED  BY <1>4, <1>5

\* What is read is among what is stored.
LEMMA ReadIsHeld ==
    ASSUME Chat!ChatOutboxAssumption, NEW d \in Disks, NEW m \in Chat!Ids(Chat!Readable(d))
    PROVE  HeldIn(d, m) /\ m \notin expired
  <1>1. "main" \in Keys /\ "backup" \in Keys /\ Chat!Ids(<<>>) = {}  BY DEF Keys, Chat!Ids
  <1>2. CASE d["main"] # Chat!Torn  BY <1>1, <1>2, Reads DEF HeldIn
  <1>3. CASE d["main"] = Chat!Torn /\ d["backup"] # Chat!Torn  BY <1>1, <1>3, Reads DEF HeldIn
  <1>4. CASE d["main"] = Chat!Torn /\ d["backup"] = Chat!Torn  BY <1>1, <1>4, Reads
  <1> QED  BY <1>2, <1>3, <1>4

\* What reading does: nothing, or the writes that mend the item.
LEMMA ReadsAre ==
    ASSUME Chat!ChatOutboxAssumption, NEW d \in Disks, NEW f, f = Chat!Readable(d)
    PROVE  /\ f \in Chat!Lists /\ f \in Seq(Chat!Entries) /\ Chat!FitStorageLimit(f) = f
           /\ \/ d["main"] = f /\ Chat!ReadAll(d) = <<>>
              \/ d["main"] # Chat!Torn /\ d["main"] # <<>> /\ Chat!ReadAll(d) = Chat!WriteAll(d, f)
              \/ d["main"] = Chat!Torn /\ Chat!ReadAll(d) = Plain(f)
  <1>1. f \in Chat!Lists  BY Reads
  <1>2. f \in Seq(Chat!Entries) /\ Len(f) <= Capacity  BY <1>1, ListsAre
  <1>3. Chat!FitStorageLimit(f) = f  BY <1>2, FitKeeps
  <1>4. CASE d["main"] # Chat!Torn
    <2>1. f = Chat!Parse(d["main"]) /\ d["main"] \in Chat!Lists  BY <1>4 DEF Chat!Readable, Disks, Keys
    <2>2. Chat!ReadAll(d) = IF f = d["main"] THEN <<>> ELSE Chat!WriteAll(d, f)
      BY <1>4, <2>1 DEF Chat!ReadAll
    <2>3. d["main"] = <<>> => f = <<>>
      <3> SUFFICES ASSUME d["main"] = <<>>  PROVE f = <<>>
        OBVIOUS
      <3>1. Chat!Ids(f) = {}  BY <2>1, Parses DEF Chat!Ids
      <3>2. DOMAIN f = {}  BY <3>1 DEF Chat!Ids
      <3> QED  BY <1>2, <3>2
    <2> QED  BY <1>1, <1>2, <1>3, <1>4, <2>2, <2>3
  <1>5. CASE d["main"] = Chat!Torn
    <2>1. Chat!ReadAll(d) = Plain(f)  BY <1>5 DEF Chat!ReadAll, Plain
    <2> QED  BY <1>1, <1>2, <1>3, <1>5, <2>1
  <1> QED  BY <1>4, <1>5

LEMMA AfterReads ==
    ASSUME Chat!ChatOutboxAssumption, NEW d \in Disks, NEW e, e = Chat!After(d, Chat!ReadAll(d))
    PROVE  /\ Chat!ReadAll(d) \in Seq(Keys \X Chat!Lists)
           /\ e \in Disks /\ e["main"] = Chat!Readable(d) /\ e["main"] # Chat!Torn
           /\ \A m : HeldIn(e, m) => HeldIn(d, m)
  <1> DEFINE f == Chat!Readable(d)
  <1>1. /\ f \in Chat!Lists /\ f \in Seq(Chat!Entries) /\ Chat!FitStorageLimit(f) = f
        /\ \/ d["main"] = f /\ Chat!ReadAll(d) = <<>>
           \/ d["main"] # Chat!Torn /\ d["main"] # <<>> /\ Chat!ReadAll(d) = Chat!WriteAll(d, f)
           \/ d["main"] = Chat!Torn /\ Chat!ReadAll(d) = Plain(f)
    BY ReadsAre
  <1>2. f # Chat!Torn /\ \A m \in Chat!Ids(f) : HeldIn(d, m)  BY <1>1, ReadIsHeld, ListsAre
  <1>3. f = Chat!Readable(d) /\ Chat!Ids(<<>>) = {} /\ <<>> # Chat!Torn /\ <<>> \in Seq(Keys \X Chat!Lists)
    BY ListsAre DEF Chat!Ids
  <1> HIDE DEF f
  <1>4. ASSUME e \in Disks, e["main"] = f, e["backup"] \in {d["backup"], <<>>}
        PROVE  \A m : HeldIn(e, m) => HeldIn(d, m)
    <2>1. "backup" \in Keys  BY DEF Keys
    <2>2. \A m : HeldIn(e, m) => m \in Chat!Ids(f) \/ (e["backup"] # Chat!Torn /\ m \in Chat!Ids(e["backup"]))
      BY <1>4 DEF HeldIn, Keys
    <2>3. \A m : e["backup"] # Chat!Torn /\ m \in Chat!Ids(e["backup"]) => HeldIn(d, m)
      BY <1>3, <1>4, <2>1 DEF HeldIn
    <2> QED  BY <1>2, <2>2, <2>3
  <1>5. CASE d["main"] = f /\ Chat!ReadAll(d) = <<>>
    <2>1. e = d  BY <1>5, NoCalls
    <2> QED  BY <1>2, <1>3, <1>5, <2>1
  <1>6. CASE d["main"] # Chat!Torn /\ d["main"] # <<>> /\ Chat!ReadAll(d) = Chat!WriteAll(d, f)
    <2>1. /\ Chat!WriteAll(d, f) \in Seq(Keys \X Chat!Lists)
          /\ e \in Disks /\ e["main"] = f /\ e["backup"] = <<>>
      BY <1>1, <1>6, AfterWrites
    <2> QED  BY <1>2, <1>3, <1>4, <1>6, <2>1
  <1>7. CASE d["main"] = Chat!Torn /\ Chat!ReadAll(d) = Plain(f)
    <2>1. /\ Plain(f) \in Seq(Keys \X Chat!Lists)
          /\ e \in Disks /\ e["main"] = f /\ e["backup"] = <<>>
      BY <1>1, <1>7, PlainCalls
    <2> QED  BY <1>2, <1>3, <1>4, <1>7, <2>1
  <1> QED  BY <1>1, <1>5, <1>6, <1>7

\* A death during a read loses nothing that could be read.
LEMMA DeathReads ==
    ASSUME Chat!ChatOutboxAssumption, NEW d \in Disks, NEW e, Dies(d, Chat!ReadAll(d), e)
    PROVE  /\ e \in Disks /\ Chat!Ids(Chat!Readable(d)) \subseteq Chat!Ids(Chat!Readable(e))
           /\ \A m : HeldIn(e, m) => HeldIn(d, m)
  <1> DEFINE f == Chat!Readable(d)
  <1>1. /\ f \in Chat!Lists /\ f \in Seq(Chat!Entries) /\ Chat!FitStorageLimit(f) = f
        /\ \/ d["main"] = f /\ Chat!ReadAll(d) = <<>>
           \/ d["main"] # Chat!Torn /\ d["main"] # <<>> /\ Chat!ReadAll(d) = Chat!WriteAll(d, f)
           \/ d["main"] = Chat!Torn /\ Chat!ReadAll(d) = Plain(f)
    BY ReadsAre
  <1>2. f # Chat!Torn /\ (\A m \in Chat!Ids(f) : HeldIn(d, m)) /\ Chat!Ids(f) \ expired = Chat!Ids(f)
    BY <1>1, ReadIsHeld, ListsAre
  <1>3. f = Chat!Readable(d) /\ Chat!Ids(<<>>) = {} /\ <<>> # Chat!Torn  BY ListsAre DEF Chat!Ids
  <1> HIDE DEF f
  <1>4. CASE d["main"] = f /\ Chat!ReadAll(d) = <<>>  BY <1>4, NoCalls
  <1>5. CASE d["main"] # Chat!Torn /\ d["main"] # <<>> /\ Chat!ReadAll(d) = Chat!WriteAll(d, f)
    <2>1. /\ e \in Disks
          /\ Chat!Ids(d["main"]) \ expired \subseteq Chat!Ids(Chat!Readable(e))
                 \/ Chat!Ids(Chat!Readable(e)) = Chat!Ids(f) \ expired
          /\ \A m : HeldIn(e, m) => HeldIn(d, m) \/ m \in Chat!Ids(f)
      BY <1>1, <1>5, DeathWrites
    <2>2. Chat!Ids(f) = Chat!Ids(d["main"]) \ expired  BY <1>3, <1>5, Reads
    <2> QED  BY <1>2, <1>3, <2>1, <2>2
  <1>6. CASE d["main"] = Chat!Torn /\ Chat!ReadAll(d) = Plain(f)
    <2>1. /\ e \in Disks
          /\ \/ e["main"] = f /\ e["backup"] \in {d["backup"], <<>>}
             \/ e["main"] = Chat!Torn /\ e["backup"] = d["backup"] /\ f # <<>>
      BY <1>1, <1>6, PlainCalls
    <2>2. CASE e["main"] = f /\ e["backup"] \in {d["backup"], <<>>}
      <3>1. Chat!Ids(Chat!Readable(e)) = Chat!Ids(f) \ expired  BY <1>2, <2>1, <2>2, Reads
      <3>2. \A m : HeldIn(e, m) => HeldIn(d, m)
        <4>1. "backup" \in Keys  BY DEF Keys
        <4>2. \A m : HeldIn(e, m) => m \in Chat!Ids(f) \/ (e["backup"] # Chat!Torn /\ m \in Chat!Ids(e["backup"]))
          BY <2>2 DEF HeldIn, Keys
        <4>3. \A m : e["backup"] # Chat!Torn /\ m \in Chat!Ids(e["backup"]) => HeldIn(d, m)
          BY <1>3, <2>2, <4>1 DEF HeldIn
        <4> QED  BY <1>2, <4>2, <4>3
      <3> QED  BY <1>2, <1>3, <2>1, <3>1, <3>2
    <2>3. CASE e["main"] = Chat!Torn /\ e["backup"] = d["backup"] /\ f # <<>>
      <3>1. e = d
        <4>1. \A key \in Keys : e[key] = d[key]  BY <1>6, <2>3 DEF Keys
        <4> QED  BY <2>1, <4>1 DEF Disks
      <3> QED  BY <2>1, <3>1
    <2> QED  BY <2>1, <2>2, <2>3
  <1> QED  BY <1>1, <1>4, <1>5, <1>6

-----------------------------------------------------------------------------
(* The operations *)

\* What is said of an operation by itself.
Shaped(op) ==
    /\ op.kind \in {"enqueue", "remove", "mark", "list", "purge", "purgeAll"}
    /\ op.kind \in {"enqueue", "remove", "mark"} => op.arg \in Chat!Entries
    /\ op.kind = "mark" => op.arg[2] < MaxAttempts

\* A message is the one that an operation queues.
Queues(op, m) == op.kind = "enqueue" /\ op.arg[1] = m

LEMMA IdsAre ==
    ASSUME NEW s \in Seq(Chat!Entries)
    PROVE  Chat!Ids(s) \subseteq Chat!Messages /\ \A m : m \in Chat!Ids(s) <=> \E i \in DOMAIN s : s[i][1] = m
  <1>1. \A i \in DOMAIN s : s[i] \in Chat!Entries  OBVIOUS
  <1>2. \A x \in Chat!Entries : x[1] \in Chat!Messages  BY DEF Chat!Entries
  <1> QED  BY <1>1, <1>2 DEF Chat!Ids

LEMMA MarkedIs ==
    ASSUME Chat!ChatOutboxAssumption, NEW x \in Chat!Entries, NEW e \in Chat!Entries, e[2] < MaxAttempts
    PROVE  Chat!Marked(x, e) \in Chat!Entries /\ Chat!Marked(x, e)[1] = x[1]
  <1>1. MaxAttempts \in Nat /\ e[1] \in Chat!Messages /\ e[2] \in 0..MaxAttempts
    BY DEF Chat!ChatOutboxAssumption, Chat!Entries
  <1>2. e[2] + 1 \in 0..MaxAttempts  BY <1>1
  <1>3. <<e[1], e[2] + 1>> \in Chat!Entries  BY <1>1, <1>2 DEF Chat!Entries
  <1> QED  BY <1>3 DEF Chat!Marked

\* What an operation makes of the list.
LEMMA ChangeIs ==
    ASSUME Chat!ChatOutboxAssumption, NEW s \in Chat!Lists, NEW op, Shaped(op),
           op.kind \in {"enqueue", "remove", "mark", "purge"},
           NEW c, c = Chat!Change(op, s), NEW f, f = Chat!FitStorageLimit(c)
    PROVE  /\ c \in Seq(Chat!Entries)
           /\ \A m \in Chat!Ids(f) : m \in Chat!Ids(s) \/ Queues(op, m)
           /\ op.kind = "purge" => \A m \in Chat!Ids(f) : Chat!OwnerOf(m) # op.owner
           /\ \A m \in Chat!Ids(s) : op.kind # "enqueue" /\ m \notin Chat!GivenUp(op) => m \in Chat!Ids(f)
  <1>1. s \in Seq(Chat!Entries) /\ Len(s) <= Capacity /\ Capacity \in Nat
    BY ListsAre DEF Chat!ChatOutboxAssumption
  <1>2. Chat!Ids(s) \subseteq Chat!Messages /\ \A m : m \in Chat!Ids(s) <=> \E i \in DOMAIN s : s[i][1] = m
    BY <1>1, IdsAre
  <1>3. CASE op.kind = "enqueue"
    <2>1. op.arg \in Chat!Entries  BY <1>3 DEF Shaped
    <2>2. c = IF op.arg[1] \in Chat!Ids(s) THEN s ELSE Append(s, op.arg)  BY <1>3 DEF Chat!Change
    <2>3. Append(s, op.arg) \in Seq(Chat!Entries)  BY <1>1, <2>1
    <2>4. c \in Seq(Chat!Entries)  BY <1>1, <2>2, <2>3
    <2>5. \A m \in Chat!Ids(c) : m \in Chat!Ids(s) \/ Queues(op, m)
      <3>1. CASE c = s  BY <3>1
      <3>2. CASE c = Append(s, op.arg)
        <4>1. \A i \in DOMAIN c : (i \in DOMAIN s /\ c[i] = s[i]) \/ c[i] = op.arg  BY <1>1, <2>1, <3>2
        <4>2. \A i \in DOMAIN c : c[i][1] \in Chat!Ids(s) \/ c[i][1] = op.arg[1]  BY <4>1 DEF Chat!Ids
        <4> QED  BY <1>3, <2>4, <4>2, IdsAre DEF Queues
      <3> QED  BY <2>2, <3>1, <3>2
    <2>6. Chat!Ids(f) \subseteq Chat!Ids(c)  BY <2>4, FitKeeps
    <2> QED  BY <1>3, <2>4, <2>5, <2>6
  <1>4. CASE op.kind = "remove"
    <2> DEFINE chosen == {i \in DOMAIN s : s[i][1] # op.arg[1]}
    <2>1. c = Chat!Filtered(s, chosen)  BY <1>4 DEF Chat!Change
    <2>2. chosen \in SUBSET DOMAIN s /\ \A i : i \in chosen <=> i \in DOMAIN s /\ s[i][1] # op.arg[1]
      OBVIOUS
    <2> HIDE DEF chosen
    <2>3. c \in Chat!Lists /\ Chat!Ids(c) = {s[i][1] : i \in chosen} /\ f = c  BY <2>1, <2>2, FilteredLists
    <2>4. c \in Seq(Chat!Entries)  BY <2>3, ListsAre
    <2>5. \A m : m \in Chat!Ids(c) <=> m \in Chat!Ids(s) /\ m # op.arg[1]  BY <1>2, <2>2, <2>3
    <2>6. op.arg[1] \in Chat!Messages => op.arg[1] \in Chat!GivenUp(op)  BY <1>4 DEF Chat!GivenUp
    <2> QED  BY <1>2, <1>4, <2>3, <2>4, <2>5, <2>6
  <1>5. CASE op.kind = "purge"
    <2> DEFINE chosen == {i \in DOMAIN s : Chat!OwnerOf(s[i][1]) # op.owner}
    <2>1. c = Chat!Filtered(s, chosen)  BY <1>5 DEF Chat!Change
    <2>2. chosen \in SUBSET DOMAIN s
          /\ \A i : i \in chosen <=> i \in DOMAIN s /\ Chat!OwnerOf(s[i][1]) # op.owner
      OBVIOUS
    <2> HIDE DEF chosen
    <2>3. c \in Chat!Lists /\ Chat!Ids(c) = {s[i][1] : i \in chosen} /\ f = c  BY <2>1, <2>2, FilteredLists
    <2>4. c \in Seq(Chat!Entries)  BY <2>3, ListsAre
    <2>5. \A m : m \in Chat!Ids(c) <=> m \in Chat!Ids(s) /\ Chat!OwnerOf(m) # op.owner  BY <1>2, <2>2, <2>3
    <2>6. \A m \in Chat!Messages : Chat!OwnerOf(m) = op.owner => m \in Chat!GivenUp(op)
      BY <1>5 DEF Chat!GivenUp
    <2> QED  BY <1>2, <1>5, <2>3, <2>4, <2>5, <2>6
  <1>6. CASE op.kind = "mark"
    <2>1. op.arg \in Chat!Entries /\ op.arg[2] < MaxAttempts  BY <1>6 DEF Shaped
    <2>2. c = [i \in DOMAIN s |-> Chat!Marked(s[i], op.arg)]  BY <1>6 DEF Chat!Change
    <2>3. \A i \in DOMAIN s : Chat!Marked(s[i], op.arg) \in Chat!Entries /\ Chat!Marked(s[i], op.arg)[1] = s[i][1]
      <3>1. \A i \in DOMAIN s : s[i] \in Chat!Entries  BY <1>1
      <3> QED  BY <2>1, <3>1, MarkedIs
    <2>4. DOMAIN s = 1..Len(s) /\ Len(s) \in Nat  BY <1>1
    <2>5. c \in [1..Len(s) -> Chat!Entries]  BY <2>2, <2>3, <2>4
    <2>6. c \in Seq(Chat!Entries) /\ Len(c) = Len(s) /\ DOMAIN c = DOMAIN s  BY <2>4, <2>5
    <2>7. \A i \in DOMAIN c : c[i][1] = s[i][1]  BY <2>2, <2>3, <2>6
    <2>8. \A m : m \in Chat!Ids(c) <=> m \in Chat!Ids(s)  BY <1>2, <2>6, <2>7, IdsAre
    <2>9. f = c  BY <1>1, <2>6, FitKeeps
    <2> QED  BY <1>6, <2>6, <2>8, <2>9
  <1> QED  BY <1>3, <1>4, <1>5, <1>6

\* The rounds that an operation makes.
LEMMA CallsAre ==
    ASSUME NEW op, Shaped(op)
    PROVE  \/ op.kind = "purgeAll" /\ Chat!Calls(op) = Plain(<<>>)
           \/ /\ op.kind = "list" \/ (op.kind = "enqueue" /\ op.arg[1] \in Chat!Ids(Chat!Readable(disk)))
              /\ Chat!Calls(op) = Chat!ReadAll(disk)
           \/ /\ op.kind \in {"enqueue", "remove", "mark", "purge"}
              /\ Chat!Calls(op) = Chat!ReadAll(disk)
                                  \o Chat!WriteAll(Chat!After(disk, Chat!ReadAll(disk)), Chat!Change(op, Chat!Readable(disk)))
  <1>1. CASE op.kind = "purgeAll"  BY <1>1 DEF Chat!Calls, Plain
  <1>2. CASE op.kind # "purgeAll"  BY <1>2 DEF Chat!Calls, Shaped
  <1> QED  BY <1>1, <1>2

\* The keychain after an operation.
LEMMA Performs ==
    ASSUME Chat!ChatOutboxAssumption, disk \in Disks, NEW op, Shaped(op), NEW e,
           e = Chat!After(disk, Chat!Calls(op))
    PROVE  /\ e \in Disks /\ e["main"] # Chat!Torn
           /\ op.kind = "purgeAll" => \A m : ~HeldIn(e, m)
           /\ op.kind = "purge" => \A m : HeldIn(e, m) => Chat!OwnerOf(m) # op.owner
           /\ \A m : HeldIn(e, m) => HeldIn(disk, m) \/ Queues(op, m)
           /\ \A m \in Chat!Ids(Chat!Readable(disk)) :
                 op.kind # "enqueue" /\ m \notin Chat!GivenUp(op) => m \in Chat!Ids(Chat!Readable(e))
           /\ \A m \in Chat!Ids(e["main"]) : m \notin expired => m \in Chat!Ids(Chat!Readable(e))
  <1> DEFINE r == Chat!ReadAll(disk)
             g == Chat!After(disk, r)
             s == Chat!Readable(disk)
             c == Chat!Change(op, s)
             w == Chat!WriteAll(g, c)
             f == Chat!FitStorageLimit(c)
  <1>1. /\ r \in Seq(Keys \X Chat!Lists) /\ g \in Disks /\ g["main"] = s /\ g["main"] # Chat!Torn
        /\ \A m : HeldIn(g, m) => HeldIn(disk, m)
    BY AfterReads
  <1>2. s \in Chat!Lists /\ s \in Seq(Chat!Entries) /\ \A m \in Chat!Ids(s) : HeldIn(disk, m) /\ m \notin expired
    BY ReadIsHeld, Reads, ListsAre
  <1>3. \/ op.kind = "purgeAll" /\ Chat!Calls(op) = Plain(<<>>)
        \/ /\ op.kind = "list" \/ (op.kind = "enqueue" /\ op.arg[1] \in Chat!Ids(s))
           /\ Chat!Calls(op) = r
        \/ op.kind \in {"enqueue", "remove", "mark", "purge"} /\ Chat!Calls(op) = r \o w
    BY CallsAre
  <1>4. ASSUME e \in Disks, e["main"] # Chat!Torn
        PROVE  \A m \in Chat!Ids(e["main"]) : m \notin expired => m \in Chat!Ids(Chat!Readable(e))
    BY <1>4, Reads
  <1>5. CASE op.kind = "purgeAll" /\ Chat!Calls(op) = Plain(<<>>)
    <2>1. <<>> \in Chat!Lists /\ <<>> # Chat!Torn /\ Chat!Ids(<<>>) = {}  BY ListsAre DEF Chat!Ids
    <2>2. e \in Disks /\ e["main"] = <<>> /\ e["backup"] = <<>>  BY <1>5, <2>1, PlainCalls
    <2>3. \A m : ~HeldIn(e, m)  BY <2>1, <2>2 DEF HeldIn, Keys
    <2>4. \A m \in Chat!Ids(s) : m \in Chat!GivenUp(op)  BY <1>2, <1>5, IdsAre DEF Chat!GivenUp
    <2> QED  BY <1>4, <1>5, <2>1, <2>2, <2>3, <2>4
  <1>6. CASE /\ op.kind = "list" \/ (op.kind = "enqueue" /\ op.arg[1] \in Chat!Ids(s))
             /\ Chat!Calls(op) = r
    <2>1. e = g  BY <1>6
    <2>2. \A m \in Chat!Ids(s) : m \in Chat!Ids(Chat!Readable(e))  BY <1>1, <1>2, <1>4, <2>1
    <2> QED  BY <1>1, <1>4, <1>6, <2>1, <2>2
  <1>7. CASE op.kind \in {"enqueue", "remove", "mark", "purge"} /\ Chat!Calls(op) = r \o w
    <2>0. c = Chat!Change(op, s) /\ f = Chat!FitStorageLimit(c) /\ w = Chat!WriteAll(g, c) /\ g = Chat!After(disk, r)
      OBVIOUS
    <2> HIDE DEF r, g, s, c, w, f
    <2>1. /\ c \in Seq(Chat!Entries)
          /\ \A m \in Chat!Ids(f) : m \in Chat!Ids(s) \/ Queues(op, m)
          /\ op.kind = "purge" => \A m \in Chat!Ids(f) : Chat!OwnerOf(m) # op.owner
          /\ \A m \in Chat!Ids(s) : op.kind # "enqueue" /\ m \notin Chat!GivenUp(op) => m \in Chat!Ids(f)
      BY <1>2, <1>7, <2>0, ChangeIs
    <2> DEFINE h == Chat!After(g, w)
    <2>2. w \in Seq(Keys \X Chat!Lists) /\ h \in Disks /\ f \in Chat!Lists /\ h["main"] = f /\ h["backup"] = <<>>
      BY <1>1, <2>0, <2>1, AfterWrites
    <2>3. e = h
      <3>1. Chat!After(disk, r \o w) = Chat!After(Chat!After(disk, r), w)  BY <1>1, <2>2, AfterBoth
      <3> QED  BY <1>7, <2>0, <3>1
    <2> HIDE DEF h
    <2>4. f # Chat!Torn /\ <<>> # Chat!Torn /\ Chat!Ids(<<>>) = {}  BY <2>2, ListsAre DEF Chat!Ids
    <2>5. \A m : HeldIn(e, m) => m \in Chat!Ids(f)  BY <2>2, <2>3, <2>4 DEF HeldIn, Keys
    <2>6. e \in Disks /\ e["main"] = f /\ e["main"] # Chat!Torn  BY <2>2, <2>3, <2>4
    <2>7. \A m \in Chat!Ids(e["main"]) : m \notin expired => m \in Chat!Ids(Chat!Readable(e))  BY <1>4, <2>6
    <2>8. \A m : HeldIn(e, m) => HeldIn(disk, m) \/ Queues(op, m)  BY <1>2, <2>1, <2>5
    <2>9. \A m \in Chat!Ids(s) : op.kind # "enqueue" /\ m \notin Chat!GivenUp(op) => m \in Chat!Ids(Chat!Readable(e))
      BY <1>2, <2>1, <2>6, <2>7
    <2> QED  BY <1>7, <2>1, <2>5, <2>6, <2>7, <2>8, <2>9 DEF s
  <1> QED  BY <1>3, <1>5, <1>6, <1>7

\* The keychain of a process that died during an operation.
LEMMA Crashes ==
    ASSUME Chat!ChatOutboxAssumption, disk \in Disks, NEW op, Shaped(op), NEW e, Dies(disk, Chat!Calls(op), e)
    PROVE  /\ e \in Disks
           /\ \A m : HeldIn(e, m) => HeldIn(disk, m) \/ Queues(op, m)
           /\ \A m \in Chat!Ids(Chat!Readable(disk)) :
                 /\ m \notin Chat!GivenUp(op)
                 /\ op.kind = "enqueue" => m \in Chat!Ids(Chat!FitStorageLimit(Chat!Change(op, Chat!Readable(disk))))
                 => m \in Chat!Ids(Chat!Readable(e))
  <1> DEFINE r == Chat!ReadAll(disk)
             g == Chat!After(disk, r)
             s == Chat!Readable(disk)
             c == Chat!Change(op, s)
             w == Chat!WriteAll(g, c)
             f == Chat!FitStorageLimit(c)
  <1>1. /\ r \in Seq(Keys \X Chat!Lists) /\ g \in Disks /\ g["main"] = s /\ g["main"] # Chat!Torn
        /\ \A m : HeldIn(g, m) => HeldIn(disk, m)
    BY AfterReads
  <1>2. s \in Chat!Lists /\ s \in Seq(Chat!Entries) /\ \A m \in Chat!Ids(s) : HeldIn(disk, m) /\ m \notin expired
    BY ReadIsHeld, Reads, ListsAre
  <1>3. \/ op.kind = "purgeAll" /\ Chat!Calls(op) = Plain(<<>>)
        \/ Chat!Calls(op) = r
        \/ op.kind \in {"enqueue", "remove", "mark", "purge"} /\ Chat!Calls(op) = r \o w
    BY CallsAre
  <1>4. ASSUME Dies(disk, r, e)
        PROVE  /\ e \in Disks /\ \A m \in Chat!Ids(s) : m \in Chat!Ids(Chat!Readable(e))
               /\ \A m : HeldIn(e, m) => HeldIn(disk, m)
    BY <1>4, DeathReads
  <1>5. CASE op.kind = "purgeAll" /\ Chat!Calls(op) = Plain(<<>>)
    <2>1. <<>> \in Chat!Lists /\ <<>> # Chat!Torn /\ Chat!Ids(<<>>) = {}  BY ListsAre DEF Chat!Ids
    <2>2. /\ e \in Disks
          /\ \/ e["main"] = <<>> /\ e["backup"] \in {disk["backup"], <<>>}
             \/ e["main"] = Chat!Torn /\ e["backup"] = disk["backup"]
      <3>1. Dies(disk, Plain(<<>>), e)  BY <1>5
      <3> QED  BY <2>1, <3>1, PlainCalls
    <2>3. \A m : HeldIn(e, m) => HeldIn(disk, m)  BY <2>1, <2>2 DEF HeldIn, Keys
    <2>4. \A m \in Chat!Ids(s) : m \in Chat!GivenUp(op)  BY <1>2, <1>5, IdsAre DEF Chat!GivenUp
    <2> QED  BY <2>2, <2>3, <2>4
  <1>6. CASE Chat!Calls(op) = r  BY <1>4, <1>6
  <1>7. CASE op.kind \in {"enqueue", "remove", "mark", "purge"} /\ Chat!Calls(op) = r \o w
    <2>0. c = Chat!Change(op, s) /\ f = Chat!FitStorageLimit(c) /\ w = Chat!WriteAll(g, c) /\ g = Chat!After(disk, r)
      OBVIOUS
    <2> HIDE DEF r, g, s, c, w, f
    <2>1. /\ c \in Seq(Chat!Entries)
          /\ \A m \in Chat!Ids(f) : m \in Chat!Ids(s) \/ Queues(op, m)
          /\ \A m \in Chat!Ids(s) : op.kind # "enqueue" /\ m \notin Chat!GivenUp(op) => m \in Chat!Ids(f)
      BY <1>2, <1>7, <2>0, ChangeIs
    <2>2. w \in Seq(Keys \X Chat!Lists)  BY <1>1, <2>0, <2>1, AfterWrites
    <2>3. Dies(disk, r, e) \/ Dies(g, w, e)
      <3>1. Dies(disk, r \o w, e)  BY <1>7
      <3>2. Dies(disk, r, e) \/ Dies(Chat!After(disk, r), w, e)  BY <1>1, <2>2, <3>1, DiesInOne
      <3> QED  BY <2>0, <3>2
    <2>4. CASE Dies(disk, r, e)  BY <1>4, <2>4 DEF s
    <2>5. CASE Dies(g, w, e)
      <3>1. /\ e \in Disks
            /\ Chat!Ids(g["main"]) \ expired \subseteq Chat!Ids(Chat!Readable(e))
                   \/ Chat!Ids(Chat!Readable(e)) = Chat!Ids(f) \ expired
            /\ \A m : HeldIn(e, m) => HeldIn(g, m) \/ m \in Chat!Ids(f)
        BY <1>1, <2>0, <2>1, <2>5, DeathWrites
      <3>2. \A m : HeldIn(e, m) => HeldIn(disk, m) \/ Queues(op, m)  BY <1>1, <1>2, <2>1, <3>1
      <3>3. \A m \in Chat!Ids(s) : m \notin Chat!GivenUp(op) /\ (op.kind = "enqueue" => m \in Chat!Ids(f))
             => m \in Chat!Ids(Chat!Readable(e))
        BY <1>1, <1>2, <2>1, <3>1
      <3> QED  BY <3>1, <3>2, <3>3 DEF s, c, f
    <2> QED  BY <2>3, <2>4, <2>5
  <1> QED  BY <1>3, <1>5, <1>6, <1>7

-----------------------------------------------------------------------------
(* The inductive invariant of the chat outbox *)

FlushRecords == [at : Chat!FlushLabels, left : Chat!Lists, cancelled : BOOLEAN, as : Users \cup {"none"}]

ChatTypes ==
    /\ disk \in Disks
    /\ queue \in Seq(Chat!Ops)
    /\ expired \in SUBSET Chat!Messages
    /\ flush \in [Users -> FlushRecords]
    /\ screen \in [Chat!Messages -> Chat!ScreenLabels]
    /\ auth \in Users \cup {"none"}
    /\ kept \in SUBSET Chat!Messages
    /\ called \in SUBSET Chat!Messages

\* An operation waits for what its caller is doing.
Placed(op, scr, fl) ==
    /\ Shaped(op)
    /\ op.kind = "enqueue" => op.by = "screen" /\ scr[op.arg[1]] = "enqueue"
    /\ op.by = "flush" => op.owner \in Users /\ op.kind = fl[op.owner].at
    /\ op.kind \in {"list", "mark"} => op.by = "flush"
    /\ op.kind = "purge" => op.owner \in Users

QueuePlaced == \A i \in DOMAIN queue : Placed(queue[i], screen, flush)

\* A flush waits for one operation, and a message is queued by one.
Apart(x, y) ==
    /\ x.by = "flush" /\ y.by = "flush" => x.owner # y.owner
    /\ \A m : ~(Queues(x, m) /\ Queues(y, m))

QueueApart == \A i, j \in DOMAIN queue : i # j => Apart(queue[i], queue[j])

\* A flush holds entries of its owner that may be sent.
MayGo(l, o) == \A i \in DOMAIN l : Chat!OwnerOf(l[i][1]) = o /\ ~Chat!DeadLetter(l[i])

FlushHolds ==
    \A o \in Users : /\ flush[o].at \in {"send", "remove", "mark"} => flush[o].left # <<>>
                     /\ MayGo(flush[o].left, o)

\* What is stored, by the key that is read.
Stored(d) == IF d["main"] # Chat!Torn THEN Chat!Ids(d["main"])
             ELSE IF d["backup"] # Chat!Torn THEN Chat!Ids(d["backup"]) ELSE {}

KeptStored ==
    /\ \A m \in kept : m \in Stored(disk) /\ m \notin expired
    /\ \A m \in expired : screen[m] \notin {"new", "enqueue"}

\* A purge that takes the messages of an owner.
Purges(op, o) == op.kind = "purgeAll" \/ (op.kind = "purge" /\ op.owner = o)

\* A message that is stored, or is about to be, is about to be purged.
SealedQueue(m) ==
    /\ HeldIn(disk, m) => \E j \in DOMAIN queue : Purges(queue[j], Chat!OwnerOf(m))
    /\ \A i \in DOMAIN queue :
           Queues(queue[i], m) => \E j \in DOMAIN queue : j > i /\ Purges(queue[j], Chat!OwnerOf(m))

Absent(m) == ~HeldIn(disk, m) /\ \A i \in DOMAIN queue : ~Queues(queue[i], m)

\* A flush that nothing has cancelled will not find it, or does not have it.
SealedFlush(m) ==
    /\ (flush[Chat!OwnerOf(m)].at = "list" /\ ~flush[Chat!OwnerOf(m)].cancelled) => Absent(m)
    /\ (flush[Chat!OwnerOf(m)].at \notin {"idle", "list"} /\ ~flush[Chat!OwnerOf(m)].cancelled)
       => m \notin Chat!Ids(flush[Chat!OwnerOf(m)].left)

CalledSealed == \A m \in called : screen[m] # "new" /\ SealedQueue(m) /\ SealedFlush(m)

\* A session begins after the purges.
NoPurgeWaits == auth # "none" => \A j \in DOMAIN queue : \A o : ~Purges(queue[j], o)

ChatInv ==
    /\ ChatTypes
    /\ QueuePlaced /\ QueueApart
    /\ FlushHolds
    /\ KeptStored
    /\ CalledSealed /\ NoPurgeWaits

-----------------------------------------------------------------------------

LEMMA StoredIs ==
    ASSUME Chat!ChatOutboxAssumption, NEW d \in Disks
    PROVE  Chat!Ids(Chat!Readable(d)) = Stored(d) \ expired
  <1>1. Chat!Ids(<<>>) = {}  BY DEF Chat!Ids
  <1> QED  BY <1>1, Reads DEF Stored

LEMMA OwnersOfMessages ==
    ASSUME Chat!ChatOutboxAssumption, NEW m \in Chat!Messages
    PROVE  Chat!OwnerOf(m) \in Users
  BY DEF Chat!Messages, Chat!OwnerOf

\* One more operation in the queue.
Joined(q, x, p) ==
    /\ p \in Seq(Chat!Ops)
    /\ DOMAIN p = 1..(Len(q) + 1) /\ DOMAIN q = 1..Len(q) /\ Len(q) \in Nat
    /\ \A i \in DOMAIN q : i \in DOMAIN p /\ p[i] = q[i] /\ i < Len(q) + 1
    /\ p[Len(q) + 1] = x
    /\ \A i \in DOMAIN p : i \in DOMAIN q \/ i = Len(q) + 1

LEMMA Joins ==
    ASSUME NEW q \in Seq(Chat!Ops), NEW x \in Chat!Ops
    PROVE  Joined(q, x, q \o <<x>>)
  <1> DEFINE p == q \o <<x>>
  <1>1. p \in Seq(Chat!Ops) /\ Len(p) = Len(q) + 1 /\ Len(q) \in Nat /\ DOMAIN q = 1..Len(q)  OBVIOUS
  <1>2. (\A i \in 1..Len(q) : p[i] = q[i]) /\ p[Len(q) + 1] = x  OBVIOUS
  <1> HIDE DEF p
  <1>3. DOMAIN p = 1..(Len(q) + 1)  BY <1>1
  <1>4. \A i \in DOMAIN p : i \in DOMAIN q \/ i = Len(q) + 1  BY <1>1, <1>3
  <1>5. \A i \in DOMAIN q : i \in DOMAIN p /\ p[i] = q[i] /\ i < Len(q) + 1  BY <1>1, <1>2, <1>3
  <1>6. Joined(q, x, p)  BY <1>1, <1>2, <1>3, <1>4, <1>5 DEF Joined
  <1> QED  BY <1>6 DEF p

\* One operation less, at the head.
Left(q, p) ==
    /\ p \in Seq(Chat!Ops) /\ 1 \in DOMAIN q /\ Head(q) = q[1]
    /\ \A i \in DOMAIN p : i + 1 \in DOMAIN q /\ p[i] = q[i + 1] /\ i + 1 # 1 /\ i \in Nat
    /\ \A j \in DOMAIN q : j # 1 => j - 1 \in DOMAIN p /\ p[j - 1] = q[j]
    /\ \A i \in DOMAIN p, j \in DOMAIN q : j > i + 1 => j # 1 /\ j - 1 > i

LEMMA Leaves ==
    ASSUME NEW q \in Seq(Chat!Ops), q # <<>>
    PROVE  Left(q, Tail(q))
  <1> DEFINE p == Tail(q)
  <1>1. Len(q) \in Nat /\ Len(q) # 0 /\ DOMAIN q = 1..Len(q) /\ Head(q) = q[1]  OBVIOUS
  <1>2. p \in Seq(Chat!Ops) /\ Len(p) = Len(q) - 1  OBVIOUS
  <1>3. \A i \in 1..(Len(q) - 1) : p[i] = q[i + 1]  OBVIOUS
  <1> HIDE DEF p
  <1>4. DOMAIN p = 1..(Len(q) - 1)  BY <1>1, <1>2
  <1>5. \A i \in DOMAIN p : i + 1 \in DOMAIN q /\ p[i] = q[i + 1] /\ i + 1 # 1 /\ i \in Nat
    BY <1>1, <1>3, <1>4
  <1>6. \A j \in DOMAIN q : j # 1 => j - 1 \in DOMAIN p /\ p[j - 1] = q[j]
    <2> SUFFICES ASSUME NEW j \in DOMAIN q, j # 1  PROVE j - 1 \in DOMAIN p /\ p[j - 1] = q[j]
      OBVIOUS
    <2>1. j - 1 \in 1..(Len(q) - 1) /\ (j - 1) + 1 = j  BY <1>1
    <2>2. p[j - 1] = q[(j - 1) + 1]  BY <1>3, <2>1
    <2> QED  BY <1>4, <2>1, <2>2
  <1>7. \A i \in DOMAIN p, j \in DOMAIN q : j > i + 1 => j # 1 /\ j - 1 > i  BY <1>1, <1>4
  <1>8. 1 \in DOMAIN q  BY <1>1
  <1>9. Left(q, p)  BY <1>1, <1>2, <1>5, <1>6, <1>7, <1>8 DEF Left
  <1> QED  BY <1>9 DEF p

\* An operation stays placed while its caller stays where it is.
LEMMA StaysPlaced ==
    ASSUME NEW op, Placed(op, screen, flush),
           op.kind = "enqueue" => screen'[op.arg[1]] = "enqueue",
           op.by = "flush" => flush'[op.owner].at = flush[op.owner].at
    PROVE  Placed(op, screen', flush')
  BY DEF Placed

LEMMA RequestPlaced ==
    ASSUME NEW x \in Chat!Ops, queue \in Seq(Chat!Ops), queue' = queue \o <<x>>, QueueApart,
           Placed(x, screen', flush'),
           \A i \in DOMAIN queue : Placed(queue[i], screen', flush') /\ Apart(queue[i], x)
    PROVE  QueuePlaced' /\ QueueApart'
  <1>1. Joined(queue, x, queue')  BY Joins
  <1>2. ASSUME NEW i \in DOMAIN queue'  PROVE Placed(queue'[i], screen', flush')
    BY <1>1 DEF Joined
  <1>3. ASSUME NEW i \in DOMAIN queue', NEW j \in DOMAIN queue', i # j  PROVE Apart(queue'[i], queue'[j])
    <2>1. \/ i \in DOMAIN queue /\ j \in DOMAIN queue /\ queue'[i] = queue[i] /\ queue'[j] = queue[j]
          \/ i \in DOMAIN queue /\ queue'[i] = queue[i] /\ queue'[j] = x
          \/ j \in DOMAIN queue /\ queue'[j] = queue[j] /\ queue'[i] = x
      BY <1>1, <1>3 DEF Joined
    <2> QED  BY <1>3, <2>1 DEF QueueApart, Apart
  <1> QED  BY <1>2, <1>3 DEF QueuePlaced, QueueApart

\* What one more operation leaves sealed or absent.
LEMMA RequestSealed ==
    ASSUME NEW x \in Chat!Ops, queue \in Seq(Chat!Ops), queue' = queue \o <<x>>, disk' = disk,
           NEW m, ~Queues(x, m)
    PROVE  (SealedQueue(m) => SealedQueue(m)') /\ (Absent(m) => Absent(m)')
  <1>1. Joined(queue, x, queue')  BY Joins
  <1>2. HeldIn(disk, m)' = HeldIn(disk, m)  BY DEF HeldIn
  <1>3. \A i \in DOMAIN queue : i \in DOMAIN queue' /\ queue'[i] = queue[i]  BY <1>1 DEF Joined
  <1>4. \A i \in DOMAIN queue' : Queues(queue'[i], m) => i \in DOMAIN queue /\ Queues(queue[i], m)
    BY <1>1 DEF Joined
  <1> QED  BY <1>2, <1>3, <1>4 DEF SealedQueue, Absent

LEMMA QueueSame ==
    ASSUME queue' = queue, disk' = disk, NEW m
    PROVE  (SealedQueue(m) => SealedQueue(m)') /\ (Absent(m) => Absent(m)')
  BY DEF SealedQueue, Absent, HeldIn

\* A flush goes on.
FlushTo(o, a, l, c) ==
    /\ flush' \in [Users -> FlushRecords]
    /\ \A p \in Users : p # o => flush'[p] = flush[p]
    /\ flush'[o].at = a /\ flush'[o].left = l /\ flush'[o].cancelled = c

LEMMA FlushToHolds ==
    ASSUME NEW o \in Users, NEW a, NEW l, NEW c, FlushTo(o, a, l, c), FlushHolds,
           a \in {"send", "remove", "mark"} => l # <<>>, MayGo(l, o)
    PROVE  FlushHolds'
  <1> SUFFICES ASSUME NEW p \in Users
               PROVE  /\ flush'[p].at \in {"send", "remove", "mark"} => flush'[p].left # <<>>
                      /\ MayGo(flush'[p].left, p)
    BY DEF FlushHolds
  <1>1. CASE p = o  BY <1>1 DEF FlushTo
  <1>2. CASE p # o  BY <1>2 DEF FlushTo, FlushHolds
  <1> QED  BY <1>1, <1>2

LEMMA FlushToPlaced ==
    ASSUME NEW o \in Users, NEW a, NEW l, NEW c, FlushTo(o, a, l, c), NEW op, Placed(op, screen, flush),
           screen' = screen \/ op.kind # "enqueue",
           op.by # "flush" \/ op.owner # o \/ a = flush[o].at
    PROVE  Placed(op, screen', flush')
  <1>1. op.kind = "enqueue" => screen'[op.arg[1]] = "enqueue"  BY DEF Placed
  <1>2. op.by = "flush" => op.owner \in Users  BY DEF Placed
  <1>3. op.by = "flush" => flush'[op.owner].at = flush[op.owner].at  BY <1>2 DEF FlushTo
  <1> QED  BY <1>1, <1>3, StaysPlaced

\* The flush of another owner does not change what is sealed.
LEMMA FlushToSealed ==
    ASSUME Chat!ChatOutboxAssumption, NEW o \in Users, NEW a, NEW l, NEW c, FlushTo(o, a, l, c),
           NEW m \in Chat!Messages, SealedFlush(m), Absent(m) => Absent(m)',
           (Chat!OwnerOf(m) = o /\ a = "list" /\ ~c) => Absent(m)',
           (Chat!OwnerOf(m) = o /\ a \notin {"idle", "list"} /\ ~c) => m \notin Chat!Ids(l)
    PROVE  SealedFlush(m)'
  <1>1. Chat!OwnerOf(m) \in Users  BY OwnersOfMessages
  <1>2. CASE Chat!OwnerOf(m) = o  BY <1>2 DEF FlushTo, SealedFlush
  <1>3. CASE Chat!OwnerOf(m) # o
    <2>1. flush'[Chat!OwnerOf(m)] = flush[Chat!OwnerOf(m)]  BY <1>1, <1>3 DEF FlushTo
    <2> QED  BY <2>1 DEF SealedFlush
  <1> QED  BY <1>2, <1>3

LEMMA SealedSame ==
    ASSUME flush' = flush, NEW m, SealedFlush(m), Absent(m) => Absent(m)'
    PROVE  SealedFlush(m)'
  BY DEF SealedFlush

-----------------------------------------------------------------------------
(* The head of the queue *)

LEMMA DueAre ==
    ASSUME Chat!ChatOutboxAssumption, NEW s \in Chat!Lists, NEW o, NEW l, l = Chat!Due(o, s)
    PROVE  l \in Chat!Lists /\ MayGo(l, o) /\ Chat!Ids(l) \subseteq Chat!Ids(s)
  <1> DEFINE chosen == {i \in DOMAIN s : /\ Chat!OwnerOf(s[i][1]) = o
                                         /\ ~Chat!DeadLetter(s[i]) /\ s[i] \notin waiting}
  <1>1. l = Chat!Filtered(s, chosen)  BY DEF Chat!Due
  <1>2. chosen \in SUBSET DOMAIN s
        /\ \A i \in chosen : i \in DOMAIN s /\ Chat!OwnerOf(s[i][1]) = o /\ ~Chat!DeadLetter(s[i])
    OBVIOUS
  <1> HIDE DEF chosen
  <1>3. /\ l \in Chat!Lists /\ Chat!Ids(l) = {s[i][1] : i \in chosen}
        /\ \A k \in DOMAIN l : \E i \in chosen : l[k] = s[i]
    BY <1>1, <1>2, FilteredLists
  <1>4. MayGo(l, o)  BY <1>2, <1>3 DEF MayGo
  <1>5. Chat!Ids(l) \subseteq Chat!Ids(s)  BY <1>2, <1>3 DEF Chat!Ids
  <1> QED  BY <1>3, <1>4, <1>5

LEMMA TailsAre ==
    ASSUME Chat!ChatOutboxAssumption, NEW s \in Chat!Lists, s # <<>>, NEW o, NEW l, l = Tail(s)
    PROVE  l \in Chat!Lists /\ (MayGo(s, o) => MayGo(l, o)) /\ Chat!Ids(l) \subseteq Chat!Ids(s)
  <1>1. s \in Seq(Chat!Entries) /\ Len(s) <= Capacity /\ Capacity \in Nat
    BY ListsAre DEF Chat!ChatOutboxAssumption
  <1>2. l \in Seq(Chat!Entries) /\ Len(l) = Len(s) - 1 /\ Len(s) \in Nat  BY <1>1
  <1>3. \A i \in DOMAIN l : i + 1 \in DOMAIN s /\ l[i] = s[i + 1]  BY <1>1, <1>2
  <1>4. l \in Chat!Lists
    <2>1. Len(l) <= Capacity  BY <1>1, <1>2
    <2> QED  BY <1>2, <2>1, ListsAre
  <1>5. MayGo(s, o) => MayGo(l, o)  BY <1>3 DEF MayGo
  <1>6. Chat!Ids(l) \subseteq Chat!Ids(s)  BY <1>3 DEF Chat!Ids
  <1> QED  BY <1>4, <1>5, <1>6

LEMMA HeadsAre ==
    ASSUME Chat!ChatOutboxAssumption, NEW s \in Chat!Lists, s # <<>>
    PROVE  Head(s) \in Chat!Entries /\ Head(s)[1] \in Chat!Ids(s) /\ 1 \in DOMAIN s /\ Head(s) = s[1]
  <1>1. s \in Seq(Chat!Entries)  BY ListsAre
  <1>2. 1 \in DOMAIN s /\ Head(s) = s[1] /\ s[1] \in Chat!Entries  BY <1>1
  <1> QED  BY <1>2 DEF Chat!Ids

LEMMA NoFlushIs ==
    ASSUME Chat!ChatOutboxAssumption
    PROVE  /\ Chat!NoFlush \in FlushRecords /\ Chat!NoFlush.at = "idle" /\ Chat!NoFlush.left = <<>>
           /\ Chat!NoFlush.cancelled = FALSE
  BY ListsAre DEF Chat!NoFlush, FlushRecords, Chat!FlushLabels

\* What becomes of the flush whose operation is done.
LEMMA ResolveFlush ==
    ASSUME Chat!ChatOutboxAssumption, ChatTypes, FlushHolds, NEW op, Placed(op, screen, flush),
           Chat!Resolve(op)
    PROVE  \/ flush' = flush
           \/ /\ op.by = "flush" /\ op.owner \in Users /\ op.kind = flush[op.owner].at
              /\ \/ /\ op.kind = "list"
                    /\ FlushTo(op.owner, "loop", Chat!Due(op.owner, Chat!Readable(disk)), flush[op.owner].cancelled)
                 \/ /\ op.kind = "remove" /\ flush[op.owner].left # <<>>
                    /\ FlushTo(op.owner, "loop", Tail(flush[op.owner].left), flush[op.owner].cancelled)
                 \/ /\ op.kind = "mark"
                    /\ FlushTo(op.owner, "idle", <<>>, FALSE)
  <1> DEFINE o == op.owner
             f == flush[o]
  <1>1. flush \in [Users -> FlushRecords] /\ disk \in Disks  BY DEF ChatTypes
  <1>2. op.by = "flush" => o \in Users /\ op.kind = f.at  BY DEF Placed
  <1>3. op.kind \in {"list", "mark"} => op.by = "flush"  BY DEF Placed
  <1>4. o \in Users => f \in FlushRecords  BY <1>1
  <1>5. CASE op.kind = "list"
         /\ flush' = [flush EXCEPT ![o].at = "loop", ![o].left = Chat!Due(o, Chat!Readable(disk))]
    <2> DEFINE l == Chat!Due(o, Chat!Readable(disk))
    <2>1. l \in Chat!Lists  BY <1>1, Reads, DueAre
    <2>2. o \in Users /\ f \in FlushRecords  BY <1>2, <1>3, <1>4, <1>5
    <2>3. flush' = [flush EXCEPT ![o].at = "loop", ![o].left = l]  BY <1>5
    <2> HIDE DEF l
    <2>4. FlushTo(o, "loop", l, f.cancelled)
      BY <1>1, <2>1, <2>2, <2>3 DEF FlushTo, FlushRecords, Chat!FlushLabels
    <2> QED  BY <1>2, <1>3, <1>5, <2>4 DEF l
  <1>6. CASE op.kind = "remove" /\ op.by = "flush" /\ flush' = [flush EXCEPT ![o].at = "loop", ![o].left = Tail(@)]
    <2>1. o \in Users /\ f \in FlushRecords /\ f.at = "remove"  BY <1>2, <1>4, <1>6
    <2>2. f.left # <<>> /\ f.left \in Chat!Lists  BY <2>1 DEF FlushHolds, FlushRecords
    <2> DEFINE l == Tail(f.left)
    <2>3. l \in Chat!Lists  BY <2>2, TailsAre
    <2>4. flush' = [flush EXCEPT ![o].at = "loop", ![o].left = l]  BY <1>1, <1>6, <2>1
    <2> HIDE DEF l
    <2>5. FlushTo(o, "loop", l, f.cancelled)
      BY <1>1, <2>1, <2>3, <2>4 DEF FlushTo, FlushRecords, Chat!FlushLabels
    <2> QED  BY <1>2, <1>6, <2>2, <2>5 DEF l
  <1>7. CASE op.kind = "mark" /\ flush' = [flush EXCEPT ![o] = Chat!NoFlush]
    <2>1. o \in Users  BY <1>2, <1>3, <1>7
    <2>2. FlushTo(o, "idle", <<>>, FALSE)  BY <1>1, <1>7, <2>1, NoFlushIs DEF FlushTo
    <2> QED  BY <1>2, <1>3, <1>7, <2>2
  <1> QED  BY <1>5, <1>6, <1>7 DEF Chat!Resolve

LEMMA ResolveScreen ==
    ASSUME ChatTypes, NEW op, Placed(op, screen, flush), Chat!Resolve(op)
    PROVE  /\ screen' \in [Chat!Messages -> Chat!ScreenLabels]
           /\ \A m \in Chat!Messages : \/ screen'[m] = screen[m] /\ ~Queues(op, m)
                                       \/ screen'[m] = screen[m] /\ op.kind # "enqueue"
                                       \/ Queues(op, m) /\ screen'[m] = "send"
  <1>1. screen \in [Chat!Messages -> Chat!ScreenLabels]  BY DEF ChatTypes
  <1>2. CASE op.kind = "enqueue"
    <2>1. screen' = [screen EXCEPT ![op.arg[1]] = "send"]  BY <1>2 DEF Chat!Resolve
    <2>2. op.arg[1] \in Chat!Messages  BY <1>2 DEF Placed, Shaped, Chat!Entries
    <2> QED  BY <1>1, <1>2, <2>1, <2>2 DEF Chat!ScreenLabels, Queues
  <1>3. CASE op.kind # "enqueue"
    <2>1. screen' = screen  BY <1>3 DEF Chat!Resolve
    <2> QED  BY <1>1, <1>3, <2>1
  <1> QED  BY <1>2, <1>3

LEMMA PerformSealed ==
    ASSUME Left(queue, queue'), NEW m, SealedQueue(m),
           HeldIn(disk', m) => /\ HeldIn(disk, m) \/ Queues(queue[1], m)
                               /\ ~Purges(queue[1], Chat!OwnerOf(m))
    PROVE  SealedQueue(m)'
  <1>0. 1 \in DOMAIN queue  BY DEF Left
  <1>1. HeldIn(disk, m)' => \E j \in DOMAIN queue' : Purges(queue'[j], Chat!OwnerOf(m))
    <2> SUFFICES ASSUME HeldIn(disk', m)  PROVE \E j \in DOMAIN queue' : Purges(queue'[j], Chat!OwnerOf(m))
      BY DEF HeldIn
    <2>1. PICK j \in DOMAIN queue : Purges(queue[j], Chat!OwnerOf(m))  BY <1>0 DEF SealedQueue
    <2>2. j # 1  BY <2>1
    <2>3. j - 1 \in DOMAIN queue' /\ queue'[j - 1] = queue[j]  BY <2>2 DEF Left
    <2> QED  BY <2>1, <2>3
  <1>2. ASSUME NEW i \in DOMAIN queue', Queues(queue'[i], m)
        PROVE  \E j \in DOMAIN queue' : j > i /\ Purges(queue'[j], Chat!OwnerOf(m))
    <2>1. i + 1 \in DOMAIN queue /\ queue'[i] = queue[i + 1]  BY DEF Left
    <2>2. PICK j \in DOMAIN queue : j > i + 1 /\ Purges(queue[j], Chat!OwnerOf(m))
      BY <1>2, <2>1 DEF SealedQueue
    <2>3. j - 1 \in DOMAIN queue' /\ queue'[j - 1] = queue[j] /\ j - 1 > i  BY <2>2 DEF Left
    <2> QED  BY <2>2, <2>3
  <1> QED  BY <1>1, <1>2 DEF SealedQueue

LEMMA PerformAbsent ==
    ASSUME Left(queue, queue'), NEW m, Absent(m),
           HeldIn(disk', m) => HeldIn(disk, m) \/ Queues(queue[1], m)
    PROVE  Absent(m)'
  <1>1. 1 \in DOMAIN queue  BY DEF Left
  <1>2. ~HeldIn(disk', m)  BY <1>1 DEF Absent
  <1>3. \A i \in DOMAIN queue' : ~Queues(queue'[i], m)  BY DEF Absent, Left
  <1> QED  BY <1>2, <1>3 DEF Absent, HeldIn

\* The operation at the head of the queue.
LEMMA PerformKeeps ==
    ASSUME Chat!ChatOutboxAssumption, ChatInv, Chat!Perform
    PROVE  ChatInv'
  <1> DEFINE op == Head(queue)
  <1>1. /\ ChatTypes /\ QueuePlaced /\ QueueApart /\ FlushHolds /\ KeptStored /\ CalledSealed
        /\ NoPurgeWaits
    BY DEF ChatInv
  <1>2. /\ queue # <<>> /\ disk' = Chat!After(disk, Chat!Calls(op)) /\ queue' = Tail(queue) /\ Chat!Resolve(op)
        /\ kept' = ((IF op.kind = "enqueue" THEN kept \cup {op.arg[1]} ELSE kept) \ Chat!GivenUp(op))
                   \cap (IF op.kind = "enqueue" THEN Chat!Ids(disk'["main"]) ELSE Chat!Messages)
        /\ expired' = expired /\ auth' = auth /\ called' = called
    BY DEF Chat!Perform
  <1>3. disk \in Disks /\ queue \in Seq(Chat!Ops)  BY <1>1 DEF ChatTypes
  <1>4. Left(queue, queue')  BY <1>2, <1>3, Leaves
  <1>5. op = queue[1] /\ 1 \in DOMAIN queue /\ queue' \in Seq(Chat!Ops)  BY <1>4 DEF Left
  <1>6. Placed(op, screen, flush)  BY <1>1, <1>5 DEF QueuePlaced
  <1> HIDE DEF op
  <1>7. Shaped(op)  BY <1>6 DEF Placed
  <1>8. /\ disk' \in Disks /\ disk'["main"] # Chat!Torn
        /\ op.kind = "purgeAll" => \A m : ~HeldIn(disk', m)
        /\ op.kind = "purge" => \A m : HeldIn(disk', m) => Chat!OwnerOf(m) # op.owner
        /\ \A m : HeldIn(disk', m) => HeldIn(disk, m) \/ Queues(op, m)
        /\ \A m \in Chat!Ids(Chat!Readable(disk)) :
              op.kind # "enqueue" /\ m \notin Chat!GivenUp(op) => m \in Chat!Ids(Chat!Readable(disk'))
    BY <1>2, <1>3, <1>7, Performs
  <1>9. /\ screen' \in [Chat!Messages -> Chat!ScreenLabels]
        /\ \A m \in Chat!Messages : \/ screen'[m] = screen[m] /\ ~Queues(op, m)
                                    \/ screen'[m] = screen[m] /\ op.kind # "enqueue"
                                    \/ Queues(op, m) /\ screen'[m] = "send"
    BY <1>1, <1>2, <1>6, ResolveScreen
  <1>10. \/ flush' = flush
         \/ /\ op.by = "flush" /\ op.owner \in Users /\ op.kind = flush[op.owner].at
            /\ \/ /\ op.kind = "list"
                  /\ FlushTo(op.owner, "loop", Chat!Due(op.owner, Chat!Readable(disk)), flush[op.owner].cancelled)
               \/ /\ op.kind = "remove" /\ flush[op.owner].left # <<>>
                  /\ FlushTo(op.owner, "loop", Tail(flush[op.owner].left), flush[op.owner].cancelled)
               \/ /\ op.kind = "mark"
                  /\ FlushTo(op.owner, "idle", <<>>, FALSE)
    BY <1>1, <1>2, <1>6, ResolveFlush
  <1>11. PICK a, l, c : \/ flush' = flush
                        \/ op.by = "flush" /\ op.owner \in Users /\ FlushTo(op.owner, a, l, c)
    BY <1>10
  <1>12. ChatTypes'
    <2>1. flush' \in [Users -> FlushRecords]  BY <1>1, <1>11 DEF ChatTypes, FlushTo
    <2>2. op.kind = "enqueue" => op.arg[1] \in Chat!Messages  BY <1>7 DEF Shaped, Chat!Entries
    <2>3. kept' \in SUBSET Chat!Messages  BY <1>1, <1>2, <2>2 DEF ChatTypes
    <2> QED  BY <1>1, <1>2, <1>5, <1>8, <1>9, <2>1, <2>3 DEF ChatTypes
  <1>13. \A i \in DOMAIN queue' : Placed(queue'[i], screen', flush')
    <2> SUFFICES ASSUME NEW i \in DOMAIN queue'  PROVE Placed(queue'[i], screen', flush')
      OBVIOUS
    <2>1. i + 1 \in DOMAIN queue /\ queue'[i] = queue[i + 1] /\ i + 1 # 1  BY <1>4 DEF Left
    <2> DEFINE x == queue[i + 1]
    <2>2. Placed(x, screen, flush) /\ Apart(op, x)  BY <1>1, <1>5, <2>1 DEF QueuePlaced, QueueApart
    <2> HIDE DEF x
    <2>3. x.kind = "enqueue" => screen'[x.arg[1]] = "enqueue"
      <3> SUFFICES ASSUME x.kind = "enqueue"  PROVE screen'[x.arg[1]] = "enqueue"
        OBVIOUS
      <3>1. x.arg[1] \in Chat!Messages /\ screen[x.arg[1]] = "enqueue"
        BY <2>2 DEF Placed, Shaped, Chat!Entries
      <3>2. ~Queues(op, x.arg[1])  BY <2>2 DEF Apart, Queues
      <3> QED  BY <1>9, <3>1, <3>2
    <2>4. x.by = "flush" => flush'[x.owner].at = flush[x.owner].at
      <3> SUFFICES ASSUME x.by = "flush"  PROVE flush'[x.owner].at = flush[x.owner].at
        OBVIOUS
      <3>1. x.owner \in Users  BY <2>2 DEF Placed
      <3>2. op.by = "flush" => x.owner # op.owner  BY <2>2 DEF Apart
      <3> QED  BY <1>11, <3>1, <3>2 DEF FlushTo
    <2>5. Placed(x, screen', flush')  BY <2>2, <2>3, <2>4, StaysPlaced
    <2> QED  BY <2>1, <2>5 DEF x
  <1>14. QueuePlaced' /\ QueueApart'
    <2>1. QueuePlaced'  BY <1>13 DEF QueuePlaced
    <2>2. \A i, j \in DOMAIN queue' : i # j => Apart(queue'[i], queue'[j])
      <3> SUFFICES ASSUME NEW i \in DOMAIN queue', NEW j \in DOMAIN queue', i # j
                   PROVE  Apart(queue'[i], queue'[j])
        OBVIOUS
      <3>1. /\ i + 1 \in DOMAIN queue /\ queue'[i] = queue[i + 1] /\ i \in Nat
            /\ j + 1 \in DOMAIN queue /\ queue'[j] = queue[j + 1] /\ j \in Nat
        BY <1>4 DEF Left
      <3>2. i + 1 # j + 1  BY <3>1
      <3> QED  BY <1>1, <3>1, <3>2 DEF QueueApart
    <2> QED  BY <2>1, <2>2 DEF QueueApart
  <1>15. FlushHolds'
    <2>1. CASE flush' = flush  BY <1>1, <2>1 DEF FlushHolds
    <2>2. CASE flush' # flush
      <3> DEFINE o == op.owner
                 f == flush[o]
      <3>1. o \in Users /\ f.left \in Chat!Lists /\ MayGo(f.left, o)
        BY <1>1, <1>10, <2>2 DEF ChatTypes, FlushRecords, FlushHolds
      <3>2. MayGo(Chat!Due(o, Chat!Readable(disk)), o)  BY <1>3, Reads, DueAre
      <3>3. f.left # <<>> => MayGo(Tail(f.left), o)  BY <3>1, TailsAre
      <3>4. MayGo(<<>>, o)  BY DEF MayGo
      <3> HIDE DEF o, f
      <3>5. PICK b, k, d : /\ FlushTo(o, b, k, d) /\ b \in {"loop", "idle"} /\ MayGo(k, o)
        BY <1>10, <2>2, <3>2, <3>3, <3>4 DEF o, f
      <3>6. b \notin {"send", "remove", "mark"}  BY <3>5
      <3> QED  BY <1>1, <3>1, <3>5, <3>6, FlushToHolds
    <2> QED  BY <2>1, <2>2
  <1>16. KeptStored'
    <2>1. ASSUME NEW m \in kept'  PROVE m \in Stored(disk') /\ m \notin expired
      <3>1. CASE op.kind = "enqueue"
        <4>1. m \in Chat!Ids(disk'["main"])  BY <1>2, <2>1, <3>1
        <4>2. m \in Stored(disk')  BY <1>8, <4>1 DEF Stored
        <4>3. m \in kept \/ m = op.arg[1]  BY <1>2, <2>1, <3>1
        <4>4. screen[op.arg[1]] = "enqueue"  BY <1>6, <3>1 DEF Placed
        <4> QED  BY <1>1, <4>2, <4>3, <4>4 DEF KeptStored
      <3>2. CASE op.kind # "enqueue"
        <4>1. m \in kept /\ m \notin Chat!GivenUp(op)  BY <1>2, <2>1, <3>2
        <4>2. m \in Stored(disk) /\ m \notin expired  BY <1>1, <4>1 DEF KeptStored
        <4>3. m \in Chat!Ids(Chat!Readable(disk))  BY <1>3, <4>2, StoredIs
        <4>4. m \in Chat!Ids(Chat!Readable(disk'))  BY <1>8, <3>2, <4>1, <4>3
        <4>5. m \in Stored(disk')  BY <1>8, <4>4, StoredIs
        <4> QED  BY <4>2, <4>5
      <3> QED  BY <3>1, <3>2
    <2>2. \A m \in expired : screen'[m] \notin {"new", "enqueue"}
      BY <1>1, <1>9 DEF KeptStored, ChatTypes
    <2> QED  BY <1>2, <2>1, <2>2 DEF KeptStored, Stored
  <1>17. ASSUME NEW m \in called
         PROVE  screen'[m] # "new" /\ SealedQueue(m)' /\ SealedFlush(m)'
    <2>1. m \in Chat!Messages /\ screen[m] # "new" /\ SealedQueue(m) /\ SealedFlush(m)
      BY <1>1 DEF ChatTypes, CalledSealed
    <2>2. screen'[m] # "new"  BY <1>9, <2>1
    <2>3. HeldIn(disk', m) => HeldIn(disk, m) \/ Queues(op, m)  BY <1>8
    <2>4. HeldIn(disk', m) => ~Purges(op, Chat!OwnerOf(m))  BY <1>8 DEF Purges
    <2>5. SealedQueue(m)'  BY <1>4, <1>5, <2>1, <2>3, <2>4, PerformSealed
    <2>6. Absent(m) => Absent(m)'  BY <1>4, <1>5, <2>3, PerformAbsent
    <2>7. SealedFlush(m)'
      <3>1. CASE flush' = flush  BY <2>1, <2>6, <3>1, SealedSame
      <3>2. CASE flush' # flush
        <4> DEFINE o == op.owner
                   f == flush[o]
        <4>1. o \in Users /\ f.left \in Chat!Lists /\ op.kind = f.at
          BY <1>1, <1>10, <3>2 DEF ChatTypes, FlushRecords
        <4>2. CASE op.kind = "list" /\ FlushTo(o, "loop", Chat!Due(o, Chat!Readable(disk)), f.cancelled)
          <5>1. Chat!OwnerOf(m) = o /\ ~f.cancelled => ~HeldIn(disk, m)
            BY <2>1, <4>1, <4>2 DEF SealedFlush, Absent
          <5>2. Chat!OwnerOf(m) = o /\ ~f.cancelled => m \notin Chat!Ids(Chat!Readable(disk))
            BY <1>3, <5>1, ReadIsHeld
          <5> DEFINE l2 == Chat!Due(o, Chat!Readable(disk))
          <5>3. Chat!Ids(l2) \subseteq Chat!Ids(Chat!Readable(disk))  BY <1>3, Reads, DueAre
          <5> HIDE DEF l2
          <5>4. Chat!OwnerOf(m) = o /\ ~f.cancelled => m \notin Chat!Ids(l2)  BY <5>2, <5>3
          <5>5. FlushTo(o, "loop", l2, f.cancelled)  BY <4>2 DEF l2
          <5> HIDE DEF o, f
          <5> QED  BY <2>1, <2>6, <4>1, <5>4, <5>5, FlushToSealed
        <4>3. CASE op.kind = "remove" /\ f.left # <<>> /\ FlushTo(o, "loop", Tail(f.left), f.cancelled)
          <5>1. Chat!OwnerOf(m) = o /\ ~f.cancelled => m \notin Chat!Ids(f.left)
            BY <2>1, <4>1, <4>3 DEF SealedFlush
          <5> DEFINE l2 == Tail(f.left)
          <5>2. Chat!Ids(l2) \subseteq Chat!Ids(f.left)  BY <4>1, <4>3, TailsAre
          <5>3. FlushTo(o, "loop", l2, f.cancelled)  BY <4>3
          <5> HIDE DEF l2
          <5>4. Chat!OwnerOf(m) = o /\ ~f.cancelled => m \notin Chat!Ids(l2)  BY <5>1, <5>2
          <5> HIDE DEF o, f
          <5> QED  BY <2>1, <2>6, <4>1, <5>3, <5>4, FlushToSealed
        <4>4. CASE op.kind = "mark" /\ FlushTo(o, "idle", <<>>, FALSE)
          <5>1. PICK b, k, d : FlushTo(o, b, k, d) /\ b = "idle"  BY <4>4
          <5> HIDE DEF o, f
          <5>2. b # "list" /\ ~(b \notin {"idle", "list"})  BY <5>1
          <5> QED  BY <2>1, <2>6, <4>1, <5>1, <5>2, FlushToSealed
        <4> QED  BY <1>10, <3>2, <4>2, <4>3, <4>4
      <3> QED  BY <3>1, <3>2
    <2> QED  BY <2>2, <2>5, <2>7
  <1>18. CalledSealed'  BY <1>2, <1>17 DEF CalledSealed
  <1>19. NoPurgeWaits'  BY <1>1, <1>2, <1>4 DEF NoPurgeWaits, Left
  <1> QED  BY <1>12, <1>14, <1>15, <1>16, <1>18, <1>19 DEF ChatInv

-----------------------------------------------------------------------------
(* The flush, the screen and the session *)

LEMMA KeptSame ==
    ASSUME KeptStored, disk' = disk, kept' = kept, expired' = expired,
           \A m \in expired : screen'[m] \notin {"new", "enqueue"}
    PROVE  KeptStored'
  BY DEF KeptStored, Stored

LEMMA NoPurgeRequest ==
    ASSUME NoPurgeWaits, auth' = auth, queue \in Seq(Chat!Ops), NEW x \in Chat!Ops, queue' = queue \o <<x>>,
           \A o : ~Purges(x, o)
    PROVE  NoPurgeWaits'
  <1>1. Joined(queue, x, queue')  BY Joins
  <1>2. \A j \in DOMAIN queue' : (j \in DOMAIN queue /\ queue'[j] = queue[j]) \/ queue'[j] = x
    BY <1>1 DEF Joined
  <1> QED  BY <1>2 DEF NoPurgeWaits

LEMMA SameKeeps ==
    ASSUME ChatInv, UNCHANGED <<disk, queue, expired, flush, screen, auth, kept, called>>
    PROVE  ChatInv'
  <1>1. ChatTypes' /\ QueuePlaced' /\ QueueApart' /\ FlushHolds' /\ NoPurgeWaits'
    BY DEF ChatInv, ChatTypes, QueuePlaced, QueueApart, FlushHolds, NoPurgeWaits
  <1>2. KeptStored'  BY DEF ChatInv, KeptStored, Stored
  <1>3. CalledSealed'
    <2>1. ASSUME NEW m \in called  PROVE SealedQueue(m)' /\ SealedFlush(m)'
      <3>1. SealedQueue(m) /\ SealedFlush(m)  BY DEF ChatInv, CalledSealed
      <3>2. (SealedQueue(m) => SealedQueue(m)') /\ (Absent(m) => Absent(m)')  BY QueueSame
      <3> QED  BY <3>1, <3>2, SealedSame
    <2> QED  BY <2>1 DEF ChatInv, CalledSealed
  <1> QED  BY <1>1, <1>2, <1>3 DEF ChatInv

\* What the steps of a flush do to it.
LEMMA FlushStartIs ==
    ASSUME Chat!ChatOutboxAssumption, ChatTypes, NEW o \in Users, Chat!FlushStart(o)
    PROVE  FlushTo(o, "list", <<>>, FALSE)
  <1>1. flush \in [Users -> FlushRecords] /\ flush' = [flush EXCEPT ![o] = [Chat!NoFlush EXCEPT !.at = "list"]]
    BY DEF ChatTypes, Chat!FlushStart
  <1>2. Chat!NoFlush \in FlushRecords /\ Chat!NoFlush.left = <<>> /\ Chat!NoFlush.cancelled = FALSE
    BY NoFlushIs
  <1> QED  BY <1>1, <1>2 DEF FlushTo, FlushRecords, Chat!FlushLabels

LEMMA FlushLoopIs ==
    ASSUME Chat!ChatOutboxAssumption, ChatTypes, NEW o \in Users, Chat!FlushLoop(o)
    PROVE  /\ flush[o].at = "loop"
           /\ \/ FlushTo(o, "idle", <<>>, FALSE)
              \/ /\ flush[o].left # <<>> /\ ~flush[o].cancelled
                 /\ FlushTo(o, "send", flush[o].left, FALSE)
  <1>1. flush \in [Users -> FlushRecords] /\ auth \in Users \cup {"none"}  BY DEF ChatTypes
  <1>2. flush[o] \in FlushRecords  BY <1>1
  <1>3. CASE flush[o].left = <<>> \/ flush[o].cancelled
    <2>1. flush' = [flush EXCEPT ![o] = Chat!NoFlush]  BY <1>3 DEF Chat!FlushLoop
    <2> QED  BY <1>1, <2>1, NoFlushIs DEF FlushTo, Chat!FlushLoop
  <1>4. CASE ~(flush[o].left = <<>> \/ flush[o].cancelled)
    <2>1. flush' = [flush EXCEPT ![o].at = "send", ![o].as = auth]  BY <1>4 DEF Chat!FlushLoop
    <2>2. flush[o].cancelled = FALSE  BY <1>2, <1>4 DEF FlushRecords
    <2>3. FlushTo(o, "send", flush[o].left, FALSE)
      BY <1>1, <1>2, <2>1, <2>2 DEF FlushTo, FlushRecords, Chat!FlushLabels
    <2> QED  BY <1>4, <2>3 DEF Chat!FlushLoop
  <1> QED  BY <1>3, <1>4

LEMMA FlushAnswerIs ==
    ASSUME Chat!ChatOutboxAssumption, ChatTypes, NEW o \in Users, Chat!FlushAnswer(o)
    PROVE  \E a \in {"remove", "mark"} :
              /\ FlushTo(o, a, flush[o].left, flush[o].cancelled)
              /\ queue' = queue \o <<Chat!Op(a, "flush", o, Head(flush[o].left))>>
  <1>1. flush \in [Users -> FlushRecords] /\ flush[o] \in FlushRecords  BY DEF ChatTypes
  <1>2. PICK a \in {"remove", "mark"} :
           /\ flush' = [flush EXCEPT ![o].at = a, ![o].as = "none"]
           /\ queue' = queue \o <<Chat!Op(a, "flush", o, Head(flush[o].left))>>
    BY DEF Chat!FlushAnswer, Chat!Request
  <1>3. a \in Chat!FlushLabels  BY <1>2 DEF Chat!FlushLabels
  <1>4. FlushTo(o, a, flush[o].left, flush[o].cancelled)
    BY <1>1, <1>2, <1>3 DEF FlushTo, FlushRecords
  <1> QED  BY <1>2, <1>4

\* A flush in a place where it waits for nothing has nothing in the queue.
LEMMA NothingWaits ==
    ASSUME QueuePlaced, NEW o \in Users, flush[o].at \in {"idle", "loop", "send"}, NEW i \in DOMAIN queue
    PROVE  queue[i].by # "flush" \/ queue[i].owner # o
  <1>1. Placed(queue[i], screen, flush)  BY DEF QueuePlaced
  <1> QED  BY <1>1 DEF Placed, Shaped

LEMMA FlushStartKeeps ==
    ASSUME Chat!ChatOutboxAssumption, ChatInv, NEW o \in Users, Chat!FlushStart(o)
    PROVE  ChatInv'
  <1> DEFINE x == Chat!Op("list", "flush", o, <<>>)
  <1>1. /\ ChatTypes /\ QueuePlaced /\ QueueApart /\ FlushHolds /\ KeptStored /\ CalledSealed
        /\ NoPurgeWaits
    BY DEF ChatInv
  <1>2. /\ auth = o /\ flush[o].at = "idle" /\ queue' = queue \o <<x>>
        /\ disk' = disk /\ expired' = expired /\ screen' = screen /\ auth' = auth
        /\ kept' = kept /\ called' = called
    BY DEF Chat!FlushStart, Chat!Request, Chat!history
  <1>3. FlushTo(o, "list", <<>>, FALSE)  BY <1>1, FlushStartIs
  <1>4. x \in Chat!Ops /\ x.kind = "list" /\ x.by = "flush" /\ x.owner = o  BY DEF Chat!Op, Chat!Ops
  <1>5. Shaped(x)  BY <1>4 DEF Shaped
  <1> HIDE DEF x
  <1>6. queue \in Seq(Chat!Ops) /\ Joined(queue, x, queue')  BY <1>1, <1>2, <1>4, Joins DEF ChatTypes
  <1>7. ChatTypes'  BY <1>1, <1>2, <1>3, <1>6 DEF ChatTypes, FlushTo, Joined
  <1>8. \A i \in DOMAIN queue : queue[i].by # "flush" \/ queue[i].owner # o
    BY <1>1, <1>2, NothingWaits
  <1>9. \A i \in DOMAIN queue : Placed(queue[i], screen', flush')
    <2>1. \A i \in DOMAIN queue : Placed(queue[i], screen, flush)  BY <1>1 DEF QueuePlaced
    <2> QED  BY <1>2, <1>3, <1>8, <2>1, FlushToPlaced
  <1>10. \A i \in DOMAIN queue : Apart(queue[i], x)  BY <1>4, <1>8 DEF Apart, Queues
  <1>11. Placed(x, screen', flush')  BY <1>3, <1>4, <1>5 DEF Placed, FlushTo
  <1>12. QueuePlaced' /\ QueueApart'
    BY <1>1, <1>2, <1>4, <1>6, <1>9, <1>10, <1>11, RequestPlaced
  <1>13. FlushHolds'
    <2>1. MayGo(<<>>, o)  BY DEF MayGo
    <2> QED  BY <1>1, <1>3, <2>1, FlushToHolds
  <1>14. KeptStored'  BY <1>1, <1>2, KeptSame DEF KeptStored
  <1>15. ASSUME NEW m \in called  PROVE screen[m] # "new" /\ SealedQueue(m)' /\ SealedFlush(m)'
    <2>1. m \in Chat!Messages /\ screen[m] # "new" /\ SealedQueue(m) /\ SealedFlush(m)
      BY <1>1 DEF ChatTypes, CalledSealed
    <2>2. ~Queues(x, m)  BY <1>4 DEF Queues
    <2>3. SealedQueue(m)' /\ (Absent(m) => Absent(m)')  BY <1>2, <1>4, <1>6, <2>1, <2>2, RequestSealed
    <2>4. Absent(m)
      <3>1. auth # "none"  BY <1>2 DEF Chat!ChatOutboxAssumption
      <3> QED  BY <1>1, <2>1, <3>1 DEF NoPurgeWaits, SealedQueue, Absent
    <2>5. PICK a, l, c : FlushTo(o, a, l, c) /\ a = "list"  BY <1>3
    <2>6. ~(a \notin {"idle", "list"})  BY <2>5
    <2>7. SealedFlush(m)'  BY <2>1, <2>3, <2>4, <2>5, <2>6, FlushToSealed
    <2> QED  BY <2>1, <2>3, <2>7
  <1>16. CalledSealed'  BY <1>2, <1>15 DEF CalledSealed
  <1>17. NoPurgeWaits'  BY <1>1, <1>2, <1>4, <1>6, NoPurgeRequest DEF Purges
  <1> QED  BY <1>7, <1>12, <1>13, <1>14, <1>16, <1>17 DEF ChatInv

LEMMA FlushLoopKeeps ==
    ASSUME Chat!ChatOutboxAssumption, ChatInv, NEW o \in Users, Chat!FlushLoop(o)
    PROVE  ChatInv'
  <1>1. /\ ChatTypes /\ QueuePlaced /\ QueueApart /\ FlushHolds /\ KeptStored /\ CalledSealed
        /\ NoPurgeWaits
    BY DEF ChatInv
  <1>2. /\ queue' = queue /\ disk' = disk /\ expired' = expired /\ screen' = screen /\ auth' = auth
        /\ kept' = kept /\ called' = called
    BY DEF Chat!FlushLoop, Chat!history
  <1>3. PICK a, l, c : /\ flush[o].at = "loop" /\ FlushTo(o, a, l, c)
                       /\ \/ a = "idle" /\ l = <<>>
                          \/ a = "send" /\ l = flush[o].left /\ l # <<>> /\ ~flush[o].cancelled
    <2>1. flush[o].at = "loop" /\ \/ FlushTo(o, "idle", <<>>, FALSE)
                                  \/ /\ flush[o].left # <<>> /\ ~flush[o].cancelled
                                     /\ FlushTo(o, "send", flush[o].left, FALSE)
      BY <1>1, FlushLoopIs
    <2> QED  BY <2>1
  <1>4. ChatTypes'  BY <1>1, <1>2, <1>3 DEF ChatTypes, FlushTo
  <1>5. QueuePlaced' /\ QueueApart'
    <2>1. \A i \in DOMAIN queue : queue[i].by # "flush" \/ queue[i].owner # o
      BY <1>1, <1>3, NothingWaits
    <2>2. \A i \in DOMAIN queue : Placed(queue[i], screen, flush)  BY <1>1 DEF QueuePlaced
    <2>3. \A i \in DOMAIN queue : Placed(queue[i], screen', flush')
      BY <1>2, <1>3, <2>1, <2>2, FlushToPlaced
    <2> QED  BY <1>1, <1>2, <2>3 DEF QueuePlaced, QueueApart
  <1>6. FlushHolds'
    <2>1. MayGo(<<>>, o)  BY DEF MayGo
    <2>2. MayGo(l, o)  BY <1>1, <1>3, <2>1 DEF FlushHolds
    <2>3. a \in {"send", "remove", "mark"} => l # <<>>  BY <1>3
    <2> QED  BY <1>1, <1>3, <2>2, <2>3, FlushToHolds
  <1>7. KeptStored'  BY <1>1, <1>2, KeptSame DEF KeptStored
  <1>8. ASSUME NEW m \in called  PROVE screen[m] # "new" /\ SealedQueue(m)' /\ SealedFlush(m)'
    <2>1. m \in Chat!Messages /\ screen[m] # "new" /\ SealedQueue(m) /\ SealedFlush(m)
      BY <1>1 DEF ChatTypes, CalledSealed
    <2>2. SealedQueue(m)' /\ (Absent(m) => Absent(m)')  BY <1>2, <2>1, QueueSame
    <2>3. a # "list"  BY <1>3
    <2>4. Chat!OwnerOf(m) = o /\ a \notin {"idle", "list"} => m \notin Chat!Ids(l)
      BY <1>3, <2>1 DEF SealedFlush
    <2>5. SealedFlush(m)'  BY <1>3, <2>1, <2>2, <2>3, <2>4, FlushToSealed
    <2> QED  BY <2>1, <2>2, <2>5
  <1>9. CalledSealed'  BY <1>2, <1>8 DEF CalledSealed
  <1>10. NoPurgeWaits'  BY <1>1, <1>2 DEF NoPurgeWaits
  <1> QED  BY <1>4, <1>5, <1>6, <1>7, <1>9, <1>10 DEF ChatInv

LEMMA FlushAnswerKeeps ==
    ASSUME Chat!ChatOutboxAssumption, ChatInv, NEW o \in Users, Chat!FlushAnswer(o)
    PROVE  ChatInv'
  <1> DEFINE f == flush[o]
             y == Head(f.left)
  <1>1. /\ ChatTypes /\ QueuePlaced /\ QueueApart /\ FlushHolds /\ KeptStored /\ CalledSealed
        /\ NoPurgeWaits
    BY DEF ChatInv
  <1>2. /\ f.at = "send"
        /\ disk' = disk /\ expired' = expired /\ screen' = screen /\ auth' = auth
        /\ kept' = kept /\ called' = called
    BY DEF Chat!FlushAnswer, Chat!history
  <1>3. PICK a \in {"remove", "mark"} :
           FlushTo(o, a, f.left, f.cancelled) /\ queue' = queue \o <<Chat!Op(a, "flush", o, y)>>
    BY <1>1, FlushAnswerIs
  <1> DEFINE x == Chat!Op(a, "flush", o, y)
  <1>4. f.left # <<>> /\ f.left \in Chat!Lists /\ MayGo(f.left, o)
    BY <1>1, <1>2 DEF FlushHolds, ChatTypes, FlushRecords
  <1>5. y \in Chat!Entries /\ y[2] < MaxAttempts
    <2>1. y \in Chat!Entries /\ 1 \in DOMAIN f.left /\ y = f.left[1]  BY <1>4, HeadsAre
    <2>2. ~Chat!DeadLetter(y)  BY <1>4, <2>1 DEF MayGo
    <2>3. y[2] \in 0..MaxAttempts /\ MaxAttempts \in Nat  BY <2>1 DEF Chat!Entries, Chat!ChatOutboxAssumption
    <2> QED  BY <2>1, <2>2, <2>3 DEF Chat!DeadLetter
  <1>6. /\ x \in Chat!Ops /\ x.kind = a /\ x.by = "flush" /\ x.owner = o /\ x.arg = y
    BY <1>3, <1>5 DEF Chat!Op, Chat!Ops
  <1>7. Shaped(x)  BY <1>3, <1>5, <1>6 DEF Shaped
  <1>8. queue' = queue \o <<x>>  BY <1>3
  <1> HIDE DEF x, y, f
  <1>9. queue \in Seq(Chat!Ops) /\ Joined(queue, x, queue')  BY <1>1, <1>6, <1>8, Joins DEF ChatTypes
  <1>10. ChatTypes'  BY <1>1, <1>2, <1>3, <1>9 DEF ChatTypes, FlushTo, Joined
  <1>11. \A i \in DOMAIN queue : queue[i].by # "flush" \/ queue[i].owner # o
    BY <1>1, <1>2, NothingWaits DEF f
  <1>12. \A i \in DOMAIN queue : Placed(queue[i], screen', flush')
    <2>1. \A i \in DOMAIN queue : Placed(queue[i], screen, flush)  BY <1>1 DEF QueuePlaced
    <2> QED  BY <1>2, <1>3, <1>11, <2>1, FlushToPlaced
  <1>13. \A i \in DOMAIN queue : Apart(queue[i], x)  BY <1>3, <1>6, <1>11 DEF Apart, Queues
  <1>14. Placed(x, screen', flush')  BY <1>3, <1>6, <1>7 DEF Placed, FlushTo
  <1>15. QueuePlaced' /\ QueueApart'
    BY <1>1, <1>6, <1>8, <1>9, <1>12, <1>13, <1>14, RequestPlaced
  <1>16. FlushHolds'  BY <1>1, <1>3, <1>4, FlushToHolds
  <1>17. KeptStored'  BY <1>1, <1>2, KeptSame DEF KeptStored
  <1>18. ASSUME NEW m \in called  PROVE screen[m] # "new" /\ SealedQueue(m)' /\ SealedFlush(m)'
    <2>1. m \in Chat!Messages /\ screen[m] # "new" /\ SealedQueue(m) /\ SealedFlush(m)
      BY <1>1 DEF ChatTypes, CalledSealed
    <2>2. ~Queues(x, m)  BY <1>3, <1>6 DEF Queues
    <2>3. SealedQueue(m)' /\ (Absent(m) => Absent(m)')  BY <1>6, <1>8, <1>2, <1>9, <2>1, <2>2, RequestSealed
    <2>4. a # "list"  BY <1>3
    <2>5. Chat!OwnerOf(m) = o /\ ~f.cancelled => m \notin Chat!Ids(f.left)
      BY <1>2, <2>1 DEF SealedFlush, f
    <2>6. SealedFlush(m)'  BY <1>3, <2>1, <2>3, <2>4, <2>5, FlushToSealed
    <2> QED  BY <2>1, <2>3, <2>6
  <1>19. CalledSealed'  BY <1>2, <1>18 DEF CalledSealed
  <1>20. NoPurgeWaits'  BY <1>1, <1>2, <1>3, <1>6, <1>8, <1>9, NoPurgeRequest DEF Purges
  <1> QED  BY <1>10, <1>15, <1>16, <1>17, <1>19, <1>20 DEF ChatInv

-----------------------------------------------------------------------------
(* The screen and the session *)

\* A step of the chat screen, with an operation or without.
LEMMA ScreenKeeps ==
    ASSUME Chat!ChatOutboxAssumption, ChatInv, NEW m \in Chat!Messages, NEW v \in Chat!ScreenLabels,
           v # "new",
           screen' = [screen EXCEPT ![m] = v], screen[m] # "enqueue",
           v = "enqueue" => screen[m] = "new",
           UNCHANGED <<disk, expired, flush, auth, kept, called>>,
           \/ queue' = queue
           \/ \E x \in Chat!Ops : /\ queue' = queue \o <<x>> /\ Shaped(x) /\ x.by = "screen"
                                  /\ \/ x.kind = "remove"
                                     \/ x.kind = "enqueue" /\ x.arg[1] = m /\ v = "enqueue"
    PROVE  ChatInv'
  <1>1. /\ ChatTypes /\ QueuePlaced /\ QueueApart /\ FlushHolds /\ KeptStored /\ CalledSealed
        /\ NoPurgeWaits
    BY DEF ChatInv
  <1>2. queue \in Seq(Chat!Ops) /\ screen \in [Chat!Messages -> Chat!ScreenLabels]  BY <1>1 DEF ChatTypes
  <1>3. screen' \in [Chat!Messages -> Chat!ScreenLabels] /\ screen'[m] = v
        /\ \A n \in Chat!Messages : n # m => screen'[n] = screen[n]
    BY <1>2
  <1>4. \A i \in DOMAIN queue : Placed(queue[i], screen', flush') /\ ~Queues(queue[i], m)
    <2> SUFFICES ASSUME NEW i \in DOMAIN queue
                 PROVE  Placed(queue[i], screen', flush') /\ ~Queues(queue[i], m)
      OBVIOUS
    <2> DEFINE y == queue[i]
    <2>1. Placed(y, screen, flush)  BY <1>1 DEF QueuePlaced
    <2> HIDE DEF y
    <2>2. ~Queues(y, m)  BY <2>1 DEF Placed, Queues
    <2>3. y.kind = "enqueue" => y.arg[1] \in Chat!Messages /\ y.arg[1] # m /\ screen[y.arg[1]] = "enqueue"
      BY <2>1, <2>2 DEF Placed, Shaped, Chat!Entries, Queues
    <2>4. Placed(y, screen', flush')  BY <1>3, <2>1, <2>3, StaysPlaced
    <2> QED  BY <2>2, <2>4 DEF y
  <1>5. \A n \in expired : screen'[n] \notin {"new", "enqueue"}
    BY <1>1, <1>3 DEF ChatTypes, KeptStored
  <1>6. KeptStored' /\ FlushHolds'
    <2>1. KeptStored'  BY <1>1, <1>5, KeptSame
    <2> QED  BY <1>1, <2>1 DEF FlushHolds
  <1>7. ASSUME \A n \in called : (SealedQueue(n) => SealedQueue(n)') /\ (Absent(n) => Absent(n)')
        PROVE  CalledSealed'
    <2>1. \A n \in called : n \in Chat!Messages /\ screen'[n] # "new"
      BY <1>1, <1>3 DEF CalledSealed, ChatTypes
    <2>2. \A n \in called : SealedQueue(n)' /\ SealedFlush(n)'
      BY <1>1, <1>7, SealedSame DEF CalledSealed
    <2> QED  BY <2>1, <2>2 DEF CalledSealed
  <1>8. CASE queue' = queue
    <2>1. ChatTypes'  BY <1>1, <1>3, <1>8 DEF ChatTypes
    <2>2. QueuePlaced' /\ QueueApart'  BY <1>1, <1>4, <1>8 DEF QueuePlaced, QueueApart
    <2>3. CalledSealed'  BY <1>7, <1>8, QueueSame
    <2>4. NoPurgeWaits'  BY <1>1, <1>8 DEF NoPurgeWaits
    <2> QED  BY <1>6, <2>1, <2>2, <2>3, <2>4 DEF ChatInv
  <1>9. CASE \E x \in Chat!Ops : /\ queue' = queue \o <<x>> /\ Shaped(x) /\ x.by = "screen"
                                 /\ \/ x.kind = "remove"
                                    \/ x.kind = "enqueue" /\ x.arg[1] = m /\ v = "enqueue"
    <2>1. PICK x \in Chat!Ops : /\ queue' = queue \o <<x>> /\ Shaped(x) /\ x.by = "screen"
                                /\ \/ x.kind = "remove"
                                   \/ x.kind = "enqueue" /\ x.arg[1] = m /\ v = "enqueue"
      BY <1>9
    <2>2. Joined(queue, x, queue')  BY <1>2, <2>1, Joins
    <2>3. ChatTypes'  BY <1>1, <1>3, <2>2 DEF ChatTypes, Joined
    <2>4. Placed(x, screen', flush')  BY <1>3, <2>1 DEF Placed
    <2>5. \A i \in DOMAIN queue : Apart(queue[i], x)  BY <1>4, <2>1 DEF Apart, Queues
    <2>6. QueuePlaced' /\ QueueApart'  BY <1>1, <1>2, <1>4, <2>1, <2>4, <2>5, RequestPlaced
    <2>7. \A n \in called : ~Queues(x, n)  BY <1>1, <2>1 DEF CalledSealed, Queues
    <2>8. CalledSealed'  BY <1>2, <1>7, <2>1, <2>7, RequestSealed
    <2>9. \A o : ~Purges(x, o)  BY <2>1 DEF Purges
    <2>10. NoPurgeWaits'  BY <1>1, <1>2, <2>1, <2>9, NoPurgeRequest
    <2> QED  BY <1>6, <2>3, <2>6, <2>8, <2>10 DEF ChatInv
  <1> QED  BY <1>8, <1>9

LEMMA RemoveIs ==
    ASSUME Chat!ChatOutboxAssumption, NEW m \in Chat!Messages, NEW k \in {"enqueue", "remove"},
           NEW o \in Users,
           NEW x, x = Chat!Op(k, "screen", o, <<m, 0>>)
    PROVE  x \in Chat!Ops /\ Shaped(x) /\ x.by = "screen" /\ x.kind = k /\ x.arg[1] = m
  <1>1. <<m, 0>> \in Chat!Entries  BY DEF Chat!Entries, Chat!ChatOutboxAssumption
  <1> QED  BY <1>1 DEF Chat!Op, Chat!Ops, Shaped

LEMMA SubmitKeeps ==
    ASSUME Chat!ChatOutboxAssumption, ChatInv, NEW m \in Chat!Messages, Chat!Submit(m)
    PROVE  ChatInv'
  <1>1. /\ screen[m] = "new" /\ auth = Chat!OwnerOf(m) /\ screen' = [screen EXCEPT ![m] = "enqueue"]
        /\ queue' = queue \o <<Chat!Op("enqueue", "screen", auth, <<m, 0>>)>>
        /\ UNCHANGED <<disk, expired, flush, auth, kept, called>>
    BY DEF Chat!Submit, Chat!Request, Chat!history
  <1>2. PICK x : x = Chat!Op("enqueue", "screen", auth, <<m, 0>>)  OBVIOUS
  <1>3. x \in Chat!Ops /\ Shaped(x) /\ x.by = "screen" /\ x.kind = "enqueue" /\ x.arg[1] = m
    <2>1. auth \in Users  BY <1>1, OwnersOfMessages
    <2> QED  BY <1>2, <2>1, RemoveIs
  <1>4. PICK v : v = "enqueue"  OBVIOUS
  <1>5. v \in Chat!ScreenLabels /\ v # "new"  BY <1>4 DEF Chat!ScreenLabels
  <1>6. queue' = queue \o <<x>>  BY <1>1, <1>2
  <1> QED  BY <1>1, <1>3, <1>4, <1>5, <1>6, ScreenKeeps

LEMMA ScreenAnswerKeeps ==
    ASSUME Chat!ChatOutboxAssumption, ChatInv, NEW m \in Chat!Messages, Chat!ScreenAnswer(m)
    PROVE  ChatInv'
  <1>1. /\ screen[m] = "send"
        /\ \/ /\ screen' = [screen EXCEPT ![m] = "done"]
              /\ queue' = queue \o <<Chat!Op("remove", "screen", Chat!OwnerOf(m), <<m, 0>>)>>
           \/ screen' = [screen EXCEPT ![m] = "failed"] /\ queue' = queue
        /\ UNCHANGED <<disk, expired, flush, auth, kept, called>>
    BY DEF Chat!ScreenAnswer, Chat!Request, Chat!history
  <1>2. PICK x : x = Chat!Op("remove", "screen", Chat!OwnerOf(m), <<m, 0>>)  OBVIOUS
  <1>3. x \in Chat!Ops /\ Shaped(x) /\ x.by = "screen" /\ x.kind = "remove"
    BY <1>2, OwnersOfMessages, RemoveIs
  <1>4. PICK v \in {"done", "failed"} : /\ screen' = [screen EXCEPT ![m] = v]
                                        /\ queue' = queue \/ queue' = queue \o <<x>>
    BY <1>1, <1>2
  <1>5. v \in Chat!ScreenLabels /\ v # "new" /\ v # "enqueue" /\ screen[m] # "enqueue"
    BY <1>1, <1>4 DEF Chat!ScreenLabels
  <1> QED  BY <1>1, <1>3, <1>4, <1>5, ScreenKeeps

LEMMA ResendKeeps ==
    ASSUME Chat!ChatOutboxAssumption, ChatInv, NEW m \in Chat!Messages, Chat!Resend(m)
    PROVE  ChatInv'
  <1>1. /\ screen[m] = "failed" /\ screen' = [screen EXCEPT ![m] = "send"] /\ queue' = queue
        /\ UNCHANGED <<disk, expired, flush, auth, kept, called>>
    BY DEF Chat!Resend, Chat!history
  <1>2. PICK v : v = "send"  OBVIOUS
  <1>3. v \in Chat!ScreenLabels /\ v # "new" /\ v # "enqueue" /\ screen[m] # "enqueue"
    BY <1>1, <1>2 DEF Chat!ScreenLabels
  <1> QED  BY <1>1, <1>2, <1>3, ScreenKeeps

LEMMA CancelKeeps ==
    ASSUME Chat!ChatOutboxAssumption, ChatInv, NEW m \in Chat!Messages, Chat!Cancel(m)
    PROVE  ChatInv'
  <1>1. /\ screen[m] = "failed" /\ auth = Chat!OwnerOf(m) /\ screen' = [screen EXCEPT ![m] = "done"]
        /\ queue' = queue \o <<Chat!Op("remove", "screen", auth, <<m, 0>>)>>
        /\ UNCHANGED <<disk, expired, flush, auth, kept, called>>
    BY DEF Chat!Cancel, Chat!Request, Chat!history
  <1>2. PICK x : x = Chat!Op("remove", "screen", auth, <<m, 0>>)  OBVIOUS
  <1>3. x \in Chat!Ops /\ Shaped(x) /\ x.by = "screen" /\ x.kind = "remove"
    <2>1. auth \in Users  BY <1>1, OwnersOfMessages
    <2> QED  BY <1>2, <2>1, RemoveIs
  <1>4. PICK v : v = "done"  OBVIOUS
  <1>5. v \in Chat!ScreenLabels /\ v # "new" /\ v # "enqueue" /\ screen[m] # "enqueue"
    BY <1>1, <1>4 DEF Chat!ScreenLabels
  <1>6. queue' = queue \o <<x>>  BY <1>1, <1>2
  <1> QED  BY <1>1, <1>3, <1>4, <1>5, <1>6, ScreenKeeps

\* A session begins, with no purge waiting.
LEMMA RelistKeeps ==
    ASSUME Chat!ChatOutboxAssumption, ChatInv, NEW o \in Users, auth' = o, screen' = Chat!Relist(o),
           \A j \in DOMAIN queue : \A p : ~Purges(queue[j], p),
           UNCHANGED <<disk, queue, expired, flush, kept, called>>
    PROVE  ChatInv'
  <1>1. /\ ChatTypes /\ QueuePlaced /\ QueueApart /\ FlushHolds /\ KeptStored /\ CalledSealed
    BY DEF ChatInv
  <1>2. screen \in [Chat!Messages -> Chat!ScreenLabels]  BY <1>1 DEF ChatTypes
  <1>3. screen' \in [Chat!Messages -> Chat!ScreenLabels]
        /\ \A n \in Chat!Messages : screen'[n] = screen[n] \/ (screen[n] = "failed" /\ screen'[n] = "done")
    BY <1>2 DEF Chat!Relist, Chat!ScreenLabels
  <1>4. ChatTypes' /\ FlushHolds' /\ NoPurgeWaits'
    BY <1>1, <1>3 DEF ChatTypes, FlushHolds, NoPurgeWaits
  <1>5. \A i \in DOMAIN queue : Placed(queue[i], screen', flush')
    <2> SUFFICES ASSUME NEW i \in DOMAIN queue  PROVE Placed(queue[i], screen', flush')
      OBVIOUS
    <2> DEFINE y == queue[i]
    <2>1. Placed(y, screen, flush)  BY <1>1 DEF QueuePlaced
    <2> HIDE DEF y
    <2>2. y.kind = "enqueue" => y.arg[1] \in Chat!Messages /\ screen[y.arg[1]] = "enqueue"
      BY <2>1 DEF Placed, Shaped, Chat!Entries
    <2>3. Placed(y, screen', flush')  BY <1>3, <2>1, <2>2, StaysPlaced
    <2> QED  BY <2>3 DEF y
  <1>6. QueuePlaced' /\ QueueApart'  BY <1>1, <1>5 DEF QueuePlaced, QueueApart
  <1>7. KeptStored'
    <2>1. \A n \in expired : screen'[n] \notin {"new", "enqueue"}
      BY <1>1, <1>3 DEF ChatTypes, KeptStored
    <2> QED  BY <1>1, <2>1, KeptSame
  <1>8. CalledSealed'
    <2>1. \A n \in called : n \in Chat!Messages /\ screen'[n] # "new"
      BY <1>1, <1>3 DEF CalledSealed, ChatTypes
    <2>2. \A n \in called : SealedQueue(n)' /\ SealedFlush(n)'
      BY <1>1, QueueSame, SealedSame DEF CalledSealed
    <2> QED  BY <2>1, <2>2 DEF CalledSealed
  <1> QED  BY <1>4, <1>6, <1>7, <1>8 DEF ChatInv

LEMMA SignInKeeps ==
    ASSUME Chat!ChatOutboxAssumption, ChatInv, NEW o \in Users, Chat!SignIn(o)
    PROVE  ChatInv'
  <1>1. queue = <<>> /\ auth' = o /\ screen' = Chat!Relist(o)
        /\ UNCHANGED <<disk, queue, expired, flush, kept, called>>
    BY DEF Chat!SignIn, Chat!history
  <1>2. \A j \in DOMAIN queue : \A p : ~Purges(queue[j], p)  BY <1>1
  <1> QED  BY <1>1, <1>2, RelistKeeps

LEMMA SwitchKeeps ==
    ASSUME Chat!ChatOutboxAssumption, ChatInv, NEW o \in Users, Chat!Switch(o)
    PROVE  ChatInv'
  <1>1. auth # "none" /\ auth' = o /\ screen' = Chat!Relist(o)
        /\ UNCHANGED <<disk, queue, expired, flush, kept, called>>
    BY DEF Chat!Switch, Chat!history
  <1>2. \A j \in DOMAIN queue : \A p : ~Purges(queue[j], p)  BY <1>1 DEF ChatInv, NoPurgeWaits
  <1> QED  BY <1>1, <1>2, RelistKeeps

LEMMA SignOutIs ==
    ASSUME ChatTypes, Chat!SignOut
    PROVE  /\ auth \in Users
           /\ \E c \in BOOLEAN : /\ c <=> flush[auth].at # "idle"
                                 /\ FlushTo(auth, flush[auth].at, flush[auth].left, c)
  <1>1. auth \in Users /\ flush \in [Users -> FlushRecords]  BY DEF Chat!SignOut, ChatTypes
  <1> DEFINE c == flush[auth].at # "idle"
  <1>2. c \in BOOLEAN /\ flush' = [flush EXCEPT ![auth].cancelled = c]  BY DEF Chat!SignOut
  <1>3. c <=> flush[auth].at # "idle"  OBVIOUS
  <1> HIDE DEF c
  <1>4. flush[auth] \in FlushRecords  BY <1>1
  <1>5. FlushTo(auth, flush[auth].at, flush[auth].left, c)
    BY <1>1, <1>2, <1>4 DEF FlushTo, FlushRecords
  <1> QED  BY <1>1, <1>2, <1>3, <1>5

LEMMA SignOutKeeps ==
    ASSUME Chat!ChatOutboxAssumption, ChatInv, Chat!SignOut
    PROVE  ChatInv'
  <1>1. /\ ChatTypes /\ QueuePlaced /\ QueueApart /\ FlushHolds /\ KeptStored /\ CalledSealed
        /\ NoPurgeWaits
    BY DEF ChatInv
  <1>2. /\ auth' = "none" /\ queue' = queue \o <<Chat!Op("purge", "screen", auth, <<>>)>>
        /\ called' = called \cup {m \in Chat!Messages : Chat!OwnerOf(m) = auth /\ screen[m] # "new"}
        /\ disk' = disk /\ expired' = expired /\ screen' = screen /\ kept' = kept
    BY DEF Chat!SignOut, Chat!Request
  <1>3. auth \in Users /\ queue \in Seq(Chat!Ops)  BY <1>1, SignOutIs DEF ChatTypes
  <1>4. PICK c \in BOOLEAN : /\ c <=> flush[auth].at # "idle"
                             /\ FlushTo(auth, flush[auth].at, flush[auth].left, c)
    BY <1>1, SignOutIs
  <1>5. PICK x : x = Chat!Op("purge", "screen", auth, <<>>)  OBVIOUS
  <1>6. x \in Chat!Ops /\ Shaped(x) /\ x.by = "screen" /\ x.kind = "purge" /\ x.owner = auth
    BY <1>3, <1>5 DEF Chat!Op, Chat!Ops, Shaped
  <1>7. queue' = queue \o <<x>>  BY <1>2, <1>5
  <1>8. Joined(queue, x, queue')  BY <1>3, <1>6, <1>7, Joins
  <1>9. PICK o, a, l : o = auth /\ a = flush[o].at /\ l = flush[o].left /\ FlushTo(o, a, l, c)
    BY <1>4
  <1>10. ChatTypes'  BY <1>1, <1>2, <1>8, <1>9 DEF ChatTypes, FlushTo, Joined
  <1>11. \A i \in DOMAIN queue : Placed(queue[i], screen', flush')
    <2>1. \A i \in DOMAIN queue : Placed(queue[i], screen, flush)  BY <1>1 DEF QueuePlaced
    <2> QED  BY <1>2, <1>3, <1>9, <2>1, FlushToPlaced
  <1>12. Placed(x, screen', flush')  BY <1>3, <1>6 DEF Placed
  <1>13. \A i \in DOMAIN queue : Apart(queue[i], x)  BY <1>6 DEF Apart, Queues
  <1>14. QueuePlaced' /\ QueueApart'
    BY <1>1, <1>3, <1>6, <1>7, <1>11, <1>12, <1>13, RequestPlaced
  <1>15. FlushHolds'
    <2>1. MayGo(l, o) /\ (a \in {"send", "remove", "mark"} => l # <<>>)
      BY <1>1, <1>3, <1>9 DEF FlushHolds
    <2> QED  BY <1>1, <1>3, <1>9, <2>1, FlushToHolds
  <1>16. KeptStored'  BY <1>1, <1>2, KeptSame DEF KeptStored
  <1>17. ASSUME NEW m \in called'  PROVE screen[m] # "new" /\ SealedQueue(m)' /\ SealedFlush(m)'
    <2>1. m \in Chat!Messages /\ screen[m] # "new"
          /\ \/ m \in called /\ SealedQueue(m) /\ SealedFlush(m)
             \/ Chat!OwnerOf(m) = auth
      BY <1>1, <1>2 DEF ChatTypes, CalledSealed
    <2>2. ~Queues(x, m)  BY <1>6 DEF Queues
    <2>3. (SealedQueue(m) => SealedQueue(m)') /\ (Absent(m) => Absent(m)')
      BY <1>2, <1>3, <1>6, <1>7, <2>2, RequestSealed
    <2>4. CASE Chat!OwnerOf(m) = auth
      <3> DEFINE n == Len(queue) + 1
      <3>1. n \in DOMAIN queue' /\ Purges(queue'[n], Chat!OwnerOf(m))
        BY <1>6, <1>8, <2>4 DEF Joined, Purges
      <3>2. \A i \in DOMAIN queue' : Queues(queue'[i], m) => n > i
        BY <1>8, <2>2 DEF Joined
      <3> HIDE DEF n
      <3>3. SealedQueue(m)'  BY <3>1, <3>2 DEF SealedQueue
      <3>4. flush'[Chat!OwnerOf(m)].at = a /\ flush'[Chat!OwnerOf(m)].cancelled = c /\ (c <=> a # "idle")
        BY <1>4, <1>9, <2>4 DEF FlushTo
      <3>5. SealedFlush(m)'  BY <3>4 DEF SealedFlush
      <3> QED  BY <2>1, <3>3, <3>5
    <2>5. CASE Chat!OwnerOf(m) # auth
      <3>1. SealedFlush(m)'  BY <1>3, <1>9, <2>1, <2>3, <2>5, FlushToSealed
      <3> QED  BY <2>1, <2>3, <2>5, <3>1
    <2> QED  BY <2>4, <2>5
  <1>18. CalledSealed'  BY <1>2, <1>17 DEF CalledSealed
  <1>19. NoPurgeWaits'  BY <1>2 DEF NoPurgeWaits
  <1> QED  BY <1>10, <1>14, <1>15, <1>16, <1>18, <1>19 DEF ChatInv

-----------------------------------------------------------------------------
(* The clock and the death of the process *)

LEMMA ExpiresKeeps ==
    ASSUME Chat!ChatOutboxAssumption, ChatInv, NEW m \in Chat!Messages, Chat!Expires(m)
    PROVE  ChatInv'
  <1>1. /\ ChatTypes /\ QueuePlaced /\ QueueApart /\ FlushHolds /\ KeptStored /\ CalledSealed
        /\ NoPurgeWaits
    BY DEF ChatInv
  <1>2. /\ screen[m] \notin {"new", "enqueue"} /\ expired' = expired \cup {m} /\ kept' = kept \ {m}
        /\ UNCHANGED <<disk, queue, flush, screen, auth, called>>
    BY DEF Chat!Expires
  <1>3. ChatTypes' /\ QueuePlaced' /\ QueueApart' /\ FlushHolds' /\ NoPurgeWaits'
    BY <1>1, <1>2 DEF ChatTypes, QueuePlaced, QueueApart, FlushHolds, NoPurgeWaits
  <1>4. KeptStored'
    <2>1. \A n \in kept' : n \in Stored(disk') /\ n \notin expired'  BY <1>1, <1>2 DEF KeptStored
    <2>2. \A n \in expired' : screen'[n] \notin {"new", "enqueue"}  BY <1>1, <1>2 DEF KeptStored
    <2> QED  BY <2>1, <2>2 DEF KeptStored, Stored
  <1>5. CalledSealed'
    <2>1. \A n \in called : SealedQueue(n)' /\ SealedFlush(n)'
      BY <1>1, <1>2, QueueSame, SealedSame DEF CalledSealed
    <2> QED  BY <1>1, <1>2, <2>1 DEF CalledSealed
  <1> QED  BY <1>3, <1>4, <1>5 DEF ChatInv

\* What a death leaves of the keychain and of what was kept.
LEMMA CrashIs ==
    ASSUME Chat!ChatOutboxAssumption, ChatInv, Chat!Crash
    PROVE  /\ disk' \in Disks
           /\ \A m : HeldIn(disk', m) =>
                 \/ HeldIn(disk, m)
                 \/ 1 \in DOMAIN queue /\ Queues(queue[1], m)
           /\ \A m \in kept' : m \in kept /\ m \in Stored(disk')
  <1>1. /\ disk \in Disks /\ queue \in Seq(Chat!Ops) /\ QueuePlaced /\ KeptStored
    BY DEF ChatInv, ChatTypes
  <1>2. \A m \in kept : m \in Chat!Ids(Chat!Readable(disk))  BY <1>1, StoredIs DEF KeptStored
  <1>3. CASE disk' = disk /\ kept' = kept  BY <1>1, <1>3 DEF KeptStored
  <1>4. CASE ~(disk' = disk /\ kept' = kept)
    <2> DEFINE op == Head(queue)
               calls == Chat!Calls(op)
    <2>1. /\ queue # <<>>
          /\ \E n \in DOMAIN calls :
                \/ disk' = Chat!After(disk, SubSeq(calls, 1, n))
                \/ /\ calls[n][2] # <<>>
                   /\ disk' = [Chat!After(disk, SubSeq(calls, 1, n - 1)) EXCEPT ![calls[n][1]] = Chat!Torn]
          /\ kept' = kept \ (Chat!GivenUp(op) \cup
                       {m \in kept : /\ op.kind = "enqueue"
                                     /\ m \notin Chat!Ids(Chat!FitStorageLimit(Chat!Change(op, Chat!Readable(disk))))})
      BY <1>4 DEF Chat!Crash
    <2>2. Left(queue, Tail(queue))  BY <1>1, <2>1, Leaves
    <2>3. 1 \in DOMAIN queue /\ op = queue[1]  BY <2>2 DEF Left
    <2>4. Dies(disk, calls, disk')  BY <2>1 DEF Dies, Upto
    <2>5. Shaped(op)  BY <1>1, <2>3 DEF QueuePlaced, Placed
    <2> HIDE DEF op
    <2>6. Dies(disk, Chat!Calls(op), disk')  BY <2>4
    <2>7. /\ disk' \in Disks
          /\ \A m : HeldIn(disk', m) => HeldIn(disk, m) \/ Queues(op, m)
          /\ \A m \in Chat!Ids(Chat!Readable(disk)) :
                /\ m \notin Chat!GivenUp(op)
                /\ op.kind = "enqueue" => m \in Chat!Ids(Chat!FitStorageLimit(Chat!Change(op, Chat!Readable(disk))))
                => m \in Chat!Ids(Chat!Readable(disk'))
      BY <1>1, <2>5, <2>6, Crashes
    <2>8. ASSUME NEW m \in kept'  PROVE m \in kept /\ m \in Stored(disk')
      <3>1. /\ m \in kept /\ m \notin Chat!GivenUp(op)
            /\ op.kind = "enqueue" => m \in Chat!Ids(Chat!FitStorageLimit(Chat!Change(op, Chat!Readable(disk))))
        BY <2>1, <2>8
      <3>2. m \in Chat!Ids(Chat!Readable(disk'))  BY <1>2, <2>7, <3>1
      <3> QED  BY <2>7, <3>1, <3>2, StoredIs
    <2> QED  BY <2>3, <2>7, <2>8
  <1> QED  BY <1>3, <1>4

LEMMA CrashKeeps ==
    ASSUME Chat!ChatOutboxAssumption, ChatInv, Chat!Crash
    PROVE  ChatInv'
  <1>1. /\ ChatTypes /\ QueuePlaced /\ QueueApart /\ FlushHolds /\ KeptStored /\ CalledSealed
        /\ NoPurgeWaits
    BY DEF ChatInv
  <1>2. /\ disk' \in Disks
        /\ \A m : HeldIn(disk', m) => HeldIn(disk, m) \/ (1 \in DOMAIN queue /\ Queues(queue[1], m))
        /\ \A m \in kept' : m \in kept /\ m \in Stored(disk')
    BY CrashIs
  <1>3. /\ queue' = Chat!Boot /\ flush' = [o \in Users |-> Chat!NoFlush]
        /\ expired' = expired /\ auth' = auth /\ called' = called
        /\ screen' = [m \in Chat!Messages |-> IF screen[m] = "new" THEN "new"
                                              ELSE IF m \in Chat!Ids(Chat!Readable(disk')) THEN "failed" ELSE "done"]
    BY DEF Chat!Crash
  <1>4. /\ screen' \in [Chat!Messages -> Chat!ScreenLabels]
        /\ \A m \in Chat!Messages : screen'[m] # "enqueue" /\ (screen'[m] = "new" <=> screen[m] = "new")
    BY <1>3 DEF Chat!ScreenLabels
  <1>5. flush' \in [Users -> FlushRecords]
        /\ \A o \in Users : flush'[o].at = "idle" /\ flush'[o].left = <<>>
    BY <1>3, NoFlushIs
  <1>6. PICK x : x = Chat!Op("purgeAll", "screen", "none", <<>>)  OBVIOUS
  <1>7. x \in Chat!Ops /\ x.kind = "purgeAll" /\ x.by = "screen"  BY <1>6 DEF Chat!Op, Chat!Ops
  <1>8. queue' = IF auth = "none" THEN <<x>> ELSE <<>>  BY <1>3, <1>6 DEF Chat!Boot
  <1>9. /\ queue' \in Seq(Chat!Ops)
        /\ \A i \in DOMAIN queue' : i = 1 /\ queue'[i] = x /\ auth = "none"
        /\ auth = "none" => 1 \in DOMAIN queue' /\ queue'[1] = x
    <2>1. CASE auth = "none"
      <3>1. queue' = <<x>>  BY <1>8, <2>1
      <3> QED  BY <1>7, <2>1, <3>1
    <2>2. CASE auth # "none"
      <3>1. queue' = <<>>  BY <1>8, <2>2
      <3> QED  BY <2>2, <3>1
    <2> QED  BY <2>1, <2>2
  <1>10. ChatTypes'  BY <1>1, <1>2, <1>3, <1>4, <1>5, <1>9 DEF ChatTypes
  <1>11. QueuePlaced' /\ QueueApart'
    <2>1. Placed(x, screen', flush')  BY <1>7 DEF Placed, Shaped
    <2> QED  BY <1>9, <2>1 DEF QueuePlaced, QueueApart
  <1>12. FlushHolds'  BY <1>5 DEF FlushHolds, MayGo
  <1>13. KeptStored'
    <2>1. \A m \in kept' : m \in Stored(disk') /\ m \notin expired'  BY <1>1, <1>2, <1>3 DEF KeptStored
    <2>2. \A m \in expired' : screen'[m] \notin {"new", "enqueue"}
      BY <1>1, <1>3, <1>4 DEF ChatTypes, KeptStored
    <2> QED  BY <2>1, <2>2 DEF KeptStored, Stored
  <1>14. ASSUME NEW m \in called  PROVE screen'[m] # "new" /\ SealedQueue(m)' /\ SealedFlush(m)'
    <2>1. m \in Chat!Messages /\ screen[m] # "new" /\ SealedQueue(m)
      BY <1>1 DEF ChatTypes, CalledSealed
    <2>2. screen'[m] # "new"  BY <1>4, <2>1
    <2>3. \A i \in DOMAIN queue' : ~Queues(queue'[i], m)  BY <1>7, <1>9 DEF Queues
    <2>4. HeldIn(disk', m) => \E j \in DOMAIN queue' : Purges(queue'[j], Chat!OwnerOf(m))
      <3>1. CASE auth = "none"  BY <1>7, <1>9, <3>1 DEF Purges
      <3>2. CASE auth # "none"
        <4>1. ~HeldIn(disk, m) /\ \A i \in DOMAIN queue : ~Queues(queue[i], m)
          BY <1>1, <2>1, <3>2 DEF NoPurgeWaits, SealedQueue
        <4> QED  BY <1>2, <4>1
      <3> QED  BY <3>1, <3>2
    <2>5. SealedQueue(m)'  BY <2>3, <2>4 DEF SealedQueue, HeldIn
    <2>6. SealedFlush(m)'
      <3>1. Chat!OwnerOf(m) \in Users  BY <2>1, OwnersOfMessages
      <3>2. flush'[Chat!OwnerOf(m)].at = "idle"  BY <1>5, <3>1
      <3> QED  BY <3>2 DEF SealedFlush
    <2> QED  BY <2>2, <2>5, <2>6
  <1>15. CalledSealed'  BY <1>3, <1>14 DEF CalledSealed
  <1>16. NoPurgeWaits'  BY <1>3, <1>9 DEF NoPurgeWaits
  <1> QED  BY <1>10, <1>11, <1>12, <1>13, <1>15, <1>16 DEF ChatInv

-----------------------------------------------------------------------------
(* The theorems *)

LEMMA ChatStarts ==
    ASSUME Chat!ChatOutboxAssumption, Chat!Init
    PROVE  ChatInv
  <1>1. /\ disk = [main |-> <<>>, backup |-> <<>>] /\ queue = <<>> /\ expired = {}
        /\ flush = [o \in Users |-> Chat!NoFlush] /\ screen = [m \in Chat!Messages |-> "new"]
        /\ auth = "none" /\ kept = {} /\ called = {}
    BY DEF Chat!Init
  <1>2. disk \in Disks  BY <1>1, ListsAre DEF Disks, Keys
  <1>3. flush \in [Users -> FlushRecords]
        /\ \A o \in Users : flush[o].at = "idle" /\ flush[o].left = <<>>
    BY <1>1, NoFlushIs
  <1>4. queue \in Seq(Chat!Ops) /\ DOMAIN queue = {}  BY <1>1
  <1>5. ChatTypes  BY <1>1, <1>2, <1>3, <1>4 DEF ChatTypes, Chat!ScreenLabels
  <1>6. QueuePlaced /\ QueueApart /\ NoPurgeWaits  BY <1>4 DEF QueuePlaced, QueueApart, NoPurgeWaits
  <1>7. FlushHolds
    <2>1. \A o \in Users : MayGo(<<>>, o)  BY DEF MayGo
    <2> HIDE DEF MayGo
    <2> QED  BY <1>3, <2>1 DEF FlushHolds
  <1>8. KeptStored /\ CalledSealed  BY <1>1 DEF KeptStored, CalledSealed
  <1> QED  BY <1>5, <1>6, <1>7, <1>8 DEF ChatInv

LEMMA ChatKeeps ==
    ASSUME Chat!ChatOutboxAssumption, ChatInv, [Chat!Next]_Chat!vars
    PROVE  ChatInv'
  <1>1. CASE Chat!Perform  BY <1>1, PerformKeeps
  <1>2. CASE Chat!SignOut  BY <1>2, SignOutKeeps
  <1>3. CASE Chat!Crash  BY <1>3, CrashKeeps
  <1>4. ASSUME NEW o \in Users, \/ Chat!FlushStart(o) \/ Chat!FlushLoop(o) \/ Chat!FlushAnswer(o)
                                \/ Chat!SignIn(o) \/ Chat!Switch(o)
        PROVE  ChatInv'
    BY <1>4, FlushStartKeeps, FlushLoopKeeps, FlushAnswerKeeps, SignInKeeps, SwitchKeeps
  <1>5. ASSUME NEW m \in Chat!Messages,
               \/ Chat!Submit(m) \/ Chat!ScreenAnswer(m) \/ Chat!Resend(m) \/ Chat!Cancel(m)
                                        \/ Chat!Expires(m)
        PROVE  ChatInv'
    BY <1>5, SubmitKeeps, ScreenAnswerKeeps, ResendKeeps, CancelKeeps, ExpiresKeeps
  <1>6. CASE UNCHANGED <<disk, queue, expired, flush, screen, auth, kept, called>>
    BY <1>6, SameKeeps
  <1>7. ASSUME NEW o \in Users, Chat!Leave(o) \/ Chat!Join(o)
        PROVE  UNCHANGED <<disk, queue, expired, flush, screen, auth, kept, called>>
    BY <1>7 DEF Chat!Leave, Chat!Join, Chat!client, Chat!history
  <1>8. ASSUME NEW x \in Chat!Entries, Chat!BackoffElapses(x)
        PROVE  UNCHANGED <<disk, queue, expired, flush, screen, auth, kept, called>>
    BY <1>8 DEF Chat!BackoffElapses, Chat!history
  <1>9. ASSUME NEW u \in Users, NEW m \in Chat!Messages, Chat!Serve(u, m)
        PROVE  UNCHANGED <<disk, queue, expired, flush, screen, auth, kept, called>>
    BY <1>9 DEF Chat!Serve, Chat!client, Chat!history
  <1>10. CASE UNCHANGED Chat!vars  BY <1>6, <1>10 DEF Chat!vars, Chat!client, Chat!history
  <1> QED  BY <1>1, <1>2, <1>3, <1>4, <1>5, <1>6, <1>7, <1>8, <1>9, <1>10 DEF Chat!Next

LEMMA ChatKept ==
    ASSUME Chat!ChatOutboxAssumption, ChatInv
    PROVE  Chat!KeptIsReadable
  <1>1. disk \in Disks /\ KeptStored  BY DEF ChatInv, ChatTypes
  <1>2. Chat!Ids(Chat!Readable(disk)) = Stored(disk) \ expired  BY <1>1, StoredIs
  <1> QED  BY <1>1, <1>2 DEF KeptStored, Chat!KeptIsReadable

\* A replay is of a message that no logout followed.
LEMMA ChatReplays ==
    ASSUME Chat!ChatOutboxAssumption, ChatInv, [Chat!Next]_Chat!vars, NEW o \in Users,
           NEW m \in Chat!Messages,
           Chat!FlushCalls(o, m)
    PROVE  m \notin called
  <1>1. ChatTypes /\ QueuePlaced /\ FlushHolds /\ CalledSealed  BY DEF ChatInv
  <1>2. flush[o].at = "loop" /\ flush'[o].at = "send" /\ Head(flush[o].left)[1] = m
    BY DEF Chat!FlushCalls
  <1>3. CASE Chat!FlushLoop(o)
    <2>1. flush[o].left # <<>> /\ ~flush[o].cancelled
      <3>1. ~FlushTo(o, "idle", <<>>, FALSE)  BY <1>2 DEF FlushTo
      <3> QED  BY <1>1, <1>3, <3>1, FlushLoopIs
    <2>2. flush[o].left \in Chat!Lists  BY <1>1 DEF ChatTypes, FlushRecords
    <2>3. 1 \in DOMAIN flush[o].left /\ m \in Chat!Ids(flush[o].left) /\ flush[o].left[1][1] = m
      BY <1>2, <2>1, <2>2, HeadsAre
    <2>4. Chat!OwnerOf(m) = o  BY <1>1, <2>3 DEF FlushHolds, MayGo
    <2> QED  BY <1>1, <1>2, <2>1, <2>3, <2>4 DEF CalledSealed, SealedFlush
  <1>4. flush'[o] # flush[o]  BY <1>2
  <1>5. ASSUME NEW p \in Users, NEW a, NEW l, NEW c, FlushTo(p, a, l, c), a # "send" \/ p # o
        PROVE  FALSE
    BY <1>2, <1>5 DEF FlushTo
  <1>6. ASSUME Chat!Perform  PROVE FALSE
    <2>1. queue # <<>> /\ queue \in Seq(Chat!Ops) /\ Chat!Resolve(Head(queue))
      BY <1>1, <1>6 DEF Chat!Perform, ChatTypes
    <2>2. Left(queue, Tail(queue))  BY <2>1, Leaves
    <2> DEFINE op == Head(queue)
    <2>3. Placed(op, screen, flush)  BY <1>1, <2>2 DEF QueuePlaced, Left
    <2>4. Chat!Resolve(op)  BY <2>1
    <2> HIDE DEF op
    <2>5. \/ flush' = flush
          \/ op.owner \in Users /\ \E l, c : \/ FlushTo(op.owner, "loop", l, c)
                                             \/ FlushTo(op.owner, "idle", l, c)
      BY <1>1, <2>3, <2>4, ResolveFlush
    <2> QED  BY <1>4, <1>5, <2>5
  <1>7. ASSUME Chat!SignOut  PROVE FALSE
    <2>1. PICK p, a, l, c : p \in Users /\ p = auth /\ a = flush[p].at /\ FlushTo(p, a, l, c)
      BY <1>1, <1>7, SignOutIs
    <2>2. a # "send" \/ p # o  BY <1>2, <2>1
    <2> QED  BY <1>5, <2>1, <2>2
  <1>8. ASSUME Chat!Crash  PROVE FALSE
    <2>1. flush' = [p \in Users |-> Chat!NoFlush]  BY <1>8 DEF Chat!Crash
    <2> QED  BY <1>2, <2>1, NoFlushIs
  <1>9. ASSUME NEW p \in Users, Chat!FlushStart(p)  PROVE FALSE
    <2>1. FlushTo(p, "list", <<>>, FALSE)  BY <1>1, <1>9, FlushStartIs
    <2> QED  BY <1>5, <2>1
  <1>10. ASSUME NEW p \in Users, Chat!FlushAnswer(p)  PROVE FALSE
    <2>1. PICK a \in {"remove", "mark"} : FlushTo(p, a, flush[p].left, flush[p].cancelled)
      BY <1>1, <1>10, FlushAnswerIs
    <2>2. a # "send"  BY <2>1
    <2> QED  BY <1>5, <2>1, <2>2
  <1>11. ASSUME NEW p \in Users, Chat!FlushLoop(p), p # o  PROVE FALSE
    <2>1. \E a, l, c : FlushTo(p, a, l, c)  BY <1>1, <1>11, FlushLoopIs
    <2> QED  BY <1>5, <1>11, <2>1
  <1>12. ASSUME flush' = flush  PROVE FALSE  BY <1>4, <1>12
  <1>13. ASSUME NEW p \in Users, Chat!SignIn(p) \/ Chat!Switch(p) \/ Chat!Leave(p) \/ Chat!Join(p)
        PROVE flush' = flush
    BY <1>13 DEF Chat!SignIn, Chat!Switch, Chat!Leave, Chat!Join, Chat!client
  <1>14. ASSUME NEW n \in Chat!Messages,
                Chat!Submit(n) \/ Chat!ScreenAnswer(n) \/ Chat!Resend(n) \/ Chat!Cancel(n) \/ Chat!Expires(n)
         PROVE  flush' = flush
    BY <1>14 DEF Chat!Submit, Chat!ScreenAnswer, Chat!Resend, Chat!Cancel, Chat!Expires
  <1>15. ASSUME NEW x \in Chat!Entries, Chat!BackoffElapses(x)  PROVE flush' = flush
    BY <1>15 DEF Chat!BackoffElapses
  <1>16. ASSUME NEW u \in Users, NEW n \in Chat!Messages, Chat!Serve(u, n)  PROVE flush' = flush
    BY <1>16 DEF Chat!Serve, Chat!client
  <1>17. CASE UNCHANGED Chat!vars  BY <1>12, <1>17 DEF Chat!vars, Chat!client
  <1> QED  BY <1>3, <1>6, <1>7, <1>8, <1>9, <1>10, <1>11, <1>12, <1>13, <1>14, <1>15, <1>16, <1>17 DEF Chat!Next

-----------------------------------------------------------------------------
(* The types that no other part of the invariant needs *)

SideTypes ==
    /\ waiting \in SUBSET Chat!Entries
    /\ member \in SUBSET Users
    /\ wire \in SUBSET (Users \X Chat!Messages)
    /\ rows \in SUBSET (Users \X Chat!Messages)

LEMMA SentTypes ==
    ASSUME ChatTypes, SideTypes, NEW m \in Chat!Messages
    PROVE  Chat!Sent(m) \in SUBSET (Users \X Chat!Messages)
  BY DEF ChatTypes, SideTypes, Chat!Sent

LEMMA PerformSides ==
    ASSUME Chat!ChatOutboxAssumption, ChatInv, SideTypes, Chat!Perform
    PROVE  SideTypes'
  <1> DEFINE op == Head(queue)
  <1>1. ChatTypes /\ QueuePlaced  BY DEF ChatInv
  <1>2. queue # <<>> /\ queue \in Seq(Chat!Ops) /\ Chat!Resolve(op) /\ member' = member /\ rows' = rows
    BY <1>1 DEF Chat!Perform, ChatTypes
  <1>3. Left(queue, Tail(queue))  BY <1>2, Leaves
  <1>4. Placed(op, screen, flush)  BY <1>1, <1>3 DEF QueuePlaced, Left
  <1> HIDE DEF op
  <1>5. Shaped(op)  BY <1>4 DEF Placed
  <1>6. wire' \in SUBSET (Users \X Chat!Messages)
    <2>1. CASE op.kind = "enqueue"
      <3>1. op.arg[1] \in Chat!Messages /\ wire' = Chat!Sent(op.arg[1])
        BY <1>2, <1>5, <2>1 DEF Shaped, Chat!Entries, Chat!Resolve
      <3> QED  BY <1>1, <3>1, SentTypes
    <2>2. CASE op.kind # "enqueue"
      <3>1. wire' = wire  BY <1>2, <2>2 DEF Chat!Resolve
      <3> QED  BY <3>1 DEF SideTypes
    <2> QED  BY <2>1, <2>2
  <1>7. waiting' \in SUBSET Chat!Entries
    <2>1. CASE op.kind = "mark"
      <3>1. /\ op.arg \in Chat!Entries /\ op.arg[2] < MaxAttempts
            /\ waiting' = waiting \cup {x \in {<<op.arg[1], op.arg[2] + 1>>} : ~Chat!DeadLetter(x)}
        BY <1>2, <1>5, <2>1 DEF Shaped, Chat!Resolve
      <3>2. op.arg[1] \in Chat!Messages /\ op.arg[2] + 1 \in 0..MaxAttempts
        BY <3>1 DEF Chat!Entries, Chat!ChatOutboxAssumption
      <3>3. <<op.arg[1], op.arg[2] + 1>> \in Chat!Entries  BY <3>2 DEF Chat!Entries
      <3> QED  BY <3>1, <3>3 DEF SideTypes
    <2>2. CASE op.kind # "mark"
      <3>1. waiting' = waiting  BY <1>2, <2>2 DEF Chat!Resolve
      <3> QED  BY <3>1 DEF SideTypes
    <2> QED  BY <2>1, <2>2
  <1> QED  BY <1>2, <1>6, <1>7 DEF SideTypes

LEMMA FlushLoopSides ==
    ASSUME Chat!ChatOutboxAssumption, ChatInv, SideTypes, NEW o \in Users, Chat!FlushLoop(o)
    PROVE  SideTypes'
  <1>1. ChatTypes  BY DEF ChatInv
  <1>2. flush[o].left \in Chat!Lists  BY <1>1 DEF ChatTypes, FlushRecords
  <1>3. waiting' = waiting /\ member' = member /\ rows' = rows  BY DEF Chat!FlushLoop
  <1>4. CASE flush[o].left = <<>> \/ flush[o].cancelled
    <2>1. wire' = wire  BY <1>4 DEF Chat!FlushLoop
    <2> QED  BY <1>3, <2>1 DEF SideTypes
  <1>5. CASE ~(flush[o].left = <<>> \/ flush[o].cancelled)
    <2>1. wire' = Chat!Sent(Head(flush[o].left)[1])  BY <1>5 DEF Chat!FlushLoop
    <2>2. Head(flush[o].left)[1] \in Chat!Messages  BY <1>2, <1>5, HeadsAre DEF Chat!Entries
    <2>3. wire' \in SUBSET (Users \X Chat!Messages)  BY <1>1, <2>1, <2>2, SentTypes
    <2> QED  BY <1>3, <2>3 DEF SideTypes
  <1> QED  BY <1>4, <1>5

LEMMA SidesKeep ==
    ASSUME Chat!ChatOutboxAssumption, ChatInv, SideTypes, [Chat!Next]_Chat!vars
    PROVE  SideTypes'
  <1>1. CASE Chat!Perform  BY <1>1, PerformSides
  <1>2. ASSUME NEW o \in Users, Chat!FlushLoop(o)  PROVE SideTypes'  BY <1>2, FlushLoopSides
  <1>3. ASSUME NEW m \in Chat!Messages, Chat!Resend(m)  PROVE SideTypes'
    <2>1. Chat!Sent(m) \in SUBSET (Users \X Chat!Messages)  BY SentTypes DEF ChatInv
    <2> QED  BY <1>3, <2>1 DEF SideTypes, Chat!Resend
  <1>4. ASSUME NEW x \in Chat!Entries, Chat!BackoffElapses(x)  PROVE SideTypes'
    BY <1>4 DEF SideTypes, Chat!BackoffElapses, Chat!server
  <1>5. ASSUME NEW o \in Users, Chat!Leave(o) \/ Chat!Join(o)  PROVE SideTypes'
    BY <1>5 DEF SideTypes, Chat!Leave, Chat!Join, Chat!client
  <1>6. ASSUME NEW u \in Users, NEW m \in Chat!Messages, Chat!Serve(u, m)  PROVE SideTypes'
    BY <1>6 DEF SideTypes, Chat!Serve, Chat!client
  <1>7. CASE UNCHANGED <<waiting, member, wire, rows>>  BY <1>7 DEF SideTypes
  <1>8. CASE Chat!SignOut \/ Chat!Crash  BY <1>7, <1>8 DEF Chat!SignOut, Chat!Crash, Chat!server
  <1>9. ASSUME NEW o \in Users, Chat!FlushStart(o) \/ Chat!FlushAnswer(o) \/ Chat!SignIn(o) \/ Chat!Switch(o)
        PROVE  SideTypes'
    BY <1>7, <1>9 DEF Chat!FlushStart, Chat!FlushAnswer, Chat!SignIn, Chat!Switch, Chat!server
  <1>10. ASSUME NEW m \in Chat!Messages,
                Chat!Submit(m) \/ Chat!ScreenAnswer(m) \/ Chat!Cancel(m) \/ Chat!Expires(m)
         PROVE  SideTypes'
    BY <1>7, <1>10 DEF Chat!Submit, Chat!ScreenAnswer, Chat!Cancel, Chat!Expires, Chat!server
  <1>11. CASE UNCHANGED Chat!vars  BY <1>7, <1>11 DEF Chat!vars, Chat!client, Chat!server
  <1> QED
    BY <1>1, <1>2, <1>3, <1>4, <1>5, <1>6, <1>8, <1>9, <1>10, <1>11 DEF Chat!Next

LEMMA ChatTyped ==
    ASSUME ChatInv, SideTypes
    PROVE  Chat!TypeOK
  <1>1. ChatTypes /\ FlushHolds  BY DEF ChatInv
  <1>2. DOMAIN disk = {"main", "backup"} /\ \A key \in DOMAIN disk : disk[key] = Chat!Torn
         \/ disk[key] \in Chat!Lists
    BY <1>1 DEF ChatTypes, Disks, Keys
  <1>3. \A i \in DOMAIN queue : queue[i] \in Chat!Ops  BY <1>1 DEF ChatTypes
  <1>4. \A o \in Users : /\ flush[o].at \in Chat!FlushLabels
                         /\ flush[o].left \in Chat!Lists
                         /\ flush[o].at \in {"send", "remove", "mark"} => flush[o].left # <<>>
    BY <1>1 DEF ChatTypes, FlushRecords, FlushHolds
  <1>5. \A m \in Chat!Messages : screen[m] \in Chat!ScreenLabels  BY <1>1 DEF ChatTypes
  <1> QED  BY <1>1, <1>2, <1>3, <1>4, <1>5 DEF Chat!TypeOK, ChatTypes, SideTypes

-----------------------------------------------------------------------------
(* The outbox beside the matching *)

PairSafe == ChatInv /\ SideTypes

LEMMA PairStarts == PairInit => PairSafe
  <1> SUFFICES ASSUME PairInit  PROVE PairSafe
    OBVIOUS
  <1>1. Chat!Init  BY DEF PairInit
  <1>2. ChatInv  BY <1>1, PairConstants, ChatStarts
  <1>3. SideTypes  BY <1>1 DEF Chat!Init, SideTypes
  <1> QED  BY <1>2, <1>3 DEF PairSafe

\* A step of either mode is a step of the outbox or leaves it alone.
LEMMA PairStep ==
    ASSUME [PairNext]_<<mode, vars, chatVars>>
    PROVE  [Chat!Next]_Chat!vars
  <1>1. CASE PairNext
    BY <1>1 DEF PairNext, chatVars, Chat!vars, Chat!client, Chat!server, Chat!history, Chat!bounds
  <1>2. CASE UNCHANGED <<mode, vars, chatVars>>
    BY <1>2 DEF chatVars, Chat!vars, Chat!client, Chat!server, Chat!history, Chat!bounds
  <1> QED  BY <1>1, <1>2

LEMMA PairKeeps == PairSafe /\ [PairNext]_<<mode, vars, chatVars>> => PairSafe'
  <1> SUFFICES ASSUME PairSafe, [PairNext]_<<mode, vars, chatVars>>  PROVE PairSafe'
    OBVIOUS
  <1>1. [Chat!Next]_Chat!vars  BY PairStep
  <1>2. ChatInv /\ SideTypes  BY DEF PairSafe
  <1>3. ChatInv'  BY <1>1, <1>2, PairConstants, ChatKeeps
  <1>4. SideTypes'  BY <1>1, <1>2, PairConstants, SidesKeep
  <1> QED  BY <1>3, <1>4 DEF PairSafe

\* The phone's storage is well-formed, and a message whose enqueue has
\* completed can be read back until it is given up, whenever the process dies
\* and whichever write it tears (chatOutbox.ts, readAllUnlocked and
\* writeAllUnlocked).
THEOREM QueuedIsReadable == PairSpec => []KeptIsReadable
  <1>1. PairInit => PairSafe  BY PairStarts
  <1>2. PairSafe /\ [PairNext]_<<mode, vars, chatVars>> => PairSafe'  BY PairKeeps
  <1>3. PairSafe => KeptIsReadable
    <2> SUFFICES ASSUME PairSafe  PROVE KeptIsReadable
      OBVIOUS
    <2>1. Chat!TypeOK  BY ChatTyped DEF PairSafe
    <2>2. Chat!KeptIsReadable  BY PairConstants, ChatKept DEF PairSafe
    <2> QED  BY <2>1, <2>2 DEF KeptIsReadable
  <1> QED  BY <1>1, <1>2, <1>3, PTL DEF PairSpec

\* A flush never sends a message that was written before its owner signed
\* out: the purge under the lock, the cancelled flushes and the purge at the
\* next start leave no gap (sessionStore.ts, signOut; chatOutbox.ts,
\* flushAllOutbox).
THEOREM LogoutEndsReplay == PairSpec => PurgedNotReplayed
  <1>1. PairInit => PairSafe  BY PairStarts
  <1>2. PairSafe /\ [PairNext]_<<mode, vars, chatVars>> => PairSafe'  BY PairKeeps
  <1>3. PairSafe /\ [PairNext]_<<mode, vars, chatVars>>
        => [\A o \in Users, m \in Chat!Messages : Chat!FlushCalls(o, m) => m \notin called]_Chat!vars
    <2> SUFFICES ASSUME PairSafe, [PairNext]_<<mode, vars, chatVars>>
                 PROVE  \A o \in Users, m \in Chat!Messages : Chat!FlushCalls(o, m) => m \notin called
      OBVIOUS
    <2>1. [Chat!Next]_Chat!vars /\ ChatInv  BY PairStep DEF PairSafe
    <2> QED  BY <2>1, PairConstants, ChatReplays
  <1> QED  BY <1>1, <1>2, <1>3, PTL DEF PairSpec, PurgedNotReplayed, Chat!PurgedNotReplayed
=============================================================================
