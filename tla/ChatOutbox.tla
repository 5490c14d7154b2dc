----------------------------- MODULE ChatOutbox -----------------------------
(***************************************************************************)
(* The chat outbox of one phone.  Messages wait in the keychain, under a   *)
(* main key with a backup key beside it; every operation on them runs      *)
(* under one storage lock, in the order of the calls.  A flush per owner   *)
(* replays them, the chat screen sends a new message itself, and the       *)
(* session may change or the process die between any two awaited calls.    *)
(* The other end is the server's idempotent send, into one room that all   *)
(* owners of the phone may join.                                           *)
(***************************************************************************)
EXTENDS Naturals, Sequences, FiniteSets, FiniteSetsExt

CONSTANTS Owners,       \* accounts used on this phone
          PerOwner,     \* bound: messages each of them writes
          Capacity,     \* entries that fit (40 messages, 48000 characters)
          MaxAttempts,  \* attempts before the dead letter (5)
          MaxCrashes,   \* bound: deaths of the process
          MaxSessions,  \* bound: changes of the session, leaves of the room, expiries
          Rare          \* bound: which of the rarer events happen

\* What the constants are.
ChatOutboxAssumption ==
    /\ {PerOwner, MaxCrashes, MaxSessions} \subseteq Nat
    /\ {Capacity, MaxAttempts} \subseteq Nat \ {0}
    /\ Rare \subseteq {"switch", "leave", "expire"}
    /\ "none" \notin Owners

VARIABLES
    disk,      \* the two keychain items
    queue,     \* storage operations waiting for the lock, in call order
    waiting,   \* entries whose nextAttemptAt is ahead
    expired,   \* messages older than maxAgeMs
    flush,     \* activeFlushes, one flush per owner
    screen,    \* what the chat screen does with each message
    auth,      \* account of the Supabase session
    member,    \* accounts that may write in the room
    wire,      \* requests on their way, as <<account, message>>
    rows,      \* room_messages: <<sender_id, client_message_id>>
    kept,      \* history: queued by a completed enqueue, not yet given up
    called,    \* history: messages written before their owner signed out
    crashes, sessions \* counters of the bounds

client == <<disk, queue, waiting, expired, flush, screen, auth>>
server == <<member, wire, rows>>
history == <<kept, called>>
bounds == <<crashes, sessions>>
vars   == <<client, server, history, bounds>>

-----------------------------------------------------------------------------
Messages == Owners \X (1..PerOwner)     \* clientMessageId
OwnerOf(m) == m[1]                      \* ownerId

\* An entry is a message with its attempt count; the last attempt makes it a
\* dead letter (deadLetteredAt).
Entries == Messages \X (0..MaxAttempts)
DeadLetter(x) == x[2] >= MaxAttempts

\* An item of the keychain: the entries, none when it is absent, or torn by
\* a write that the process did not live to finish.
Torn == << <<>> >>
Lists == UNION {[1..n -> Entries] : n \in 0..Capacity}

Ids(list) == {list[i][1] : i \in DOMAIN list}

FlushLabels == {"idle", "list", "loop", "send", "remove", "mark"}
ScreenLabels == {"new", "enqueue", "send", "failed", "done"}
NoFlush == [at |-> "idle", left |-> <<>>, cancelled |-> FALSE, as |-> "none"]

Ops == [kind : {"enqueue", "remove", "mark", "list", "purge", "purgeAll"},
        by   : {"flush", "screen"},
        owner : Owners \cup {"none"},
        arg  : Entries \cup {<<>>}]

Op(kind, by, owner, arg) == [kind |-> kind, by |-> by, owner |-> owner, arg |-> arg]

TypeOK ==
    /\ DOMAIN disk = {"main", "backup"}
    /\ \A key \in DOMAIN disk : disk[key] = Torn \/ disk[key] \in Lists
    /\ \A i \in DOMAIN queue : queue[i] \in Ops
    /\ waiting \in SUBSET Entries
    /\ expired \in SUBSET Messages
    /\ \A o \in Owners : /\ flush[o].at \in FlushLabels
                         /\ flush[o].left \in Lists
                         /\ flush[o].at \in {"send", "remove", "mark"} => flush[o].left # <<>>
    /\ \A m \in Messages : screen[m] \in ScreenLabels
    /\ auth \in Owners \cup {"none"}
    /\ member \in SUBSET Owners
    /\ wire \in SUBSET (Owners \X Messages)
    /\ rows \in SUBSET (Owners \X Messages)
    /\ kept \in SUBSET Messages
    /\ called \in SUBSET Messages

Init ==
    /\ disk = [main |-> <<>>, backup |-> <<>>]
    /\ queue = <<>>
    /\ waiting = {}
    /\ expired = {}
    /\ flush = [o \in Owners |-> NoFlush]
    /\ screen = [m \in Messages |-> "new"]
    /\ auth = "none"
    /\ member = Owners
    /\ wire = {}
    /\ rows = {}
    /\ kept = {}
    /\ called = {}
    /\ crashes = 0
    /\ sessions = 0

-----------------------------------------------------------------------------
(* The stored list *)

\* filter: the entries at the chosen positions.
Filtered(list, chosen) ==
    LET nth(k) == CHOOSE i \in chosen : Cardinality({j \in chosen : j <= i}) = k
    IN  [k \in 1..Cardinality(chosen) |-> list[nth(k)]]

\* slice(-limit)
Fit(list) == SubSeq(list, Len(list) - Capacity + 1, Len(list))
FitStorageLimit(list) == IF Len(list) <= Capacity THEN list ELSE Fit(list)

\* parseMessages of an item that is not torn
Parse(list) == FitStorageLimit(Filtered(list, {i \in DOMAIN list : list[i][1] \notin expired}))

\* The keychain calls an operation makes are a sequence of <<key, value>>;
\* an empty value removes the item.
After(d, calls) ==
    [key \in DOMAIN d |->
        LET writes == {i \in DOMAIN calls : calls[i][1] = key}
        IN  IF writes = {} THEN d[key] ELSE calls[Max(writes)][2]]

\* Mutant: the backup is dropped before the main item is written.
WriteAllEarly(d, list) ==
    IF list = <<>>
    THEN << <<"main", <<>> >>, <<"backup", <<>> >> >>
    ELSE << <<"backup", d.main>>, <<"backup", <<>> >>, <<"main", FitStorageLimit(list)>> >>

\* writeAllUnlocked
WriteAll(d, list) ==
    IF list = <<>>
    THEN << <<"main", <<>> >>, <<"backup", <<>> >> >>
    ELSE (IF d.main = <<>> THEN <<>> ELSE << <<"backup", d.main>> >>)
         \o << <<"main", FitStorageLimit(list)>>, <<"backup", <<>> >> >>

Readable(d) == IF d.main # Torn THEN Parse(d.main)
               ELSE IF d.backup # Torn THEN Parse(d.backup) ELSE <<>>

\* readAllUnlocked: the list it returns is Readable(d).
ReadAll(d) ==
    IF d.main # Torn
    THEN IF Parse(d.main) = d.main THEN <<>> ELSE WriteAll(d, Parse(d.main))
    ELSE << <<"main", Readable(d)>>, <<"backup", <<>> >> >>

\* Mutant: the attempt is not counted.
MarkedSame(x, e) == x

\* The count comes from the copy the flush holds.
Marked(x, e) == IF x[1] = e[1] THEN <<e[1], e[2] + 1>> ELSE x

\* What each operation makes of the list.
Change(op, list) ==
    CASE op.kind = "enqueue" -> IF op.arg[1] \in Ids(list) THEN list ELSE Append(list, op.arg)
      [] op.kind = "remove"  -> Filtered(list, {i \in DOMAIN list : list[i][1] # op.arg[1]})
      [] op.kind = "mark"    -> [i \in DOMAIN list |-> Marked(list[i], op.arg)]
      [] op.kind = "purge"   -> Filtered(list, {i \in DOMAIN list : OwnerOf(list[i][1]) # op.owner})
      [] OTHER               -> list

\* All keychain writes of an operation, in order.
Calls(op) ==
    LET list  == Readable(disk)
        read  == ReadAll(disk)
        write == WriteAll(After(disk, read), Change(op, list))
        known == op.kind = "enqueue" /\ op.arg[1] \in Ids(list)
    IN IF op.kind = "purgeAll" THEN << <<"main", <<>> >>, <<"backup", <<>> >> >>
       ELSE IF op.kind = "list" \/ known THEN read
       ELSE read \o write

\* The messages an operation takes out of the outbox, or may take out.
GivenUp(op) ==
    {m \in Messages : \/ op.kind = "remove" /\ m = op.arg[1]
                      \/ op.kind = "purge" /\ OwnerOf(m) = op.owner
                      \/ op.kind = "purgeAll"}

-----------------------------------------------------------------------------
(* The storage lock *)

Request(ops) == queue' = queue \o ops

\* A send goes out with the token of the session there is now; one more
\* for a message that is stored changes nothing.
Sent(m) == wire \cup ((({auth} \ {"none"}) \X {m}) \ rows)

\* listOutbox, and flushAllOutbox's choice: the entries of an owner to send now.
Due(o, list) ==
    Filtered(list, {i \in DOMAIN list : /\ OwnerOf(list[i][1]) = o
                                       /\ ~DeadLetter(list[i]) /\ list[i] \notin waiting})

\* What the caller of an operation does when its promise resolves.
Resolve(op) ==
    LET o == op.owner
        m == op.arg[1]
    IN \/ /\ op.kind = "list"
          /\ flush' = [flush EXCEPT ![o].at = "loop", ![o].left = Due(o, Readable(disk))]
          /\ UNCHANGED <<waiting, screen, wire>>
       \/ /\ op.kind = "remove" /\ op.by = "flush"
          /\ flush' = [flush EXCEPT ![o].at = "loop", ![o].left = Tail(@)]
          /\ UNCHANGED <<waiting, screen, wire>>
       \/ /\ op.kind = "mark"
          /\ flush' = [flush EXCEPT ![o] = NoFlush]
          /\ waiting' = waiting \cup {x \in {<<m, op.arg[2] + 1>>} : ~DeadLetter(x)}
          /\ UNCHANGED <<screen, wire>>
       \/ /\ op.kind = "enqueue"
          /\ screen' = [screen EXCEPT ![m] = "send"]
          /\ wire' = Sent(m)
          /\ UNCHANGED <<waiting, flush>>
       \/ /\ \/ op.kind \in {"purge", "purgeAll"}
             \/ op.kind = "remove" /\ op.by = "screen"
          /\ UNCHANGED <<waiting, flush, screen, wire>>

\* The operation at the head of the queue runs to its end.  Messages that no
\* longer fit are gone.
Perform ==
    LET op == Head(queue) IN
    /\ queue # <<>>
    /\ disk' = After(disk, Calls(op))
    /\ queue' = Tail(queue)
    /\ Resolve(op)
    /\ kept' = ((IF op.kind = "enqueue" THEN kept \cup {op.arg[1]} ELSE kept) \ GivenUp(op))
               \cap (IF op.kind = "enqueue" THEN Ids(disk'.main) ELSE Messages)
    /\ UNCHANGED <<expired, auth, member, rows, called, bounds>>

-----------------------------------------------------------------------------
(* flushAllOutbox *)

\* Another flush of the owner is joined, not started.
FlushStart(o) ==
    /\ auth = o
    /\ flush[o].at = "idle"
    /\ flush' = [flush EXCEPT ![o] = [NoFlush EXCEPT !.at = "list"]]
    /\ Request(<<Op("list", "flush", o, <<>>)>>)
    /\ UNCHANGED <<disk, waiting, expired, screen, auth, server, history, bounds>>

\* Mutant: the generations are not compared before each message.
FlushLoopBlind(o) ==
    /\ flush[o].at = "loop"
    /\ IF flush[o].left = <<>>
       THEN flush' = [flush EXCEPT ![o] = NoFlush] /\ UNCHANGED wire
       ELSE /\ flush' = [flush EXCEPT ![o].at = "send", ![o].as = auth]
            /\ wire' = Sent(Head(flush[o].left)[1])
    /\ UNCHANGED <<disk, queue, waiting, expired, screen, auth, member, rows, history, bounds>>

\* The next message, unless a purge has begun since the flush started.  The
\* request carries the token of the session there is now.
FlushLoop(o) ==
    /\ flush[o].at = "loop"
    /\ IF flush[o].left = <<>> \/ flush[o].cancelled
       THEN flush' = [flush EXCEPT ![o] = NoFlush] /\ UNCHANGED wire
       ELSE /\ flush' = [flush EXCEPT ![o].at = "send", ![o].as = auth]
            /\ wire' = Sent(Head(flush[o].left)[1])
    /\ UNCHANGED <<disk, queue, waiting, expired, screen, auth, member, rows, history, bounds>>

\* The call returns the row, or it fails in whatever way.
Answered(u, m) == <<u, m>> \in rows

FlushAnswer(o) ==
    LET x == Head(flush[o].left) IN
    /\ flush[o].at = "send"
    /\ \/ /\ Answered(flush[o].as, x[1])
          /\ flush' = [flush EXCEPT ![o].at = "remove", ![o].as = "none"]
          /\ Request(<<Op("remove", "flush", o, x)>>)
       \/ /\ flush' = [flush EXCEPT ![o].at = "mark", ![o].as = "none"]
          /\ Request(<<Op("mark", "flush", o, x)>>)
    /\ UNCHANGED <<disk, waiting, expired, screen, auth, server, history, bounds>>

-----------------------------------------------------------------------------
(* The chat screen *)

Submit(m) ==
    /\ screen[m] = "new"
    /\ auth = OwnerOf(m)
    /\ screen' = [screen EXCEPT ![m] = "enqueue"]
    /\ Request(<<Op("enqueue", "screen", auth, <<m, 0>>)>>)
    /\ UNCHANGED <<disk, waiting, expired, flush, auth, server, history, bounds>>

\* deliver: a message that was sent is removed without waiting for it.
ScreenAnswer(m) ==
    /\ screen[m] = "send"
    /\ \/ /\ \E u \in Owners : Answered(u, m)
          /\ screen' = [screen EXCEPT ![m] = "done"]
          /\ Request(<<Op("remove", "screen", OwnerOf(m), <<m, 0>>)>>)
       \/ /\ screen' = [screen EXCEPT ![m] = "failed"]
          /\ UNCHANGED queue
    /\ UNCHANGED <<disk, waiting, expired, flush, auth, server, history, bounds>>

Resend(m) ==
    /\ screen[m] = "failed"
    /\ auth = OwnerOf(m)
    /\ screen' = [screen EXCEPT ![m] = "send"]
    /\ wire' = Sent(m)
    /\ UNCHANGED <<disk, queue, waiting, expired, flush, auth, member, rows, history, bounds>>

Cancel(m) ==
    /\ screen[m] = "failed"
    /\ auth = OwnerOf(m)
    /\ screen' = [screen EXCEPT ![m] = "done"]
    /\ Request(<<Op("remove", "screen", auth, <<m, 0>>)>>)
    /\ UNCHANGED <<disk, waiting, expired, flush, auth, server, history, bounds>>

-----------------------------------------------------------------------------
(* The session *)

\* The bound on changes.
Counted == sessions < MaxSessions /\ sessions' = sessions + 1

\* The screens of a new session show what listOutbox returns.
Relist(o) == [m \in Messages |->
                IF OwnerOf(m) = o /\ screen[m] = "failed" /\ m \notin Ids(Readable(disk))
                THEN "done" ELSE screen[m]]

\* Typing a password takes longer than the storage queue takes to empty.
SignIn(o) ==
    /\ auth = "none" /\ queue = <<>>
    /\ Counted
    /\ auth' = o
    /\ screen' = Relist(o)
    /\ UNCHANGED <<disk, queue, waiting, expired, flush, server, history, crashes>>

\* signOut or the loss of the session: purgeOutboxForOwner raises the
\* generation at once and then waits for the lock.
SignOut ==
    /\ auth # "none"
    /\ Counted
    /\ auth' = "none"
    /\ flush' = [flush EXCEPT ![auth].cancelled = flush[auth].at # "idle"]
    /\ Request(<<Op("purge", "screen", auth, <<>>)>>)
    /\ called' = called \cup {m \in Messages : OwnerOf(m) = auth /\ screen[m] # "new"}
    /\ UNCHANGED <<disk, waiting, expired, screen, server, kept, crashes>>

\* A link opened from an e-mail replaces the session (setSession's
\* account_switch): nothing is purged.
Switch(o) ==
    /\ "switch" \in Rare
    /\ auth \notin {"none", o}
    /\ Counted
    /\ auth' = o
    /\ screen' = Relist(o)
    /\ UNCHANGED <<disk, queue, waiting, expired, flush, server, history, crashes>>

-----------------------------------------------------------------------------
(* Death of the process, the clock, the room *)

\* Mutant: a start without a session leaves the outbox alone.
BootIdle == <<>>

\* setSession(null) at the start without a session purges everything.
Boot == IF auth = "none" THEN <<Op("purgeAll", "screen", "none", <<>>)>> ELSE <<>>

\* The process dies between two keychain calls or during one; the chat
\* screens of the next one list what is stored as failed.
Crash ==
    /\ crashes < MaxCrashes
    /\ crashes' = crashes + 1
    /\ \/ UNCHANGED <<disk, kept>>
       \/ /\ queue # <<>>
          /\ LET calls == Calls(Head(queue)) IN
             \E n \in DOMAIN calls :
                \/ disk' = After(disk, SubSeq(calls, 1, n))
                \/ /\ calls[n][2] # <<>>
                   /\ disk' = [After(disk, SubSeq(calls, 1, n - 1)) EXCEPT ![calls[n][1]] = Torn]
          /\ kept' = kept \ (GivenUp(Head(queue))
                              \cup {m \in kept : /\ Head(queue).kind = "enqueue"
                                                 /\ m \notin Ids(FitStorageLimit(
                                                        Change(Head(queue), Readable(disk))))})
    /\ queue' = Boot
    /\ flush' = [o \in Owners |-> NoFlush]
    /\ screen' = [m \in Messages |-> IF screen[m] = "new" THEN "new"
                                     ELSE IF m \in Ids(Readable(disk')) THEN "failed" ELSE "done"]
    /\ UNCHANGED <<waiting, expired, auth, server, called, sessions>>

\* nextAttemptAt comes; a message grows older than maxAgeMs.
BackoffElapses(x) ==
    /\ x \in waiting
    /\ waiting' = waiting \ {x}
    /\ UNCHANGED <<disk, queue, expired, flush, screen, auth, server, history, bounds>>

Expires(m) ==
    /\ "expire" \in Rare
    /\ screen[m] \notin {"new", "enqueue"} /\ m \notin expired
    /\ Counted
    /\ expired' = expired \cup {m}
    /\ kept' = kept \ {m}
    /\ UNCHANGED <<disk, queue, waiting, flush, screen, auth, server, called, crashes>>

\* leave_event and join_event; the screen does not touch the outbox.
Leave(o) ==
    /\ "leave" \in Rare
    /\ auth = o /\ o \in member
    /\ Counted
    /\ member' = member \ {o}
    /\ UNCHANGED <<client, wire, rows, history, crashes>>

Join(o) ==
    /\ auth = o /\ o \notin member
    /\ member' = member \cup {o}
    /\ UNCHANGED <<client, wire, rows, history, bounds>>

\* send_room_message: one row per sender and client_message_id.  A request
\* that is refused (by the rate limit, for one) or lost is never served.
Serve(u, m) ==
    /\ <<u, m>> \in wire
    /\ u \in member
    /\ wire' = wire \ {<<u, m>>}
    /\ rows' = rows \cup {<<u, m>>}
    /\ UNCHANGED <<client, member, history, bounds>>

-----------------------------------------------------------------------------
Next ==
    \/ Perform \/ SignOut \/ Crash
    \/ \E o \in Owners : \/ FlushStart(o) \/ FlushLoop(o) \/ FlushAnswer(o)
                         \/ SignIn(o) \/ Switch(o) \/ Leave(o) \/ Join(o)
    \/ \E m \in Messages : \/ Submit(m) \/ ScreenAnswer(m) \/ Resend(m) \/ Cancel(m)
                           \/ Expires(m)
    \/ \E x \in Entries : BackoffElapses(x)
    \/ \E u \in Owners, m \in Messages : Serve(u, m)

Spec == Init /\ [][Next]_vars

\* The app comes to the foreground again and again, which triggers a flush;
\* promises settle, requests end, and time passes.
Fairness ==
    /\ WF_vars(Perform)
    /\ \A o \in Owners : /\ WF_vars(FlushStart(o)) /\ WF_vars(FlushLoop(o))
                         /\ WF_vars(FlushAnswer(o))
    /\ \A x \in Entries : WF_vars(BackoffElapses(x))

FairSpec == Spec /\ Fairness

-----------------------------------------------------------------------------
(* Properties *)

\* A message whose enqueue has completed can be read back until somebody
\* gives it up, whenever the process dies and whichever write it tears.
KeptIsReadable == kept \subseteq Ids(Readable(disk))

FlushCalls(o, m) ==
    /\ flush[o].at = "loop" /\ flush'[o].at = "send"
    /\ Head(flush[o].left)[1] = m

\* What was queued before a logout is not replayed after it: the purge under
\* the lock, the generations checked by a running flush and the purge at the
\* next start leave no gap, crashes included.
PurgedNotReplayed ==
    [][\A o \in Owners, m \in Messages : FlushCalls(o, m) => m \notin called]_vars

\* A message that is kept does not stay in limbo while its owner is signed in:
\* it is stored in the room, becomes a dead letter, or is given up.
MessageSettles ==
    \A m \in Messages :
        m \in kept ~> \/ m \notin kept \/ auth # OwnerOf(m)
                      \/ \E u \in Owners : <<u, m>> \in rows
                      \/ \E i \in DOMAIN Readable(disk) :
                             Readable(disk)[i][1] = m /\ DeadLetter(Readable(disk)[i])

\* Stated by docs/offline-and-concurrency.md:20: replay is owner-scoped.  No
\* message is then stored under another account than its owner's.
DeliveredAsOwner == \A r \in rows : r[1] = OwnerOf(r[2])
=============================================================================
