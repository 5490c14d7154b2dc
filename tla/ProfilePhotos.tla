--------------------------- MODULE ProfilePhotos ---------------------------
(* The photos of one account: the objects in the bucket, the rows that name  *)
(* them, and one installation that replaces them (replaceProfilePhotos of    *)
(* profileService.ts) or finishes the registration (registrationService.ts). *)
(* Objects that are no longer named are remembered as tombstones, in memory  *)
(* and in the keychain, until the bucket has removed them; the runs of this  *)
(* cleanup wait for each other.                                              *)
EXTENDS Naturals, Sequences, FiniteSets

CONSTANTS MaxPaths,   \* bound: objects that are ever uploaded
          MaxOps,     \* bound: replacements and registrations
          MaxWaiting, \* bound: cleanups that wait for each other
          MaxKills    \* bound: deaths of the process

\* What the constants are.
ProfilePhotosAssumption ==
    /\ MaxPaths \in Nat \ {0} /\ MaxOps \in Nat /\ MaxKills \in Nat /\ MaxWaiting \in Nat \ {0}

Paths == 1..MaxPaths

VARIABLES objects,    \* the bucket
          rows,       \* profile_photos: the paths that the profile names
          used,       \* paths are made once
          mem, disk,  \* inMemoryPhotoCleanup and the keychain's record
          queue,      \* photoCleanupLocks: the cleanups, the first one runs
          op,         \* the replacement or registration under way
          draft,      \* a pending registration is stored
          release,    \* a logout drops the memory when the cleanups are over
          unsaved,    \* history: tombstones that the keychain did not take
          leaked,     \* history: objects that nothing knows any more
          lost,       \* history: the answer of a replacement that was done is lost
          ops, kills
vars == <<objects, rows, used, mem, disk, queue, op, draft, release, unsaved, leaked, lost, ops, kills>>

NoOp     == [at |-> "idle", kind |-> "none", keep |-> {}, new |-> {}]
Cleanups == [at : {"read", "delete"}, extra : SUBSET Paths, pend : SUBSET Paths, by : {"load", "op"}]

PhotosTypeOK ==
    /\ objects \subseteq 1..used /\ rows \subseteq 1..used /\ rows # {} /\ used \in 1..MaxPaths
    /\ mem \subseteq Paths /\ disk \subseteq Paths /\ unsaved \cup leaked \subseteq Paths
    /\ queue \in Seq(Cleanups) /\ Len(queue) <= MaxWaiting + 1
    /\ \A i \in 2..Len(queue) : queue[i].at = "read"
    /\ Cardinality({i \in DOMAIN queue : queue[i].by = "op"}) <= 1
    /\ op \in [at : {"idle", "first", "upload", "last"}, kind : {"none", "edit", "registration"},
               keep : SUBSET Paths, new : SUBSET Paths]
    /\ draft \in BOOLEAN /\ release \in BOOLEAN /\ lost \in BOOLEAN
    /\ ops \in 0..MaxOps /\ kills \in 0..MaxKills

\* The profile has a photo, or is about to get its first ones.
Init ==
    /\ objects = {1} /\ rows = {1} /\ used = 1
    /\ mem = {} /\ disk = {} /\ queue = <<>> /\ op = NoOp
    /\ draft \in BOOLEAN /\ release = FALSE /\ unsaved = {} /\ leaked = {} /\ lost = FALSE
    /\ ops = 0 /\ kills = 0

-----------------------------------------------------------------------------
(* What is accounted for *)

Orphans == objects \ rows

\* What the replacement under way or a waiting cleanup will see to.
InHand(o, q) == o.new \cup UNION {q[i].extra \cup q[i].pend : i \in DOMAIN q}

\* What is forgotten with the memory because the keychain did not take it.
Forgotten == (Orphans \cap unsaved) \ disk

\* The steps of an operation that lose sight of an orphan say so.
Leaking == leaked' = leaked \cup ((objects' \ rows') \ (mem' \cup disk' \cup InHand(op', queue')))

-----------------------------------------------------------------------------
(* retryPendingProfilePhotoCleanup *)

Waiting(extra, by) == Append(queue, [at |-> "read", extra |-> extra, pend |-> {}, by |-> by])

\* The lock goes to the next one; a replacement that waited goes on.
Over ==
    /\ queue' = Tail(queue)
    /\ op' = IF Head(queue).by = "load" THEN op
             ELSE IF op.at = "first" THEN [op EXCEPT !.at = "upload"] ELSE NoOp

\* A logout that found a cleanup running drops the memory after it.
Remembered(paths) ==
    /\ mem' = IF release /\ Len(queue) = 1 THEN {} ELSE paths
    /\ release' = (release /\ Len(queue) > 1)

\* getProfile
Load ==
    /\ Len(queue) < MaxWaiting
    /\ queue' = Waiting({}, "load")
    /\ UNCHANGED <<objects, rows, used, mem, disk, op, draft, release, unsaved, leaked, lost, ops, kills>>

\* Mutant: only the paths of this call are made durable.
PersistExtra ==
    /\ queue # <<>> /\ Head(queue).at = "read"
    /\ LET pend == mem \cup disk \cup Head(queue).extra IN
       IF pend = {} THEN Over /\ Remembered({}) /\ UNCHANGED <<disk, unsaved, leaked>>
       ELSE /\ mem' = pend /\ disk' = Head(queue).extra
            /\ queue' = [queue EXCEPT ![1].at = "delete", ![1].pend = pend]
            /\ UNCHANGED <<op, release, unsaved, leaked>>
    /\ UNCHANGED <<objects, rows, used, draft, lost, ops, kills>>

\* The tombstones are read and, with those of this call, written before
\* anything is deleted.  Either access to the keychain may fail.
Persist ==
    /\ queue # <<>> /\ Head(queue).at = "read"
    /\ \E read, written \in BOOLEAN :
          LET pend == mem \cup (IF read THEN disk ELSE {}) \cup Head(queue).extra IN
          IF pend = {} THEN Over /\ Remembered({}) /\ UNCHANGED <<disk, unsaved, leaked>>
          ELSE /\ mem' = pend
               /\ IF written THEN disk' = pend /\ unsaved' = {} ELSE unsaved' = pend /\ UNCHANGED disk
               /\ leaked' = IF written /\ ~read THEN leaked \cup ((Orphans \cap disk) \ pend) ELSE leaked
               /\ queue' = [queue EXCEPT ![1].at = "delete", ![1].pend = pend]
               /\ UNCHANGED <<op, release>>
    /\ UNCHANGED <<objects, rows, used, draft, lost, ops, kills>>

\* removeProfilePhotoObjects: two attempts; the answer may be lost, and so may
\* the acknowledgement in the keychain.
Delete ==
    /\ queue # <<>> /\ Head(queue).at = "delete"
    /\ \/ /\ objects' = objects \ Head(queue).pend
          /\ Over /\ Remembered({})
          /\ \/ UNCHANGED <<disk, leaked>>
             \/ disk' = {} /\ leaked' = leaked \cup ((Orphans \cap disk) \ Head(queue).pend)
       \/ /\ objects' \in {objects, objects \ Head(queue).pend}
          /\ Over /\ Remembered(mem)
          /\ UNCHANGED disk
          /\ leaked' = IF mem' = {} THEN leaked \cup Forgotten ELSE leaked
    /\ UNCHANGED <<unsaved, rows, used, draft, lost, ops, kills>>

-----------------------------------------------------------------------------
(* replaceProfilePhotos and finalizeDraft *)

\* Saving the photos editor: what it keeps is part of the profile it loaded.
Edit ==
    /\ op = NoOp /\ ops < MaxOps /\ ops' = ops + 1
    /\ \E keep \in SUBSET rows : op' = [at |-> "first", kind |-> "edit", keep |-> keep, new |-> {}]
    /\ queue' = Waiting({}, "op")
    /\ UNCHANGED <<objects, rows, used, mem, disk, draft, release, unsaved, leaked, lost, kills>>

\* A session starts and finds a pending registration.
Register ==
    /\ op = NoOp /\ ops < MaxOps /\ ops' = ops + 1
    /\ draft
    /\ op' = [at |-> "upload", kind |-> "registration", keep |-> {}, new |-> {}]
    /\ UNCHANGED <<objects, rows, used, mem, disk, queue, draft, release, unsaved, leaked, lost, kills>>

\* What an operation does after an error: a cleanup of the new objects, or one
\* attempt to remove them.
Rollback(new) ==
    IF op.kind = "edit"
    THEN /\ op' = IF new = {} THEN NoOp ELSE [op EXCEPT !.at = "last", !.new = {}]
         /\ queue' = IF new = {} THEN queue ELSE Waiting(new, "op")
         /\ objects' \in {objects, objects \cup {used'}}
    ELSE /\ op' = NoOp /\ UNCHANGED queue
         /\ \E kept \in {objects, objects \cup {used'}} : objects' \in {kept, kept \ new}

\* One object more; an upload whose answer is lost is not among those that are
\* cleaned up.
Upload ==
    /\ op.at = "upload" /\ used < MaxPaths /\ used' = used + 1
    /\ UNCHANGED <<rows, mem, disk, draft, release, unsaved, lost, ops, kills>>
    /\ \/ /\ objects' = objects \cup {used'}
          /\ op' = [op EXCEPT !.new = @ \cup {used'}]
          /\ UNCHANGED <<queue, leaked>>
       \/ Rollback(op.new) /\ Leaking

\* Mutant: all paths that were named before are cleaned up.
ReplacedAll ==
    /\ op.at = "upload" /\ op.kind = "edit" /\ op.keep \cup op.new # {}
    /\ rows' = op.keep \cup op.new
    /\ op' = [op EXCEPT !.at = "last", !.new = {}]
    /\ queue' = Waiting(rows, "op")
    /\ UNCHANGED <<objects, used, mem, disk, draft, release, unsaved, leaked, lost, ops, kills>>

\* replace_profile_photos is done: the paths it no longer names are cleaned
\* up, by an edit; a registration forgets its draft, if the keychain lets it.
Replaced ==
    /\ op.at = "upload" /\ op.keep \cup op.new # {}
    /\ rows' = op.keep \cup op.new
    /\ UNCHANGED <<objects, used, mem, disk, release, unsaved, lost, ops, kills>>
    /\ IF op.kind = "edit"
       THEN /\ op' = [op EXCEPT !.at = "last", !.new = {}]
            /\ queue' = Waiting(rows \ rows', "op")
            /\ UNCHANGED <<draft, leaked>>
       ELSE /\ op' = NoOp /\ draft' \in {FALSE, draft}
            /\ UNCHANGED queue /\ Leaking

\* It fails, or is done without the answer: both lead to the rollback.
NotReplaced ==
    /\ op.at = "upload" /\ op.keep \cup op.new # {}
    /\ \/ UNCHANGED <<rows, lost>>
       \/ rows' = op.keep \cup op.new /\ lost' = TRUE
    /\ UNCHANGED used
    /\ IF op.kind = "edit"
       THEN /\ op' = IF op.new = {} THEN NoOp ELSE [op EXCEPT !.at = "last", !.new = {}]
            /\ queue' = IF op.new = {} THEN queue ELSE Waiting(op.new, "op")
            /\ UNCHANGED objects
       ELSE /\ op' = NoOp /\ UNCHANGED queue
            /\ objects' \in {objects, objects \ op.new}
    /\ UNCHANGED <<mem, disk, draft, release, unsaved, ops, kills>>
    /\ Leaking

-----------------------------------------------------------------------------
\* releaseProfilePhotoCleanupMemory: the durable record stays.
Logout ==
    /\ op = NoOp
    /\ mem' = {} /\ release' = (queue # <<>>)
    /\ leaked' = leaked \cup Forgotten
    /\ UNCHANGED <<objects, rows, used, disk, queue, op, draft, unsaved, lost, ops, kills>>

Kill ==
    /\ kills < MaxKills /\ kills' = kills + 1
    /\ mem' = {} /\ queue' = <<>> /\ op' = NoOp /\ release' = FALSE
    /\ LET fresh == op.new \cup UNION {queue[i].extra : i \in {j \in DOMAIN queue : queue[j].at = "read"}}
       IN  leaked' = leaked \cup ((Orphans \cap fresh) \ disk) \cup Forgotten
    /\ UNCHANGED <<objects, rows, used, disk, draft, unsaved, lost, ops>>

Next ==
    \/ Load \/ Persist \/ Delete \/ Edit \/ Register
    \/ Upload \/ Replaced \/ NotReplaced \/ Logout \/ Kill

Spec == Init /\ [][Next]_vars

-----------------------------------------------------------------------------
(* Properties *)

\* "Persist before deletion so a process stop ... can only cause a harmless
\* idempotent retry" (profileService.ts:401): a death in the middle of a
\* cleanup, a failed deletion or a logout leaves no object behind that nothing
\* knows; only a lost upload, the keychain, a registration or a death before
\* the record is written do.
OrphansAccounted == Orphans \subseteq mem \cup disk \cup InHand(op, queue) \cup leaked

\* The cleanup before the commit is separate from the one after it
\* (docs/network-and-data-inventory.md:22): what the profile names is never
\* cleaned up, unless the answer of a replacement that was done was lost and
\* its rollback removes what it has stored.
NamedIsKept == ~lost => rows \subseteq objects

PhotosKept == OrphansAccounted /\ NamedIsKept
=============================================================================
