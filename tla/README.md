# EtkinLink: specifications, model checking and proofs

EtkinLink is a mobile app (React Native, `src/mobile`) for meeting people at
events: users join an event, swipe on its other attendees, chat with a match
or in the event's room, and get push notifications. The server side is
Supabase: PostgreSQL functions (`src/supabase/migrations`), Edge Functions
(`src/supabase/functions`), and a Cloudflare edge (`src/infra/cloudflare`). A
release is decided by evidence that GitHub workflows leave behind
(`src/scripts/release`, `src/mobile/scripts`).

The code is hard where several actors work on one row, one list or one cache:
two devices and a cron worker on one deletion, overlapping dispatchers on one
outbox, a flush and a logout on one keychain item, two swipes and a block on
one pair, an optimistic write and a late answer on one cached query. Tests
drive these one at a time. The modules here let them interleave at every
awaited call or SQL statement, with deaths of the process and lost answers.

`PROJECT.json` lists for each definition the source lines it stands for, for
each property a mutated definition that breaks it, and the hazards of the code
with the properties that watch them.

## 1. Inventory

Paths are below `src/mobile/src` (screens and client services),
`src/supabase/functions` and `src/supabase/migrations`.

| Component | State | Operations | Hard behaviour | What makes it correct |
|---|---|---|---|---|
| Account deletion saga (`delete-account/`, 20260830130000, 20260830131000) | request rows with phase, attempts, lease, wait and terminal mark; Auth user; photo bucket | begin, read, advance by compare-and-set, delete the user, list and remove pages, claim, release, sweep | devices and workers race, die between any two calls, outlive their leases | completed means erased; phases go forward; no request becomes unreachable |
| Push outbox and dispatcher (`push-dispatch/`, 20260831170000) | events, tokens, deliveries with tickets | enqueue, claim with sweep, POST chunks, upsert tickets, disable, finish, fail, replay | lost answers, failures of some devices, retries, replays | one worker per event; sent is backed by a ticket; no ticketed device is sent again |
| Push receipts (`push-receipts/`, 20260831160000) | receipt status, lease and checks of a delivery | claim with repair, ask Expo, record by compare-and-set | late workers on rows the dispatcher and operators write too | a verdict is final and comes from the lease's holder |
| Push installation (`pushNotifications.ts`) | the phone's record and tombstone, tokens on the server | register, rotate, revoke, retry | sign-out, account change and retry overlap a registration | nobody waits for good; a removed record is a revoked token |
| Session (`sessionStore.ts`, `useAuthBootstrap.ts`) | session, profile, phase, recovery | each report of the auth client, sign-out, recovery, boot | every report starts a call of its own, nothing orders them | the account shown is the one signed in; no rows of an account outlive it |
| Registration (`SignUp*.tsx`, `registrationService.ts`) | draft, two keychain records, the account, its mail | the wizard, sign-up, link, sign-in, finalization | deaths and second attempts in the middle | the chosen photos are not forgotten |
| Chat outbox (`chatOutbox.ts`) | two keychain items, the lock queue, flushes | enqueue, remove, purge, flush, recover | death inside a write, logout during an await, switch of account | no message lost; nothing replayed after a logout |
| Conversations and rooms (`DirectChatScreen`, `RoomDetailScreen`, `useConversationPresence`) | thread pages, pending messages, marks, badge, one shared channel | fetch, next page, realtime event, mark, mount, unmount | events, fetches and marks arrive in any order; a screen mounts while its channel is removed | the thread catches up, the badge settles, one channel serves a pair |
| Matching (20260808234500, 20260809010000, 20260807143000) | likes, passes, blocks, matches | swipe, change to pass, end, delete chat, block, unblock, send | transactions at READ COMMITTED under two kinds of lock | mutual likes meet; one active match; no message into a closed one |
| Deck and likes (`MatchCardsScreen`, `MatchingLikesScreen`) | cached deck, position, list of likes, quota | swipe, next page, refresh, roll back | a refresh replaces the cards under the position | no card is passed over |
| Event feed and detail (`eventService.ts`, `useEventDetailController.ts`) | caches of two sources, feed and detail queries | load, join, leave, save, sign out | a join's answer, refetches and a cached copy in any order | the screen settles on what the server has |
| Public feeds (`rssEventService.ts`, `network.ts`) | feed cache, shared requests, timers | load, split, share, retry, abort | one request of many fails or is aborted | a whole load has every item and leaves nothing behind |
| Profile photos (`profileService.ts`) | objects, rows, tombstones in memory and keychain | replace, roll back, clean up, finish registration | a death between upload, commit and cleanup | what the profile names is kept, the rest is remembered |
| Own profile (`SettingsScreen`, `ProfileVisibilityScreen`, edit forms) | two cached queries of one row | optimistic switches, forms, activation | switches, forms and fetches overlap | the screen shows what is stored |
| Notification navigation (`notificationNavigation.ts`) | pending route, handled identifiers | listener, launch response, effects | one tap is reported several times, before and after the session is known | a tap opens its screen once |
| Event ingestion (`ingest-events/`, `sync-event/`, 20260830110000) | events, runs | page, commit in one transaction, sync | overlapping runs over a list that changes | a commit never takes an event back and misses none |
| Edge and event API (`etkinlik-api/`, `etkinlink-edge`) | caches per isolate | page by edge, by function, by cache, by RSS | pages of one feed from different ages of cache | a feed shows every event once |
| Bounded bodies (`boundedJson.ts`, `upstreamHttp.ts`, `delete-account/`) | reader, decoder, deadline | chunk, limit, refuse, retry | characters cut by chunks, wrong lengths, retries | what is accepted is whole, what is sound is accepted |
| Release evidence (`apply-evidence-claims.mjs`, `check-github-release-evidence.mjs`, workflows) | runs and attempts, artifacts, claims, manifest | run, re-run, collect, download, claim; read a ZIP | a run is re-run between its metadata and its artifacts | no gate is verified that is not backed |
| Moderation, query persistence, filters, telemetry, tools | | | nothing interleaves, or no state of the product | not modelled, see 7 |

The parts meet as follows. Triggers on likes, matches and messages fill the
push outbox; installations decide which tokens the dispatcher reads; the
dispatcher's tickets are the receipts worker's work, and both write the same
delivery rows; the session store's sign-out purges the chat outbox, clears the
query cache and revokes the installation; its sign-in finalizes the
registration, which stores photos; the outbox replays into the idempotent
sends; a match's row lock orders sends against end, delete and block;
ingestion fills what the event API serves, and when the API fails the app
reads the provider's public feeds itself.

## 2. Modules

| Module | Models | State and actions |
|---|---|---|
| `AccountErasure` | what deletion promises, whoever drives it | Auth user, photos, phases |
| `AccountDeletion` | `handler.ts`, `worker.ts`, the SQL of the two migrations | one action per awaited call (`pc`, `job` are an invocation's position and locals), crash at any of them, failed calls and lost answers |
| `PushDispatch` | the outbox and `push-dispatch/index.ts` with `expoHttp.ts` | a task is one invocation at work on one event: read, POST a chunk, upsert tickets, disable tokens, finish or fail; both claims with their sweep; replay |
| `ReceiptLedger` | what the outbox promises of receipts | receipt status and checks |
| `PushReceipts` | `push-receipts/index.ts` and its SQL, composed with all of `PushDispatch` | claim with repair, ask, record each result |
| `EventIngest` | `ingest-events`, `sync-event`, the transaction, the edge's trigger | runs that page through a list that changes |
| `EventApi` | `etkinlik-api`, the edge's way to it, `etkinlikApiService.ts` | a walk through the pages, isolates with caches that age |
| `BoundedHttp` | the five readers of a body | head, chunks, end, break, deadline, retry |
| `ChatOutbox` | `chatOutbox.ts`, `OutboxSyncController.tsx`, the store's purge, the idempotent send | a keychain operation waits for the lock and has it for itself; a death leaves any prefix of its writes, the last one torn |
| `Matching` | the transactions on one pair of users | a transaction is a record in `tx`: next statement, locks, uncommitted writes; `Commit` makes them visible |
| `ClientSession` | `sessionStore.ts`, `useAuthBootstrap.ts`, `pushNotifications.ts` | a call is a record in `calls`, one step per await; reports at any time, the boot's two applications of the session, loads, deaths |
| `Registration` | the wizard, its records, sign-up, link, finalization | the screen, the draft, two records, a creation per mount of the review screen, one finalization |
| `Navigation` | `useNotificationNavigation` under `RootNavigator.tsx` | changes of the phase, React's later effects, taps |
| `ProfileForms` | the screens over the own profile | two queries, the mutations in flight |
| `QueryCache` | one query of the client's cache (external library) | operators only: refetch, cancel, write, arrive |
| `EventFeed`, `MatchDeck`, `ChatThread`, `UnreadBadge` | the screens of the same names and their services | `QueryCache` queries, optimistic writes, realtime events, lost answers |
| `ConversationPresence` | `useConversationPresence.ts` | the controllers map, counts, timers, removal flights; one run of the hook's effect per consumer |
| `ProfilePhotos` | `profileService.ts`, the photos of `registrationService.ts` | objects, rows, tombstones, the lock |
| `RssFetch` | `rssEventService.ts` over `network.ts` | loads, one request per load and feed, shared requests |
| `ReleaseEvidence`, `EvidenceZip` | the release scripts and workflows; the two readers of a ZIP's directory | runs with attempts, downloads, claims; an archive as its central entries |
| `MCServer`, `MCDrains`, `MCPair`, `MCClient`, `MCScreens`, `MCRelease` | instances of the modules for TLC | a behaviour has a `mode` (or `screen`) and steps of that part; parts that share state are composed in their own modules, as the outbox is with its receipts and the session with the installation |
| `AccountDeletion_proofs`, `MCServer_proofs`, `MCPair_proofs`, `ClientSession_proofs`, `ReleaseEvidence_proofs`, `MCClient_proofs`, `MCScreens_proofs`, `MCScreensFeed_proofs` | theorems | those of the composed modules are about the instances that the runs check |

Where a call's effect is atomic in the code (one SQL function under its row
lock, one storage request, JavaScript between two awaits) it is one action;
where the code awaits, there are two. A definition marked *Mutant* is not part
of a specification; it is a plausible bug: put in place of the definition
after it, it makes TLC report the property `PROJECT.json` lists beside it.

### Reading notes

- **AccountDeletion.** Time appears only as expiry of a lease or of a wait.
  Token verification, HMAC and nonce checks only refuse a request and are left
  out. Object names are numbered in the order in which the list returns them.
- **PushDispatch.** `Overlap = FALSE` states an assumption of the code: an
  invocation is over before its claim is ten minutes old, before the backoff
  it has written (two minutes at least) ends, and before an operator replays.
  A final update whose answer is lost, followed by the update of the `catch`,
  can break the last two. With `Overlap = TRUE` claims overlap and only the
  liveness properties are asserted.
- **PushReceipts.** Neither the upsert of a ticket nor a replay clears
  `receipt_lease_id`; the model keeps it so, which is what makes
  `LateWorkerRejected` worth stating.
- **ChatOutbox.** The lock excludes other operations, so an operation is atomic
  but for the prefixes that a death leaves. That a killed keychain write can
  leave an unreadable item is the code's own assumption (it keeps a backup).
  The purge requested at sign-out is queued with the loss of the session in one
  step; the boot's purge covers a death in between.
- **Matching.** A statement reads what is committed when it starts and waits
  for row locks; uncommitted writes stay in `tx`. Lock waits are guards.
  `Abort` stands for every error, a deadlock that PostgreSQL resolves included
  (`delete_match_chat` and `block_user` lock in opposite orders). A call that
  reads nothing before its first lock starts when it gets the lock, which loses
  no behaviour: waiting changes nothing another transaction can see.
- **ClientSession.** The auth client's reports are queued by nobody: each
  starts a call of several steps, beside whatever runs, and a boot applies the
  stored session twice (the first report and `getSession`). A set that a later
  change of the account has overtaken may write last (`late`), and a load under
  way at a cleanup may fill the caches after it (`spilled`); the properties
  name these two histories. Whatever a later call writes ends `late`.
- **Registration.** The review screen disables its button while its own
  creation runs; mounted again (`Reviews`) it can begin another beside it.
- **ChatThread.** The thread is fetched when the screen opens; the channel
  joins at any later moment, and until then nothing is heard of a new row.
- **Screens.** A query is served at one moment and arrives at a later one; what
  is written in between is overwritten. A property speaks of the moments when
  nothing is under way, and names in its own text what the code cannot know
  then (`sure`, `lost`, `missed`, `invalid`): a refetch that was joined or
  skipped, an answer that was lost.
- **ReleaseEvidence.** A job's artifact is what it proves: passed or not, whole
  or not, of which attempt. Contents, digests and signatures are not spelled
  out. A path of `EvidenceZip` is a sequence of segments.
- `QueryCache`, `Rerun`, `VerifyElsewhere`, `Written` of `EvidenceZip` and the
  like model libraries and services by how the code uses them and are marked
  external.

## 3. Runs

Seven runs pass, five show a statement of the repository violated.

| Run | Bounds | Shows |
|---|---|---|
| `AccountDeletionRace` | 1 request, 1 device, 2 workers, 2 photos in pages of 1, 2 attempts, fair (136 thousand states) | `CompletedMeansErased`, `NeverStranded`, `TerminalIsFinal`, `ContinuationSettles`; the saga implements `AccountErasure` |
| `MCServer` | *dispatch*: 1 event, 2 devices in chunks of 1, 2 dispatchers, 2 HTTP tries, 2 attempts, 1 replay. *receipts*: 1 device, 1 dispatcher, 2 receipt workers, 2 checks. *ingest*: 3 events (one incomplete), 2 runs, pages of 1. *api*: 3 events, pages of 1, a cache that lives one tick. *http*: bodies of up to 3 bytes, limit 2, 2 attempts (778 thousand states) | `OneTaskPerEvent`, `SentHasTicket`, `TicketedNotResent`; the outbox refines `ReceiptLedger` (`KeepsLedger`); `RunCommits`; `FeedWhole`; `BodyRead` |
| `MCDrains` | outbox with overlapping claims: 1 event, 1 device, 1 worker of each kind; chat outbox: 1 message, 2 deaths; fair (31 thousand states) | `EventSettles`, `ReceiptSettles`, `MessageSettles` |
| `MCPair` | 1 pair, 2 events, 2 connections; 2 accounts on one phone with 1 message each, room for 1, 1 death, 3 session changes (1.5 million states) | `MutualMeansMatched`, `OneActiveMatch`, `WithdrawnUnmatched`, `SendsIntoActive`; `KeptIsReadable`, `PurgedNotReplayed` |
| `MCClient` | *session* (with the push registration): 2 accounts, 2 tokens, 2 calls at a time, 2 changes of the auth session, 1 event, 1 death, 1 retry, the pairs of calls in `Together`. *reports*: 2 accounts, 2 calls, 3 changes, 1 death, recoveries and loads. *registration*: 2 addresses, 1 change of the draft, 2 mounts of the review screen, 2 creations. *navigation*: 2 taps, 4 changes of the phase. *settings*: 2 mutations, 2 fetches (1.4 million states) | `SignedInIsAuth`, `SignedOutClean`, `AwaitedRuns`, `RecoveryHolds`; `RegistrationKept`; `OpensOnce`; `ShownIsStored` |
| `MCScreens` | seven screens: 2 calls on an event, 3 candidates, 2 messages, 3 unread messages, 3 paths of photos with 1 death, 3 consumers and 2 accounts, 2 loads of 2 items with feeds of 1 (1.7 million states) | `SettledJoined`, `NoCardSkipped`, `ThreadCatchesUp`, `BadgeSettles`, `PhotosKept`, `OneChannel`, `FeedsFetched` |
| `MCRelease` | 4 workflows, 1 re-run; archives of up to 2 entries over 5 paths (2.4 million states) | `VerifiedIsBacked`, `EvidenceExtracts` |
| `AccountDeletionSession` | 1 request, 1 device, 1 worker, fair | **violated** `DeletionOutlivesTheSession` |
| `AccountDeletionLease` | 2 workers | **violated** `LeaseReleasedByHolder` |
| `ChatOutboxOwner` | 2 accounts, a switch | **violated** `DeliveredAsOwner` |
| `MatchingBlock` | 1 pair, 1 event, 2 connections | **violated** `BlockLocksPair` |
| `ClientSessionLogout` | 1 account, 1 token, 2 calls | **violated** `RemovalRevokes` |

`ServerTypeOK`, `ClientTypeOK` and `ScreensTypeOK` put together the type
invariants of the parts; `KeptIsReadable` includes that of the phone's storage.

Why these bounds are enough. Every race in the code is between two parties (a
lease holder and its successor, a flush and a logout, two transactions on a
pair, a fetch and a write), so two of each suffice where the property is about
a race, and a third party takes no part that one of the two cannot take. Two
photos in pages of one, two chunks of one, three events in pages of one and two
attempts give every loop a first and a later turn. Three consumers let a third
one mount while one channel is removed and another is made. Two entries are
what a collision in an archive takes. Real limits (8 attempts, 100 messages in
a chunk, 40 queued messages) are constants. `MaxSends`, `MaxCrashes`, `MaxAuth`
and `MaxEvents` of the client, `MaxSets`, `MaxCreates`, `MaxStarts`,
`MaxOpens`, `MaxOps`, `MaxTroubles`, `MaxReruns` and the like bound the runs
alone and appear only in guards; `PushBounds`, `ReportBounds` and
`WizardBounds` of `MCClient`, `FeedBounds` and `ThreadBounds` of `MCScreens`
are further bounds of single modes. They are part of `BoundedSpec`, which TLC
checks, and not of `ClientSpec` and `ScreensSpec`, which the theorems are
about. A part whose bounded inputs are used up may stop, so the composed runs
do not check for deadlock; the runs of `AccountDeletion` do. The parts of a
composed run share nothing, so a behaviour of one mode is a behaviour of that
part. Symmetry is used in safety runs alone, over sets whose members nothing
tells apart.

### The violated properties

Each states a sentence of the repository and fails by what the code does.

1. `DeletionOutlivesTheSession` (docs/account-deletion-operations.md:3). An
   invocation killed after `deleteAuthUser` and before it records
   `auth_deleted` leaves a request in phase `requested`, which the worker does
   not claim; only the owner, whose Auth user is gone, could go on.
2. `LeaseReleasedByHolder` (docs/account-deletion-operations.md:23). A release
   is matched by the attempt count, which a resumable release sets to 0, so a
   late worker's count can equal that of a new lease.
3. `DeliveredAsOwner` (docs/offline-and-concurrency.md:20). When the session of
   another account replaces the present one, a running send uses the new
   account's token.
4. `BlockLocksPair` (the comment before `block_user`). A swipe locks the hash
   of the two ids with nothing between them, a block that of the ids with a
   colon, so they run side by side and a match whose swipe is uncommitted
   survives the block. For this reason `MutualMeansMatched` speaks of pairs in
   which nobody has blocked: the same race lets likes survive a block.
5. `RemovalRevokes` (docs/push-real-device-matrix.md:29). A sign-out waits once
   for a running registration, then reads, revokes and removes the stored
   record with an await at each step. A registration that begins in between
   binds the token again after the revoke, and the removal deletes the only
   record that could revoke it. `MCClient` has the same actions and does not
   assert the property.

### Seen while modelling

The models have these behaviours too; no run asserts the contrary, either
because no sentence of the repository does, or because the property was stated
so that it leaves them out.

- Push is at least once: a POST that timed out may have been accepted
  (`expoHttp.ts:74`), and a death before the upsert of the tickets
  (`push-dispatch/index.ts:406`) sends the chunk again. A late
  DeviceNotRegistered disables a token the same device has registered again.
- The outbox drops its oldest message when it is full (`chatOutbox.ts:57`); a
  message cancelled while a flush holds it in its snapshot is still sent
  (`chatOutbox.ts:228`); a message written before leaving a room is sent when
  the user has joined again.
- The success of a join or leave updates the cached event for whoever looks at
  it when the answer comes (`useEventDetailController.ts:61`): for the account
  that has signed in since, and over the leave of a second screen. The fetch
  that it starts puts this right, unless it fails (`sure`, `alone`).
- The answer of a photo replacement that was done is lost: its rollback deletes
  objects that the profile now names (`profileService.ts:499`; `lost`).
- A `setSession` that awaits writes the session it began with over whatever was
  reported since (`sessionStore.ts:150`): over a loss, another account, or a
  recovery, whose screen it leaves. It is over with the next report (`late`).
- A load that is in flight writes the caches after the cleanup
  (`eventService.ts:206` against the clear at 345; `spilled`), against
  docs/offline-and-concurrency.md:33.
- A lost answer of the sign-up clears both records although the account exists
  (`SignUpReviewScreen.tsx:86`), and so does a second sign-up that was begun
  after going back and fails beside the first: it clears the record of the
  account just created (`alone` is then false). The draft is preferred to the
  stored record (`registrationService.ts:66`).
- A message stored between the first fetch of a room and the join of its channel
  is not shown until something else arrives or the screen is opened again
  (`useRoomRealtime.ts:71`, 114; `missed`).
- Nothing runs the navigator's effect again when the container becomes ready
  after the phase has changed (`AppliedWhenReady` of `Navigation`, from
  docs/device-matrix.md:27, is checked by no run).
- The function's `nextSkip` counts mapped events only, so after an event that
  cannot be mapped a page is read again (`etkinlik-api/index.ts:342`; `Bad`),
  and a feed that falls back to RSS in the middle continues with an offset of
  another list (`eventService.ts:284`; `rss`).
- A full public feed with an item that cannot be read looks short and is not
  split (`rssEventService.ts:702`; `LooksShort`); clearing the cache during a
  request lets the old answer fill it again (`rssEventService.ts:652`).
- The visibility switch cancels the fetch that an earlier invalidation started
  (`ProfileVisibilityScreen.tsx:52`), the hub's activation leaves the settings
  query alone (`MatchHubScreen.tsx:46`), and a form whose later step fails
  keeps its earlier ones without invalidating (`MatchProfileEditScreen.tsx:142`;
  all `missed`).
- `boundedJson.ts:34` leaves the body of a refused response unread (`freed` is
  asserted of the retried GET only), and a reader whose cancellation fails
  hides the refusal (`delete-account/handler.ts:147`).
- The artifacts of `mobile_ci` and `database` are not bound to a run's attempt
  (`apply-evidence-claims.mjs:1361`); `Bound` lists those that are.

## 4. Fairness

- *Deletion.* The cron job calls the worker every minute: weak fairness on a
  claim, on each step of an invocation that runs, on the expiry of leases and
  waits. The owner need not retry, and invocations may die at any call.
- *Dispatch.* Weak fairness on the cron's claim, on each step of a task and on
  the passing of time; Expo may always fail.
- *Receipts.* Weak fairness on the claim, strong fairness on asking Expo and on
  recording. A claim uses up no check, so an invocation that always dies
  between claim and record retries for ever: strong fairness says it does not
  always die there.
- *Chat outbox.* Only a foreground or network event starts a flush and nothing
  wakes it at `nextAttemptAt`; `MessageSettles` assumes that the user comes
  back again and again, and is stated up to deaths, which are bounded.

The screens have no liveness properties: what they promise is stated of the
moments at which nothing is under way, and whether such a moment comes is the
network's.

## 5. Proofs

`AccountDeletion_proofs` proves for every number of requests, devices, workers,
photos, page sizes and budgets that satisfies `DeletionConstants`: `TypeCorrect`,
`ErasureSafe` (`CompletedMeansErased`), `Reachable` (`NeverStranded`),
`Implements` (`ImplementsErasure`), `StepsForward` (`PhaseStepsForward`) and
`TerminalStays` (`TerminalIsFinal`).

`CompletedMeansErased` is not inductive: whether it survives the last advance
depends on what an invocation has learned several awaits ago. `ErasureInv`
adds that knowledge. For every invocation, `KnowledgeInv` says that its row has
reached at least the phase it saw, that one about to advance knows the Auth
user to be gone, that every photo up to its cursor is gone or on the page it
is about to remove, and that one about to complete knows the bucket to be
empty. No other invocation can undo this: rows only move forward
(`PhaseRank` grows), and the upload policy refuses photos once a request
exists. `ReachInv` adds to `NeverStranded` that rows not yet active have used
no attempt. `RefineStep` maps each action to a step or a stutter of
`AccountErasure` under the invariant.

`MCServer_proofs` is about the server's functions. The first part is the outbox
with its dispatchers, receipt workers and operators, for every number of each
and every limit (`DispatchConstants`, `ReceiptConstants`):

| Theorem | States |
|---|---|
| `OutboxTypes` | `Spec => [](OutboxTypeOK /\ ReceiptTypeOK)` |
| `OneTask` | `Spec => []OneTaskPerEvent` |
| `SentTicket` | `Spec => []SentHasTicket` |
| `NotResent` | `Spec => TicketedNotResent` |
| `Keeps` | without overlap, `Spec => KeepsLedger`: the refinement of `ReceiptLedger` and the rejection of late workers |
| `IsOutbox` | `ServerSpec => Spec`: the theorems above hold of the server that the run checks |

They rest on `PushInv`. `RowInv` ties the columns of a delivery: it has a ticket
exactly when it has a receipt, none has used a check without one, and an open
receipt has a check left (so the claim's repair finds nothing). `TaskInv` says
that two tasks of one event are one, that the event of a running task cannot be
claimed (`Taken`), and what the task `Knows` between two awaits: what it has
still to send has no ticket, and what it counts as accepted has one or gets it
with the next upsert. `TaskKeeps` shows once that a step of one task leaves the
knowledge of all others alone, because they are about other events. The
refinement maps the upsert to `Issue` of the rows that had no receipt (that is
`Knows` and `RowInv`), the replay to `Withdraw` of the failures among the rows
it resets, a recorded result to `Check`, and everything else to a stutter.

The second part is the rest of the run, for any number of events, runs,
isolates and bodies, any page sizes, lifetimes and limits (`ServerConstants`):

- `Commits` (`RunCommits`). The property speaks of one transaction, but whether
  it catches up depends on all that its run did before. `PagedInv`: what a run
  has met and could map it has read in its present version, or finds behind its
  offset (`Behind`): a change or a new event only moves others back, and a run
  over which one has left the list is `shrunk`. `ReadInv` and `StoredInv` are
  about overlapping runs: what a run that began no earlier has read, or stored
  with a later stamp, is up to date, so a commit that keeps a newer row keeps
  the right one. `VersionInv` and `StampInv` bound all versions and stamps by
  the clock; with dated events the stamp is the version, hence `NeverBack`.
- `FeedsWhole` (`FeedWhole`). `CacheInv`: an answer that is younger than the last
  change of the list is what the provider would answer now; `WalkInv`: over a
  list that was still for a cache's lifetime before the feed was opened, what
  the feed shows is the list up to its cursor. Caches of different instances
  may then differ in age, and their pages still fit together.
- `ReadsBodies` (`BodyRead`). `HttpInv`: between two chunks the decoder is in the
  state that the bytes read so far give, wherever they were cut.
  `DecodedPrefix` says that state in terms of the bytes alone, `DecodedOn` that
  a chunk continues it, `BadStaysBad` that no later chunk repairs it, so a
  reader that fails at a cut character fails a body that is unsound.
- `ServerTypes` (`ServerTypeOK`) puts the types together: those of the outbox
  by `IsOutbox`, those of `IngestInv`, and what `ApiInv` and `HttpInv` do not
  need for their properties. `ApiSides`: a cached answer has a page at the most,
  and a feed shows events of the provider however the list changes while it is
  read, also where `mapEvent` drops some of a page (`ChosenAre`: the chosen
  places of a list are a list, whose k-th element exists because counting the
  chosen places up to each is a bijection). `HttpSides`: the attempts stay within
  their number because a reader sleeps only where one is left.

`MCPair_proofs` proves all the properties of `MCPair`. Its first part is about
`Matching`, for every number of events and connections (`MatchingConstants`: there are two users):
`TypeCorrect`, `MutualMatched`, `OneMatch`, `WithdrawnStays`, `SendsActive`. An open
transaction acts on what it read some statements ago, so `MatchInv` says for
each call what still holds of it: `LikeKnows` (it has the swipes' lock, its user
has no like yet, the pair no match, and the other user's like, if there is one,
makes it a match), `ChangeKnows`, `EndKnows` (while its match is active it will
delete all the likes of that event). `MatchHasLike` links the tables. Calls that
have not committed change only their own record, which `QuietStep` treats once;
`CommitSound` shows that a commit leaves the knowledge of every other
transaction true, because the committer has neither its lock nor its rows.

Its second part is about `ChatOutbox`, for any number of messages, attempts,
deaths and changes of the session, any room in the storage, and the pair's two
users as the accounts of the phone (nothing in it counts them):

- `QueuedIsReadable` (`KeptIsReadable`). An operation's keychain calls are one
  round (a read that repairs or forgets, or a write) or two. A round is
  `Plain` or `Backed`; `PlainCalls` and `BackedCalls` say what is on the disk
  when it was cut anywhere and its last write maybe torn, `DiesInOne` and
  `FirstOfBoth` that a death in two rounds is one in the first, or one in the
  second after all of the first. From these, `Performs` and `Crashes` say what
  an operation keeps: unless it gives a message up, a message that could be
  read before can be read after it, and nothing comes back that was on neither
  key. `KeptStored` puts a kept message under the key that is read first, and
  lets only messages expire whose screen is done with them.
- `LogoutEndsReplay` (`PurgedNotReplayed`). `CalledSealed`: a message of before a
  sign-out that is still on some key, or still queued, has a purge of its
  owner behind it in the queue; a flush that was not cancelled does not hold
  it, and one that waits for the list will not find it. `NoPurgeWaits`: no
  purge is pending while somebody is signed in, so no flush starts between.
  `QueuePlaced` and `QueueApart` say whose continuation each queued operation
  is: the enqueue of a screen that waits for it, or the one of a flush.

The types are part of both (`ChatTypes`, `SideTypes`). What the code filters is
written by positions (`Filtered`, counted by the facts on cardinalities:
`FilteredAre`), and what a sequence of writes leaves by the last one to each
key (`LastDecides`), so that neither needs induction over a list.

`ClientSession_proofs` is about the session's store and the phone's push
registration, for every number of users, tokens and calls. `TypeCorrect` and
`NobodyWaitsForGood` (`AwaitedRuns`), `SignedIn` (`SignedInIsAuth`), `SignedOut`
(`SignedOutClean`) and `RecoveryEnds` (`RecoveryHolds`) hold for all orders of
reports and any number of calls side by side. `PromiseInv` says that the kept
promise, and each promise that a call waits on, is held by a registration that
is still running, and `Settle` is the only way for it to give the promise up.
`ShownInv` is about the store. `StoreInv`: a set that was not overtaken is for
the account of the auth client, and a store that shows another account was
written late, or has on its way a call that will put it right. `CleanInv`: what
the caches hold without a session is of a load that spilled, or a call that
clears is on its way.

`ReleaseEvidence_proofs` proves `TypeCorrect` and `Backing` (`VerifiedIsBacked`) for
any set of prerequisite workflows and any number of reruns. A claim is made of
documents that were read, maybe several reruns ago: `RunsInv` remembers every
attempt that has passed, `ReadInv` says that whatever was collected, downloaded
or found is listed by such an attempt, and `ClaimInv` that only claims backed
by it reach the manifest.

`MCClient_proofs` proves, for the instances of `MCClient`:

- `TapOpensOnce` (`OpensOnce`). The hook's callbacks run one after another on a
  record; `HookInv` says that the waiting response has been handled and not
  opened, and that what was not handled was not opened, so opening and
  clearing in one callback opens it once.
- `RegistrationKeeps` (`RegistrationKept`) for any addresses, restarts, links,
  sign-ins and creations that overlap. `FinalInv` says what a finalization holds
  between two awaits, `CreateInv` and `Followed` what a creation that is alone
  has written, `LatestInv` that the record of the last account waits for its
  finalization. A creation is `alone` while no other creation runs beside it and
  no finalization of an older address reads during it; the photos are followed
  of such a creation only, for the catch of another may clear its record.
- `StoredIsShown` (`ShownIsStored`). Every field of a cached page that differs
  from what is stored is `Covered`: some mutation in flight will roll it back,
  invalidate it or mark it as missed, and so will the answer of a fetch.
- `ClientTypes` (`ClientTypeOK`).

`MCScreens_proofs` proves, for `ConversationPresence` and the instances of
`MCScreens`:

- `PresenceTypes` and `OneChannelServes` (`OneChannel`) for every number of
  consumers and accounts: every change of a controller's count goes with the
  same change of the set of its holders (`CountIsHolders`, by the library's
  facts on finite cardinalities), a holder's controller has been made
  (`MadeBefore`), and an open one is in the map or is the one being removed
  (`OneOpen`).
- `BadgeIsRight` (`BadgeSettles`). `BadgeInv` adds that an answer that is under
  way is not above what is unread unless the list still has news to come.
- `PhotosAreKept` (`PhotosKept`). `CleanupsInv`: only the first cleanup deletes,
  and what it deletes is on the disk's list or known not to be; `FreshInv`: an
  upload's objects are neither named nor marked; `NamedInv`: what an edit keeps
  is named until its replacement is done; `KnownInv`: what no row names is
  marked, in the hands of the operation, or lost by a death the code accepts.
- `NoneIsSkipped` (`NoCardSkipped`). `PagesInv` keeps the pages in the server's
  order, also those of an answer that continues them; `CardsInv` allows one
  undecided card before the top, while the deck's own swipe is under way.
- `ThreadCatches` (`ThreadCatchesUp`) for any messages, page size and number of
  visits, whenever the channel joins. While no row was stored unheard and no fetch
  was joined, cut off, failed or left out, `CatchInv` says that the answer under way is new as well:
  a first page is `Newest`, and the page that follows the last row lies
  `Behind` what is shown, whose rows the server still has (`Known`; no row is
  stored twice). The proof attempt corrected the model: `Older` looked for the
  row after the last one outside the sequence that it searches.

`MCScreensFeed_proofs` proves, for two more instances:

- `JoinsSettle` (`SettledJoined`) for any number of accounts and calls. `FeedInv`
  says where a call of each kind can be, that whoever waits for sync-event
  waits for a promise under way, that a card tells for whom it speaks only
  once the event has its row (`LinkInv`), and that only the viewer's calls are
  live. What the database has answered is then what is stored, or a join or
  leave whose answer is on its way is about to say so (`JoinedInv`). A step
  that moves, cancels or begins calls is `QuietStep`'s; only the commit, its
  answer, sync-event and the accounts need more. The first attempt failed for a
  reason beyond the run's bounds: the success of a join updates the detail
  whoever looks at it then (`useEventDetailController.ts:61`), also when
  another account has signed in, or when a second screen has left the event in
  between, and if the fetch that follows fails, the card stays wrong. The
  property leaves these histories out (`alone`, `sure`; see section 3).
- `FeedsAreFetched` (`FeedsFetched`) for any limit, chunk size, number of loads
  and of events. `GapFree`: unless a request failed, what a load has asked for
  has come or is awaited, the feeds of its kind are asked for or still in
  `todo`, and so are the parts of every full feed once it splits them;
  `RequestsInv`: a load awaits its own requests until they end, and awaits the
  catalog alone. That a feed leaves an event out only when it is full is
  counted (`TopCount`: of more than `n` numbers, `n` have fewer than `n` above
  them), and that an event's own part is among the parts of such a feed is
  `OwnParts`. The proof needs finite sets of events, formats and categories.
  `FetchSides` adds what `RssTypeOK` says of the requests: an answer that is
  awaited is under way, whoever asked for it, and is one of a feed that the load
  has asked for; a request can be joined only while it is under way; and an
  attempt that sleeps was not the last one.

`ScreenTypes` (`ScreensTypeOK`), in `MCScreens_proofs`, which extends the other
module, puts the invariants of the seven screens together (`ScreensInv`).

Only model-checked: `EvidenceExtracts` and all liveness. Out of the prover's
reach altogether are liveness under fairness, ENABLED, and induction over data
(the library's induction theorems take operators as arguments). No module uses a
RECURSIVE operator, so none of them is closed to proofs; but `EvidenceZip` folds
over sequences, and what a fold comes to needs that induction.

## 6. Bounds of the data

What a definition abstracts is data the properties do not tell apart: texts,
channels, digests and identities are members of small sets, a set of at least
three photos is a number, a body's bytes are of three kinds, an event of the
provider is its version and whether it can be mapped. Time is a flag (a lease
has expired, a backoff has passed) or, where ages are compared, a small clock.

## 7. Not modelled

- Moderation (20260830120000): reports run one after another under their
  reporter's advisory lock and the transitions of a case under its row lock,
  with a stored answer per request id; nothing interleaves.
- The swipe quota's windows and rewards: rows of one user under that user's
  lock; in `Matching` a reason of `Abort`, in `MatchDeck` what the app sees.
- Rate limits, request validation and cryptographic checks only refuse.
- The fields of forms, layout, navigation between tabs, Android channels, image
  picking and compression; query persistence (the library's); the premium
  filters, which a constant switches off.
- The parsing of the feeds' XML and of an event's page; `detailRequests` of
  `rssEventService.ts` (an aborted promise stays in it).
- Keychain operations that reject: `runLocalCleanup` (`sessionStore.ts:45`) would
  swallow a failed purge.
- The connection of a chat's channel dropping once it has joined, and its rejoin.
- In `ProfileForms` the order in which one save writes its parts; in
  `ProfilePhotos` a sign-out during a replacement; in `MatchDeck` a refetch in the
  background (reconnect, focus) that replaces the deck under the position:
  `whole` leaves it out, and it does pass a card over.
- In `RssFetch` what is published does not change, so a copy that the cache keeps
  for ten minutes equals the feed, and a failed attempt is over at once, although
  the code throws without cancelling the body (`network.ts:82`, 98;
  `rssEventService.ts:128`).
- In `ReleaseEvidence` the jobs that make one artifact group are one job (`build`,
  `signed`), so mixed attempts inside it do not occur; a dirty working tree
  (`generate-evidence-manifest.mjs:195`) is left out, and a manual gate is backed
  by its claim alone.
- Telemetry, load tests and the remaining scripts: sequential programs that read
  files and report.

What would come next: the quota as a module of its own; a run of its own for `AppliedWhenReady`.
