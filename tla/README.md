# Verification of ryu-social

ryu-social is a sidecar that writes social posts once and publishes them to several
connected accounts: drafts, a scheduled queue with a crash-safe publish runner, an
inbox of inbound engagement, a media library with chunked imports, analytics, and the
shared crates it stands on (sealing at rest, key custody, egress, app events). This
directory holds TLA+ models of the parts where order, failure and concurrency decide
correctness, the TLC configurations that check them, and the TLAPS proofs.

Paths below are relative to `src/backend/src/` unless they begin with `crates/`; files named
alone in the sections on keys and sealing are in `crates/core/crypto/src/`.

## 1. The system

One process, one tokio runtime. All rows are in one SQLite file behind **one
connection inside an async mutex** (`store.rs`): a store function runs without
interruption, and between two store calls anything may happen. Two statements of one
function outside a transaction can be separated by a crash, and by nothing else. That
rule decides what is one action below and what is two. Handlers (axum) are dropped at any await when
the client hangs up; the background tasks (`spawn_scheduler`, `spawn_poller`,
the import reaper) are not.

| Component | State it keeps | Operations | What makes it hard, and correct |
|---|---|---|---|
| Publish queue store (`store.rs`) | `scheduled_posts`, `post_targets`, `post_history`, accounts | create, sweep, claim, claim a leg, settle, reap, cancel, retry, delete | guarded updates against every other actor; a status change outside `can_transition_to` must be impossible |
| Scheduler (`scheduler.rs`) | its place in a tick; nothing persisted | boot recovery, reap, sweep, drain, batch | recovery acts on an old listing; one run must not stop the tick; nothing due may be forgotten |
| Publish runner (`publish/`) | a snapshot of the legs, the leg in hand, attempts, the verdict | load, claim, call, record, settle, announce | a success that was not recorded; stale snapshots; leases; **no second copy of what is on record** |
| Post and account API (`api/posts.rs`, `api/workspaces.rs`) | a handler's locals | create, reschedule, publish-now, cancel, retry, delete, remove account | resolve-then-insert; every request races the run |
| Agent grants (`api/drafts.rs`, `api/auth.rs`, `store.rs`) | `agent_grant` column, sealed; edits under way | edit of a draft, request on a post, the run's two reads, restart without key | two store calls on each side: an agent's text must not go out with a person's access |
| Inbox (`inbox/mod.rs`, `api/inbox_routes.rs`) | inbox rows; a pass's lists in memory | poll, refresh, reply, mark | concurrent passes over one unique index; insert, then event; reply, then mark |
| Media imports (`media_import.rs`, `api/setup.rs`, `api/library.rs`) | sessions in memory, files on disk, library rows, drafts that refer to them | start, append, finish, abort, reap, register, delete | disk, hasher and counter move apart; the mutex is given back before the file is placed; references are checked before the file goes |
| Engagement and analytics (`analytics.rs`) | activity snapshots | refresh one, refresh batch, rollups | two refreshes of one post may write out of order; a pass may pay for what it need not read |
| Workspaces, drafts, templates (`store.rs`, `templates.rs`, `api/auth.rs`) | plain rows, the owner of the default workspace, the marker of the starters | CRUD, claim, seed; cascading workspace deletion | work under way outlives the deletion; a deleted starter must not return |
| Settings (`settings.rs`) | node row, workspace rows, sealed credentials | partial updates, normalization at boot, policy | read–modify–write of a whole row, under a key that may be missing |
| Calendar, timing, queue view (`scheduler.rs`, `queue.rs`) | none | slot and zone arithmetic, listings | clocks that jump; ties broken by the order of a map |
| Providers (`providers/`) | capability cache, a Bluesky session, uploads in progress | publish, fetch, reply | a thread is several records; an answer may be lost and a request land late; a cached answer may be old |
| Sealed columns (`crates/core/crypto/src/content_sqlite.rs`) | key record, progress cursor, scrub debt | migrate, check, reset, finish, vacuum | a crash between any two commits; no freed plaintext may be left when the store says it is clean |
| Master-key custody (`custody.rs` and neighbours in `crates/core/crypto/src/`) | key files, keychain entries, check values | choose, adopt, retire | a crash between two writes must leave every value openable |
| Process and satellite keys (`process_keys.rs`, `plugin_keys/`) | the key a process holds | request, hold, seal a store | writing under the wrong key |
| Sealed files and logs (`sealed_file.rs`, `sealed_log.rs`) | files | seal, read, append, sync, reopen, cut, compact | a torn tail is not a committed record; the plaintext goes only for a whole copy |
| Vector index (`vector_index.rs`) | partitions of vectors under a shared budget | hydrate, upsert, remove, evict, search, collect | the budget across indexes; what was evicted must be reported |
| App events (`crates/core/app-events/`) | the bytes of a model stream not yet read | open, read, split into frames | chunks cut anywhere |
| Ciphers, egress, sidecar runtime, release scripts | little or none | pure functions, one-shot I/O | covered by their own vectors and tests |

How they meet: handlers and the scheduler share only the store; the runner reads the
draft and the grant at load and calls a provider; the runner and the inbox emit app
events to Core (one HTTP call, never repeated); media paths in drafts tie the library
to the imports; accounts tie workspaces to the queue and to the inbox; every sealed
column depends on the key the process was given.

`PROJECT.json` lists every component with its status, and under `hazards` the places,
each at its line, where the code is hard to test.

## 2. The modules

| Module | Models | Run |
|---|---|---|
| `QueueStore` | the three tables of the queue and every statement that writes them, as operators | |
| `PublishQueue` | scheduler, runners, handlers, platforms, time, faults; one action per await | `QueueSafety`, `QueueLiveness`, `QueueStranded` |
| `PublishQueueInv`, `PublishQueueProofs` | the inductive invariant `IInv`; theorems | |
| `DeliveryContract` | the abstract promise about one leg (`Contract` in `PublishQueue`) | |
| `TickPolicy` | the loop around the tick: settings of several workspaces, policy, drain | `TickPolicy`, `HeldPublished` |
| `AgentGrant` | who an agent's text is published as | `Providers` |
| `BlueskyThread`, `ManagedThread`, `StagedUpload` | one publish through a provider, call by call | `Providers` |
| `ProviderRegistry` | the capability cache | `Providers` |
| `ModelStream` | a streamed answer of the host | `Providers` |
| `ProviderParts`, `ProviderProofs` | the composition of the five before; theorems about each and about `AgentGrant` | `Providers` |
| `Inbox`, `InboxProofs` | passes, events, replies | `Inbox` |
| `MediaImport`, `MediaProofs` | sessions, files, quota, library references; theorems | `MediaImport` |
| `Workspaces` | workspaces, what they own, their owner, their starters | `Node` |
| `NodeSettings` | the settings row and its credential | `Node` |
| `Engagement` | snapshots, the refresher and requests | `Node` |
| `Timing` | zones, slots, recommendations | `Node` |
| `NodeParts`, `NodeProofs` | the composition of the four before; theorems about them and about `TickPolicy` | `Node` |
| `SealedStore`, `SealedStoreProofs` | sealing a SQLite store, its key record and its scrub debt | `SealedStore` |
| `KeyCustody`, `KeyCustodyProofs` | the master key of a folder, its record and its predecessors | `KeyCustody` |
| `AppKey` | the key of a process that is not Core | `SealedFiles` |
| `ScopedKeys` | which key a process seals with, and what it opens | `SealedFiles` |
| `SealedFile`, `SealedLog` | sealed files and logs on disk | `SealedFiles` |
| `VectorIndex` | partitions under one budget | `SealedFiles` |
| `SealedFileParts`, `SealedFilesProofs` | the composition of the five before; theorems | `SealedFiles` |

`ProviderParts`, `NodeParts` and `SealedFileParts` hold several components that share no state: the
variable `which` says whose behaviour this one is, and the variables of the others keep their initial
values. TLC so explores the sum of the components' states and not their product, which would show
nothing more; and since a behaviour of the composition is one of each part that mostly stutters, what is
proved of it is proved of the part. Interacting components are not put together this way: they share a
module. An `MC*` module gives the constants their values with its `.cfg`, narrows the initial states where
only one part needs many, and asks TLC to evaluate the assumptions of the parts. In each component module a
definition marked *Faulty form* is not part of the model: it is the mistake a property
is checked to catch, and stands just before the definition it would replace.

### The queue (`QueueStore`, `PublishQueue`)

A *leg* is a row of `post_targets`: one post to one account. `post`, `target` and
`lease` are the status columns and `claimed_at` ("none", "fresh", "stale"); `pubRows`
counts the published rows of `post_history`, `failRows` says whether there is a failed
one; `connected` is the accounts with a row. The status machine is the one of
`models.rs`:

    scheduled -> due -> publishing -> published | partial | failed
    publishing -> due (recovery)   partial | failed -> due (retry)

| Actions | Code |
|---|---|
| `CreateResolve`, `CreateInsert` | `create_post`: accounts resolved in calls of their own, rows inserted in a later transaction |
| `PublishNow`, `PatchPost`, `Cancel`, `Retry`, `Delete`, `RemoveAccount` | one store function each |
| `BootReap` … `BootRepair` | `recover_orphaned_work`: claims cleared, posts returned, one listing, then one write per post |
| reap, sweep and drain of a tick, `RunClaim` | `tick`, `run_batch`: up to `MaxConcurrent` runners, awaited together |
| `RunLoad`, `RunLeg`, `RunLegStep` | `run_post`, `run_target`, `attempt_publish`: claim, history check, provider call, history row, settle |
| `RunReadLegs`, `RunSettlePost`, `RunEmit` | `settle_post`: aggregate read, guarded write, event |
| `Heartbeat`, `Expire`, `Arrive` | lease renewal; a lease grows stale; a scheduled time arrives |
| `RunFails`, `SchedFails`, `Crash`, `Restart` | a store call returns `Err` at a place of `FaultPoints`; the process dies and Core respawns it |

The provider is external and modelled from how `attempt.rs` uses it: it accepts, refuses,
or does not answer in time, and for a leg in `Ambiguous` may have published all the
same (`unsure`); for a leg in `Idempotent` a second call under the same key makes no
second copy. `remote` counts copies up to 2 ("several").

Left out: message texts and request content, the platforms' limits, the metadata
columns. Every workspace has its scheduler on (`TickPolicy` has the switch); the order of legs in a run and of posts
in a batch is left open, so the code's order is one of those explored. A lease may
grow stale at any time, which is more than the lease arithmetic allows; for safety that
includes every value the settings can take.

### Who a post is published as (`AgentGrant`)

The posts of one draft, agents and people. `patch_draft` by an agent first records its
grant on every unpublished post and then rewrites the draft, in two store calls;
`run_post` reads the draft and then the grant, in two others. `latest` remembers per post and agent how
the recorded actor relates to that agent's last edit: "own", "before" or "after".
`Restart` comes with or without the sealing key; an older version may have left grants in the
clear, and the pass of a start that seals them may fail, after which the process serves all
the same. `clean`, that some pass went through, is bookkeeping. Cancelled posts and a verdict per run close the life cycle; the queue's own
detail is in `PublishQueue`.

### Media imports (`MediaImport`)

`start`, `append`, `abort` and the reaper hold the session mutex for their whole body
and are one action each, each with the pruning it begins with. `finish` takes the session out of the
map (`FinishTake`), then verifies and moves the file, writes the metadata text beside it and registers it, without the mutex
(`FinishDiscard`, `FinishPlace`, `FinishDescribe`, `FinishRow`). The text counts against the quota from then on, as
`finished_import_bytes` walks the directory, but nothing was reserved for it: `DiskAccounted` states by how much the folder
passes its quota (section 6). `AppendTorn` is an append that ends
between the write and the counter: flush error, or handler dropped at that await.
`delete_media` decides in the store (`DeleteMedia`) and removes on disk (`RemoveFile`).
A chunk is one unit, named by its offset; a metadata text has a size in the same unit, and one that a crash cut short has
a smaller one. File names and types are left out.

### The inbox (`Inbox`)

A pass lists the accounts once (`Listed`), reads one (`Read`), stores item by item
(`Stored`, `StoreFails`), and after the last account announces every new row
(`Announced`). The poller's pass is ended only by a crash, a handler's by its client
too (`HungUp`). A reply reads the row, calls the provider and marks (`Replied`, `Sent`,
`Refused`, `Marked`, `ReplyCutOff`). `inserted`, `events`, `cutOff` and `failed` are
bookkeeping of the model, and balance in `EachNewRowOnce`. Left out: the read flag,
author, text and time of an item; whether a platform took a reply it answered with an error.

### The sealed store (`SealedStore`)

One store of sealed columns, and the process that opens it with a key. `satellite` says
which caller of `content_sqlite.rs` it is: `open_store` (`plugin_keys/sql.rs`), which resets
only finished items that hold plaintext again, or a caller that does what the comment on
`StoreKeyState` asks for and `process_keys.rs` tests, resetting every item of a store recorded under a
retired root. Each action is at most one commit, and `Crash` may come between any two.

| Actions | Code |
|---|---|
| `Start` | `check_store_key`, `record_store_kcv` on first use |
| `Checkpoint`, `Scrub`, `Vacuum`, `Confirm`, `SettleFails` | `run_pending_vacuum` before the migration (`settling` is "debt") and `finish_store` after it ("migration"); each step may be blocked by a reader, refused for lack of room, or fail |
| `Reopen` | `reopen_plaintext_items`; `reset_items` for the other caller |
| `Skip`, `Begin`, `Batch`, `Walked`, `Migrated` | `migrate_columns`: debt and start of an item in one transaction, batches behind a committed cursor, the end of an item, the move of the record |
| `Serve`, `Write` | the open store and a write through `ryu_seal` |
| `KeylessOpen`, `Refresh`, `KeylessWrite`, `CheckedWrite` | a process without a key in compat mode: `refresh_compat` before its write and outside the transaction, `ensure_compat_write` inside |
| `Adopt`, `Upgrade`, `DayPasses` | custody moves to a new root; a version that seals one more column; the daily limit on attempts to vacuum |

A value is abstracted to the root it is sealed under. Roots are numbered in the order they are
adopted, a process holds its own and every earlier one, and `Lost` is a root nobody
holds. `traces` is where SQLite may still keep old plaintext: frames of the WAL, freed
pages, the slack of pages in use. SQLite itself is external and modelled from what
the code relies on: a truncating checkpoint empties the WAL, zero blobs take the free
pages, `VACUUM` rewrites the file through the WAL. `survived` is bookkeeping: how many
starts a plaintext value has lived through. Left out: a store recorded under a root the
process does not hold (refused before anything is written), the queue of compactions
deferred until after boot, `sealed_message` samples, kinds of values and formats of
sealed records.

### The round of the scheduler (`TickPolicy`)

`PublishQueue` has one tick in every detail; here the loop around it serves several workspaces
and a post is one thing. A round reads the settings of each workspace in a store call of its own
(`ReadBegins`, `ReadSettings`; `ListFails`, `ReadFails`), merges them (`MergePolicy`: the union
of the enabled, the longest lease), and reaps, claims, drains and runs with that policy while
requests change the settings (`PutSettings`) and publish at once (`PublishNow`). The lease is the
arithmetic of the code (`WorstCase`, `Backoff`, `Lease`) in milliseconds, with the code's own
constants. `wasOn` and `blind` are bookkeeping: who was enabled at some time since
the round began, and whose settings it could not read.

### Publishing through a provider

`BlueskyThread`: a thread is one record per segment under a key made of post and place
(`SegmentKey`), each a reply to the one before (`RootOf`, `Begin`). `Created`, `Unanswered`,
`ProbeFinds` and `ProbeFails` are what a create can come back with and the probe that follows
an uncertain answer; `DeadlineElapses` and `Crash` cut a publish off, `LateArrival` carries out a request that was given
up on, `StartRun` is the next run, with the draft that `Edit` left. `ManagedThread` is the same for Treg
(a segment per call, a key per segment) and Composio (one call, no key the platform
honours), with the provider chosen anew for every run. In both the deadline bounds a
publish and not a request already on the wire.

A record that the user deletes on the platform is left out. A retry would make it again under its key, with
a new cid, while the replies that were sent before keep their reference to the old one (`bluesky.rs:487`): `ThreadKept` is about
failures, retries and edits, not about that.

`StagedUpload`: one video that is measured, hashed, given a slot, stored and published (`Measure`
… `Execute`) from a file that others may rewrite at any time (`Rewrite`).

`ProviderRegistry`: a lookup takes the time, reads the cache, asks with no lock held, and stores
the answer (`Start`, `Look`, `Ask`, `Store`); lookups overlap.

`ModelStream`: `Open` is the request and its checks, `Chunk` the next bytes cut anywhere, `Frame` a
frame taken off the buffer, `BodyOver` the end of the body. The line is the unit, and the
newline a byte of its own, so that a chunk may end inside the delimiter of two frames.

### Workspaces, settings, snapshots, slots

`Workspaces`: the gate of a route and the handler behind it are steps apart (`Request`, `Insert`, `DeleteWorkspace`),
`Claims` is the claim of the default workspace by the first caller, and `SeedCheck`, `SeedOne`,
`SeedMark` are the seed of the starters with its marker. `NodeSettings`: `PatchLoad` and
`PatchSave` are the two store calls of a request, `Start` and `Normalize` the boot, with or
without the key; `Loads` is what a row reads as. `Engagement`: a pass walks the history
(`Scan`) and refreshes what is old; it and a request make the call, look up the text, and write
(`CallReturns`, `ResolveText`, `Upsert`). `Timing` is arithmetic: `NextOccurrence` through a zone's
shifts, and the recommender's samples, buckets and fallbacks. Its time is in hours and its days are short,
since only the order of instants and the jumps of the clock matter.

### Keys (`KeyCustody`, `AppKey`, `ScopedKeys`)

| Actions of `KeyCustody` | Code |
|---|---|
| `Begin`, `FoundInChain`, `FoundInFile`, `AdoptExisting`, `Generate`, `LadderRefuses`, `Store`, `Verify`, `Publish` | `load_master_key_guarded` (`lib.rs`), each read and write a step |
| `Refused`, `Matches`, `Mismatch`, `Unrecorded` | `resolve`: the key against the record, the probe, the repair |
| `Retire`, `Index`, `AllRetired`, `Record` | `retire_with`, the index of retired keys, `write_kcv_record` |
| `Adopt`, `Import`, `RetireCommand`, `Install`, `Confirm`, `Place`, `Unslot` | the operator's commands, Core stopped |
| `Seal`, `Stop`, `ChainLoses` | data is sealed; a process dies before its next write; the keychain loses or damages its entry |

Core records what it resolves, the other process does not. A retirement reads the index, stores the key and writes the index
back whole (`read`); `RESOLVE_LOCK` is a lock of one process, so of two starts the later write drops the entry of the
earlier. `gone` names the keys whose only copy
the system lost; they are what the properties except.

`AppKey` is the same ladder with one file, resolved by several threads, with a keychain that is
locked and unlocked between any two steps. Two things of a thread are bookkeeping: `saw`, the keys that had sealed
something when its resolution began, and `crossed`, that another thread replaced the keychain's entry between its look
at the keychain and its choice; section 6 has what such a thread may do, and `AppKeysKept` excepts it. `ScopedKeys` takes the custody as given and
follows the subkeys: how threads of Core publish a resolution in once-cells (`Resolve`,
`RecordRetired`, `RecordKey`, `RecordCipher`, `ReadCells`), how a child is given its own (`Spawn`, `StartByHand`, `Fork`,
`Capture`), and what each cipher opens (`Use`, `Seal`, `Reseal`, `Legacy`). A sealed value is a
key and associated data.

### Files and the index (`SealedFile`, `SealedLog`, `VectorIndex`)

`SealedFile`: `Start`, `Copy`, `Finish`, `Verify`, `Rename` are `seal_file_in_place`, `Fails` and `Crash` end
it anywhere; `OpenReader`, `ReadRange`, `Seek`, `Read` are the reader, over a file that `DiskDamage` cuts,
alters or exchanges. `SealedLog`: the writer (`Create`, `OpenAppend`, `AppendRecord`, `AppendFails`, `Sync`), the compaction
(`CompactBegin` … `DropLog`), death of the process, loss of power, which keeps a prefix of what was not synced, and
`NewKey`. `VectorIndex`: each operation runs under one lock and is one action; `Offer` feeds the collector of a
streamed query.

## 3. The runs

Every property of a passing run has at least one mutant in `PROJECT.json`: a mapped
definition replaced by its faulty form, under which TLC finds the property violated. A property that
is a conjunction of named parts has one for most of them.

| Run | Instance | Properties, and what they show |
|---|---|---|
| `QueueSafety` | 1 post, 2 accounts, 2 attempts, 2 faults anywhere; one leg honours the key, both are ambiguous, one may not be retried blindly | `QueueConsistent`: claims, leases, ownership, verdicts, history and statuses (`IInv` is its proof); `DuplicatesOnlyFromUncertainty`, `EventTellsTheTruth`, `NeverResent`; `ImplementsContract` |
| `QueueLiveness` | 2 posts on one account, batches of 2, 1 fault | `DueIsDecided`: what came due settles or is withdrawn |
| `QueueStranded` | as `QueueSafety`, 1 fault | a disagreement of section 6 |
| `TickPolicy` | 2 workspaces, a post each, batches of 2 run one by one, 2 changes or failed reads; three settings: the defaults, the longest run under the shortest lease, and off | `HeldIsNotRun`, `LeaseOutlastsRun`, `EnabledIsRun` |
| `HeldPublished` | the same | a disagreement of section 6 |
| `Inbox` | 1 account with 2 items, poller and one requested pass, 1 replier, 1 fault | `EachNewRowOnce`; `ReplyIsMarkedTruly`, both directions; `PassesSettle`: no row is kept back, nothing returns to what was removed |
| `MediaImport` | 2 sessions in 2 workspaces, a file of 2 without a text and one of 1 with a text of 1 or 2, quota 4, 1 fault; both workspaces know the path of the first (`Knows`) | `ImportedWhole`, `DiskAccounted`, `ReferencedFileKept`; `AbandonedIsRemoved` |
| `SealedStore` | 2 columns, of 2 rows and of 1, batches of 1, 2 roots, a crash anywhere | `RowIsTrue`: ok means clean, sealed means recorded; `PlaintextIsFound`; `RecordMovesWithItsValues` |
| `KeyCustody` | 3 keys, one of them the operator's, 2 processes, a vault of 1, 2 commands or losses | `KeysKept`, `ServesTheRecord` |
| `SealedFiles` | a file to 5 bytes in chunks of 2, damaged twice; a log of 3 records with 3 faults; 2 children, or 2 racing threads; 3 indexes over a budget of 4; an app with 2 threads and 2 events | `ReadsTheTruth`, `ReplacedWhole`; `PromisedOpens`; `ResolvedWhole`, `OpensItsOwn`; `IndexKept`; `AppKeysKept` |
| `Node` | 2 workspaces, 2 handlers, 4 calls; 2 credentials, 2 keys, 4 changes; a history of 4 entries, 2 ticks; zones of 9 hours whose clocks are set once or twice, histories of 4 posts at 4 hours, under clocks that are not set or set back | `SpacesKept`; `CredentialKept`; `RefreshesHold`; `NextIsFirst`, `SlotsAreEarned` |
| `Providers` | 2 posts and 2 agents; threads of 2 and 3 segments, 2 attempts in 3 runs; five files, 3 attempts in 2 runs; 2 providers, 2 lookups; bodies of 2 frames and a loose end | `ActorKnowsTheEdit`, `GrantKept`; `ThreadKept`; `ThreadDelivered`; `OnceAsHashed`; `AnswersAreRecent`; `ChunkingIsInvisible` |

Why these bounds suffice to meet the interesting cases.

- *Queue.* Two legs make a verdict *partial* and let one leg be in flight while another is done; a third repeats the
  second, since legs of one run are visited one after the other and share only the
  aggregate. Two attempts are one retry of a call. Two faults put a crash inside a recovery from a crash. Two posts in one
  batch is the concurrency the tick has to offer between runners; the posts share no
  row, so `QueueSafety` needs only one and spends its states on faults.
- *Rounds.* One of two workspaces can be held while the other is run, a held post can precede an enabled one
  in a batch, and one change can undo another. The settings take the ends of the ranges to which
  they are clamped, where the lease is tightest.
- *Grants and threads.* Two posts show an edit that must reach all of them, two agents one overtaking the
  other. Three segments are the least at which the root and the parent of a record differ; three
  runs are a failure, a success and a late arrival between.
- *Imports, inbox.* A quota below the sum of the sizes and texts makes admission refuse, and lets a text written after the other
  session was admitted pass it; a
  size of 2 is the least at which chunks can be repeated, skipped or reordered. Two
  items are the least for a batch that fails half way, two passes the least for a race.
- *Store, keys, files.* Two rows walked one by one are the
  least for a value behind the cursor of an interrupted walk, the second column is the
  item that is finished, or planned later by an upgrade, while the first is under way,
  and two roots are one rotation. Three keys are one in use, one it
  replaced and one an operator brings; a vault of one is full after one retirement. A file of 5 bytes in chunks of 2 has a
  first, a middle and a short last chunk, one of 4 none that is short, and one of 0 only an empty one.
- *Timing.* Days of three hours, weeks of two days, nine hours: a date has an hour before and after a jump, a slot
  comes again within the time that passes, and a history of four posts has two buckets with two posts each, or one with more. The first
  post is on one of the two platforms, as they are alike.
- *Vector index.* Two vectors of two sizes in three partitions over a budget of 4: one partition fills it, two fit only
  when both are small, a hydration pushes out one or two, and one that grew stays alone above it. Four candidates for
  the best two: one is pushed out, one refused, and equal scores meet.

Counters are capped in guards or by `MaxFaults`, `MaxEvents`, `MaxChanges`, `MaxCalls`, `MaxRuns`, `MaxTime`; copies saturate at 2, since no
property tells more apart. In the queue there is, outside the faults, no bound on how often a handler is called:
a post can be retried, rescheduled and run again for ever. In `Inbox` `inserted`
grows only when a row is new, and a row is new again only after the one workspace
deletion.

`SYMMETRY` is declared where only safety is checked and nothing tells the values apart: in `KeyCustody` the keys that are
not the operator's, in `SealedFiles` the children and such keys of the app, in `Providers` the posts of a draft and the agents.

Boot recovery lists at most 500 posts in publishing (`RECOVERY_SCAN_LIMIT`, `scheduler.rs:88`). Neither `PublishQueue` nor
`AgentGrant` has that limit: runs and theorems speak of starts that find no more. Of more, those beyond the limit would stay as
they are until the next start.

`CHECK_DEADLOCK FALSE` is set where a behaviour really ends: a finished set of sessions
(`MediaImport`), a deleted workspace with no pass (`Inbox`), a stream that is read or runs that are used up
(`Providers`), a file that is sealed or a query that is answered (`SealedFiles`), bounded calls and time (`Node`,
`TickPolicy` and `HeldPublished`).

## 4. Fairness

- **Queue** (`FairSpec`): weak fairness of boot, tick and restart, of each run, of the
  arrival of a scheduled time and of a lease growing stale. The scheduler is one loop that awaits its batch
  (`scheduler.rs`, `run_batch`); a provider call ends by its deadline
  (`tokio::time::timeout` in the runner); the process is supervised and restarted (`main.rs:274`). Users, heartbeats
  and faults owe nothing. `QueueLiveness` allows store failures only where a leg is
  leased or no post is claimed (`LeasedStoreCall`): with a failure elsewhere the
  property is false, which is the finding of `QueueStranded`.
- **Rounds**: weak fairness of `LoopStep`, the one task that makes every step of a round; no
  step of it waits for anything but a store call or a run, which ends by its deadline. Failed reads are
  bounded, settings changes owe nothing.
- **Media**: the reaper wakes, a session goes idle, and a finish that is not dropped
  ends. `AbandonedIsRemoved` excepts files whose process or handler died: nothing
  sweeps `imports/.partial` at boot.
- **Inbox**: a pass that began is polled to its end, since every provider call ends
  with the HTTP client's overall timeout (`state.rs:49`). No new pass is owed.
- Elsewhere only safety is stated, and no fairness: a scrub debt may be refused every day, a client may
  never retry, an operator's command may never be given.

## 5. What is proved

All for every value of the constants, under the assumptions the modules name:
`LegAssumption` (each leg has one post and account and the pair is unique, as the index says),
`QueueAssumption` (positive limits; `NoLeg` is no leg), `ActorAssumption` (a person is no agent),
`StoreAssumption` (tables of natural length, a positive batch, at least one root), `InboxAssumption` (the
poller is one of finitely many passes), `CustodyAssumption` (no key and a broken entry are no keys; an operator's keys are keys).
The sets of posts, legs, accounts, agents, columns, items, repliers and keys may be infinite.
The parts of the compositions have theirs, which the theorems name as hypotheses and the `MC*` modules have TLC
evaluate: `DraftsAssumption` of the two threads (a draft has between one and `MaxLen` segments, and its text is not that of a missing
record), `RegistryAssumption` (an order of providers is a sequence of them, and an answer may be kept for some time),
`StarterAssumption` (a starter is not taken for a row of another kind), `BootAssumption` (no request is the boot),
`EngagementAssumption` and `TickAssumption` (histories, workspaces and posts are sequences), `ImportAssumption` (finitely
many sessions, each in a workspace, sizes from 1), `KeysAssumption` and `AppAssumption` (what stands for nothing is none of
what it stands in for; an app may keep a key file, which every host allows by default, `lib.rs:190`), `FileAssumption`
(chunks are not empty), `IndexAssumption` (dimensions, the budget and how many a query wants are numbers), `WiresAssumption` (bodies
are sequences of bytes), `LeaseAssumption` (settings are numbers, at least one attempt, and the margin outlasts a heartbeat),
`TimingAssumption` (days and weeks are not empty and the built-in slots are distinct; of each zone, `ZoneOk`: finitely many changes
of its clocks, each by an hour at most, offsets that differ by no more than a day, and clocks that are not set forward twice within
a week and a day, or a slot's hour might be missing twice in a row and the code's search of eight days would end before it).

**The queue.** `Inductive` proves `Spec => []IInv`. None of the properties is inductive by itself:
that a verdict matches its legs, for instance, needs that the aggregate a runner has read
is still right when it writes. `IInv` says what each task may rely on at each await:

1. `ClaimInv`: statuses and claims. A lease is set exactly while a leg is in flight; a leg is
   in flight only under a publishing post; a runner exists only while its tick awaits
   it, holds its post, and owns the leg in hand; after boot's reap nothing is in flight.
2. `VerdictInv`: the aggregate a runner or boot recovery read is still the aggregate,
   because a terminal leg under a publishing post has no writer left.
2. `HistoryInv`: what the runner knows of the history of its leg between the check and
   the settle; a published row is written only for a copy that was taken.
3. `WorldInv`: every copy is on record, about to be, or known to be unsure; an announcement is current.

Each part is preserved by each action given the parts before it: a lemma per part,
a step per action. From `IInv` follows `QueueConsistent` (theorem `Consistent`) by way of its parts, `TypeCorrect`, `InFlight`, `Leases`, `Ownership`,
`Verdicts` and `History`, and `Duplicates` and `Events`; the action properties `NotResent` (no copy of a
leg on record, settled or withdrawn is sent) and `FollowsTable` (every status
change is in `can_transition_to`) come from the same invariant.

**Refinement.** `DeliveryContract` has no lease, run, tick or crash: a leg is owed until
one decision is taken, a copy is sent only while it is owed (or was deleted from under a
call), live only after a copy was sent, and only failure is ever taken back.
`QueueImplementsContract` proves `Spec => Contract!ContractSpec` under the map `FateOf`
of statuses to fates: each action of the queue is a step of the contract or a
stutter.

**Grants.** `GrantInvariant` proves `Spec => []GInv`. The argument: what an edit
recorded stays recorded on every post that can still be published, for the text in the
draft, for edits under way, and for the text a run has read (`TextRecorded`,
`DraftReadRecorded`); so a run, which reads the grant after the draft, finds it. At rest: this version writes a grant sealed or not at
all, so what is in the clear is an older version's, and a pass that goes through leaves none (`SealedAtRest`). That grants are sealed whenever the
process has a key is false, and not claimed (section 6). `ActorKnows`, and
`Kept` with its parts `OwnAccess`, `Sealed` and `GrantTypeCorrect`, follow.

**The inbox.** `InboxInvariant` proves `Spec => []BInv`, for any finite set of passes and any
accounts, items, repliers and bound on faults. `EachNewRowOnce` is an equation between counters (rows inserted;
events sent, cut off, failed and owed), and a step keeps it only if an item is owed by one list of one pass at a
time: `PassInv` says that a pass never holds an item both to store and to announce, nor twice, and
holds none while it lists; `RowInv` that a row that is not there was never owed anew, and what a handled reply may rely
on. `CountStep` reduces a step to its effect on the cardinality of `Owing`. Then `NewRowsOnce`,
`RepliesMarked`, `InboxTypeCorrect`, and `GoneStaysEmpty`, a part of `PassesSettle`.

**The sealed store.** `StoreInvariant` proves `Spec => []SInv`, for any number of columns,
rows and roots and any batch size. That ok means clean is not inductive: it needs to know
that the debt is on record before the first value is rewritten (`DebtInv`), how far the scrub has
come (`TraceInv`), and that every planned column is finished when a migration is settled
(`PlaceInv`). `PlaintextIsFound` needs the way of a survivor: in a finished item until it is
reset, ahead of the cursor until it is sealed (`FoundInv`). `RecordMovesWithItsValues`, an
action property, needs that a caller that resets a retired store has sealed what it has walked under
its own root, as long as it met nothing unreadable (`MoveInv`). The theorems are `RowTrue` with its parts
`CleanWhenOk`, `SealedIsRecorded` and `StoreTypeCorrect`; `PlaintextFound`; `RecordMoves`.

**Custody.** `CustodyInvariant` proves `Spec => [](CInv /\ RecordInv)`, for any set of keys, any vault and any bound on
commands and losses. `Safe` is where a key may be found or why it need not be, and the core of the argument is that no step
makes it smaller (`SafeStep`). A step that overwrites a place needs that what it overwrites is retired: `CommandInv` follows
that key through the retirements of a command (it is the new key, to be retired, in hand, or in the index), `HandInv` and
`VaultInv` through the two writes of one retirement. That two starts can drop each other's entries makes no key unsafe, since a start retires
only what it found in a place, and leaves it there (`FoundInv`); of the keys that only an entry gives back each start has read every one
(`ReadInv`), and a command is alone with the index. `AloneInv` keeps the other process out of a command, and `KnownInv`
says that what a process serves with came from a place. `KeysAreKept` follows; `ServesRecord` from
`RecordInv`, since only Core's place writes the record.

**What surrounds a publish** (`ProviderProofs`, of `ProvidersSpec`). `AnswersAreRecent` (`RegistryRecent`) needs `RecencyInv`: an entry is stamped no later
than its answer was given, and an answer is given after its lookup began; that an entry is fresh when it is looked at says nothing of
when it was asked for. `OnceAsHashed` (`UploadOnceAsHashed`) needs `UploadInv`: a run whose call may have reached the platform is over, and what is stored
when the call is made is what was hashed, whatever the file has become. For the threads (`BlueskyThreadKept`, `ManagedThreadDelivered`) the
invariant must speak of the requests that were given up on and may still land: each replied, when it was made, to the record
before, and since records do not change it does so whenever it lands (`RepliesTo`, `Follows`); as long as nobody edits the draft it
also carries the draft's text (`AsDrafted`), so that a success means the whole thread.
`ChunksMakeNoDifference`: what the client has handed on is at every step what one who has the
whole body makes of its first frames, and its buffer the bytes behind them (`Reached`): a chunk moves the end of the buffer, a frame its start, and
neither the order nor the cuts are seen in the result. The whole body's frames are a recursive function, which the proof unfolds frame
by frame.

**What a node keeps** (`NodeProofs`, of `NodeSpec`). `WorkspacesKept`: a row of a deleted workspace is one that a handler brought behind the
deletion, and a dropped starter is gone for good only once no seed that looked for the marker before is under way (`DroppedForGood`).
`SettingsCredentialKept`: a change that nobody wrote behind still holds what is stored (`SettingsInv`), which is what the read-modify-write
of a row relies on. `RefreshesAreSparingAndKeep`: what a pass has read it has seen, there is room in the batch for the call under way, and a
reading that was not crossed is no older than the row (`EngagementInv`). `HeldPostIsNotRun`, of `TickPolicy`: what was read as on was on at some time since the round
began, or could not be read; so is what the policy enables, and every post of a batch is of an enabled workspace (`PolicyInv`); a run keeps
its post from everybody else (`BatchInv`). `RunsKeepTheirLease`: a run's delays are those of the settings it began with, and the merged policy took the
largest lease and the largest worst case of a set of settings that these are among (`LeaseInv`); that the delays a run has slept are a beginning of the
sum in `WorstCase` is an induction over the attempts. `SlotsComeNext`: the local hour
moves on by one with each instant, but where clocks are set, so each slot comes within a week and a day of any instant; the code tries the
dates in turn and takes the first instant that shows the slot, which is the first of all since the hours before it on its date, and the
dates before, show others (`NextIsTheFirst`). `RecommendationIsEarned`: what a bucket claims are the posts that fall in it (`BucketIs`); means compare
as the products the code compares (`MeansCompare`), which is an order, so that the ranking exists and is one (`OneRanking`); its first
slots are not beaten by what is left out, and where too few were earned the built-in slots fill up in their order
(`DefaultsAreEarned`).

**Media** (`MediaProofs`). `ImportInv` follows each session through its stages: what was hashed is a beginning of the
file and is what is there unless a write was torn, a session that is taken has hashed all of it, and its file is where the stage says (`Sound`);
an unfinished session is unknown to the library, and what is being removed is referred to only if it was again
(`ReferencesInv`); what was declared for the open sessions and the imports that count fits the quota, with the texts that an admission has since
walked (`QuotaInv`), and those not walked since are no more than may be open (`SlotsInv`); `DiskAccounted` needs both because
`finish` places a file that admission counted long before, and a text that it never did. A sum over sessions is the cardinality of a set of chunks, so that the
theorems about finite sets stand in for an induction. `ImportsAreWhole`, `DiskIsAccounted` and `ReferencedFilesAreKept` follow.

**The crypto crate's parts** (`SealedFilesProofs`, of `PartsSpec`).
- *Subkeys* (`SubkeysAreOfOneResolution`, `CiphersOpenTheirOwn`): a once-cell holds what the custody says, and the cells of a thread's earlier steps are
  full (`CoreInv`); a process was given the subkeys of the custody of its start for its scope (`Proper`); a sealed value says whose it is,
  in its key and in what the tag covers (`Marked`). Together: `ScopedInv`.
- *The key of an app* (`AppKeysStay`), for any number of threads: `Placed`, where a key is or why it is not, only grows, and
  a thread that nobody crossed knows the key of the keychain, has seen that there is none, or could not read it (`ThreadInv`). With crossed threads included the
  statement is false: three threads are enough (section 6).
- *Sealed files* (`ReadersTellTheTruth`, `PlaintextGoesForItsWhole`), for any length and chunk size: every chunk was sealed over the plaintext
  of its index, and only the last of a file is marked as one, however the chunks are arranged, cut or
  exchanged (`FileTrue`); a copy under way holds the plaintext so far (`JobInv`); what a reader has cached was opened (`ReaderInv`). A reader
  that seeks and reads across chunks so gives the bytes of their places.
- *Sealed logs* (`PromisedRecordsOpen`), for any number of records and faults: the first m pieces of a log are its records, and what is behind them is torn, by
  failed writes alone if it is more than one piece (`Sound`). This is what makes the scan right: under the log's key it ends
  at m, and under another it opens nothing, so that no key with which a log opens gives anything but the m
  records (`OpeningsGiveTheRecords`); what was promised is among those on stable storage, or in the compaction (`PromisedAt`). Once a record was written behind the rest of
  one that failed none of this holds, and the property excepts it (section 6).
- *The index* (`IndexesStayKept`), for any number of indexes, partitions, vectors and bytes: each partition counts its vectors and knows
  where each is, through replacements and removals that move the last vector (`Right`); the budget counts the partitions (`Held`, with a sum as
  the cardinality of a set of units). That evicting makes room is the least obvious: of the partitions that are left one was used
  least recently, since the order of use is one (`Sorted`), all before it are gone, and it was left because that was enough
  (`VictimsMakeRoom`). `IndexSound` is the invariant, the parts of `CacheInv` by name; a query's collector holds as many as it was offered, up to K,
  and none that one it dropped would beat (`Collected`).

**Induction.** The library's induction theorems cannot be instantiated with the installed provers. Where a proof needs one it is made from
the well-foundedness of the numbers: a set of numbers that is not empty has a least (`Least`), so one that has 0 and the successor of each
of its numbers has all (`NumbersFollow`), so a step can be repeated (`StepsRepeat`). A recursive function is shown to exist
that way, as it is defined by a choice, and then read as an equation: the sums of `TickPolicy`, the frames of `ModelStream`, the partition that
`Built` builds.

**Only model-checked.** Liveness, which is beyond the prover: `DueIsDecided`, `EnabledIsRun`, `AbandonedIsRemoved`, the eventual part of
`PassesSettle`. Every other property of a passing run is stated by a theorem.

## 6. Where code and words disagree

Two have a run of their own: the property states the quoted words, and TLC's trace is the
code's own order of steps.

| Run | Words | What happens |
|---|---|---|
| `QueueStranded` | `scheduler.rs:426` "the row stays `due` for the next tick" | A store call that fails after `claim_post_for_publishing`, outside a leased leg, leaves the post publishing with no lease. Neither drain nor reaper sees it until a restart. |
| `HeldPublished` | `scheduler.rs:373` "the safety property — a held post is never PUBLISHED — holds either way" | A settings read that fails, or a blob that does not parse, is read as the defaults, scheduler on: the posts of a workspace that is switched off are run. `HeldIsNotRun` is what does hold. |

The others were met while modelling. Each is the reason for an exception that a property names, or
for an action that a reader might miss.

| Source | Words | What happens |
|---|---|---|
| `api/posts.rs:155` | `queue.rs:386` "a removed account must stop receiving queued posts" | Creating a post, a retry and the reaper do not look at the account at the write, and a run tolerates a missing account row: a leg of a removed account is published. |
| `api/drafts.rs:94` | `publish/runner.rs:44` "this order can never pair an agent's new text with an older (wider) actor" | The grant is recorded one store call before the text; an edit by a person in between replaces it. |
| `inbox/mod.rs:203` | `inbox/mod.rs:28` "One event is emitted per genuinely new row, AFTER the insert is durable" | A failing insert drops the list of the rows already inserted: they are never announced, though nothing crashed. |
| `media_import.rs:404` | `media_import.rs:14` finish "checks the size (and the SHA-256, when given)" | A chunk whose flush fails stays in the partial file and is appended again by the retry; size and digest are those of the acknowledged chunks. |
| `media_import.rs:480` | `media_import.rs:48` "Total bytes `imports/` may hold: finished imports plus the declared size of every open session" | `finish` writes up to `MAX_METADATA_BYTES` beside the file that no admission reserved. The folder can pass the quota by the texts of the imports finished since the last admission, at most `MAX_OPEN_SESSIONS` of them; the next admission counts them. |
| `media_import.rs:454` | `media_import.rs:24` "everything under `imports/` … is at most `MAX_IMPORTS_TOTAL_BYTES`" | The session is out of the map before its file is in a directory that is walked: an import admitted in between is checked against neither, and the folder can pass the quota by that file. So can one that a chunk written twice made longer than its size. |
| `main.rs:167` | `main.rs:161` "seal any an older version stored in plaintext" | A pass that fails is logged, and the process serves with its key and with grants in the clear, until the pass of a later start goes through. |
| `content_sqlite.rs:567` | `content_sqlite.rs:568` "Every value now opens under the current root: the record moves on." | A migration resumed under a new root, or of an added column, moves the record past rows it never walked. |
| `models.rs:1077` | "When false the sweep still runs but claims nothing" | The sweep claims every workspace's due posts while any is enabled; those held fill the head of the bounded drain. |
| `templates.rs:18` | "deleting a built-in must be permanent" | Two first listings at once: the slower one inserts what was just deleted. |
| `settings.rs:45` | "Absent means unchanged" | Of two updates at once the later puts back what the other changed; a row that does not parse is overwritten with the defaults. |
| `analytics.rs:224` | "Provider calls actually made" | Calls that fail are neither counted nor bounded. |
| `providers/registry.rs:275` | "a media request can continue to fall through" | Only the first segment's media are looked at; later ones are dropped and the thread is reported published. |
| `providers/registry.rs:393` | "Called when credentials change" | Only tests call `invalidate_capabilities`. |
| `providers/composio.rs:246` | "`{ successful: false }` … is a FAILED tool call even though the HTTP status was 200" | `execute_tool` looks at the status only. |
| `crates/core/crypto/src/lib.rs:1354` | the other key "stays a retired key the master cipher opens old data with" | It is a candidate of custody and in no cipher. |
| `crates/core/crypto/src/custody.rs:1205` | "the target's previous key is retired, so data the target sealed stays readable" | With a keychain that reads and does not write, `master.key` is replaced without being retired. |
| `crates/core/crypto/src/custody.rs:452` | `custody.rs:416` "Store a key in the retired set" | Core's start and another process's each write the index back as they read it, so an entry can be lost again; its key is still in the place where it was found. |
| `crates/core/crypto/src/lib.rs:552` | "a lost race just drops a duplicate equal cipher" | Two first starts of an app both generate a key; the later replaces the earlier. |
| `crates/core/crypto/src/app_key.rs:222` | `app_key.rs:26` when the keychain and the key file disagree "the other one stays a retired key that still opens what it sealed" | No lock is held between the look at the keychain and the choice. Of three threads one has read an old key when two others store and publish a newer one and remove the key file: it goes on with a key that is recorded nowhere, and does not open what was sealed meanwhile. With two threads it cannot happen. |
| `crates/core/crypto/src/sealed_log.rs:13` | A torn tail "is bytes that never formed a committed record" | After a failed append the next record goes behind the torn bytes and is cut with them, synced or not. |
| `crates/core/crypto/src/process_keys.rs:520` | such values "must open, or fail" | `PluginCipher::open` hands an `encc:v1:` or `enc:v2:` value back as plaintext. |
| `crates/core/crypto/src/process_keys.rs:43` | "reports those stores as `Retired`, and reseals them" | `open_tracking` never asks for a reseal of a value only a retired subkey opened. |
| `crates/core/crypto/src/vector_index.rs:288` | "`total` is how many vectors the partition really has" | It counts the vectors that opened, and only grows. |
| `scheduler.rs:811` | "nudged to the next hour, which is the first moment that wall clock actually reaches" | When the gap is the last hour of a day, the date is skipped. |

One more: `models.rs:741` allows cancellation "only before
any provider was contacted", and a partial post that was retried is due, so it can be
cancelled with one leg live.

## 7. Not modelled, and the plan

Not planned: byte formats and primitives of the ciphers (their correctness is that of primitives and test
vectors), egress and sidecar helpers (pure functions or one-shot I/O), the in-memory
provider (a test double), release scripts, serialisation and message texts, the brokers' request
formats, read-only listings.

What is left out of a modelled component stands in its note in `PROJECT.json`. The plan for it, the most
important first:

1. `KeyCustody` in the place of the numbered roots of `SealedStore`, so that a store is opened with
   what custody can really give; `install_file_custody`, `copy_retired_keys` and `copy_master_key`.
2. An abstract specification for `SealedStore`, *a store is plain, owing or clean, under one key*,
   implemented by the resumable passes; the queue of deferred compactions; key files of plugins.
3. `BlueskyThread` as a refinement of the provider of `PublishQueue`.
4. Pure algorithms as operators against a reference definition over bounded inputs:
   quiet hours, rollups, clamping.
