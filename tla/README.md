# ByteVault in TLA+

ByteVault is a file vault written in Go: a REST API over PostgreSQL, an
S3-compatible bucket (Cloudflare R2), Redis, and goroutines started with the
server (media workers, notification workers, a scheduler). No call of the
program runs two of its steps atomically except where one SQL statement does:
handlers are sequences of separate statements and storage calls, and they
interleave with each other, with the workers and with the scheduler. This
directory models those interleavings, checks them with TLC and proves the most
important of them with TLAPS.

## Inventory

| Part | State | Operations | What is hard |
| --- | --- | --- | --- |
| Files (`service/file_service.go`, `repository/file_repository.go`) | row: `status`, `storage_key`, `deleted_at`, `thumbnail_key`; object in the bucket | create upload session (single PUT, multipart, replace), complete, abort, direct upload, delete | bytes arrive behind the server's back; a row gets a new key while handlers and workers hold the old one |
| Media worker (`notification/worker/media_worker.go`) | Redis list of file ids; the row and key it read | malware scan, NSFW scan, block, flag, thumbnail, READY, strikes | works minutes on a snapshot of the row; deletes, then marks; jobs run twice |
| Moderation (`handler/moderation_handler.go`) | list of flagged files | approve, reject | decides about what a page showed earlier |
| Scheduler (`notification/scheduler/scheduler.go`) | nothing | purge of the trash, orphan sweep, ephemeral purge, subscription expiry and downgrades, expiry of sessions, shares, invites, logs | compares reads made at different times |
| Ephemeral shares (`service/ephemeral_service.go` and repositories) | row: status, key, download count, `burned_at`; timers in memory | create, complete, abort, download and burn, admin burn, purge | count and status are separate columns; two owners of the delete |
| Notification queue (`notification/queue/redis.go`, `worker/workers.go`) | two Redis lists per kind of job; retry timers in memory | enqueue, dequeue with priority, retry with backoff | crash between pop and send; retries against priority |
| Subscriptions (`service/subscription_service.go`, `handler/webhook_handler.go`, `transaction_service.go`) | one current row per user; storage limits of the user; receipts; the payment provider's own state | subscribe, verify, upgrade, downgrade, cancel, admin's assign, cancel and sync, webhooks, scheduled downgrades | two systems of record; webhooks late, lost, duplicated, out of order |
| Upload invites (`service/upload_invite_service.go`, `repository/upload_invite_repository.go`) | invite: status, files and bytes used, uploads to announce; record of guest files; debounce timers in memory | create, revoke, expire, guest's session and completion, notices, cleanup of abandoned uploads | capacity reserved before and given back after other statements; two flushers of one counter |
| One-time codes and rate limits (`service/notification_service.go`, `queue/redis.go`, `email_verification_repository.go`) | Redis key of a code, its row in PostgreSQL, counters | issue, verify, reset, count | read, compare and write back are separate commands; two copies of one code |
| Authentication and accounts (`service/auth_service.go`, `server/user_routes.go`, `user_repository.go`, `admin_handler.go`) | users, sessions, providers, MFA columns; tokens that outlive their check | register, log in (password, Google, MFA), refresh, change and reset of the password, delete, restore, purge | several statements per operation against requests already past their check |
| Folders, public links, shares (`service/folder_service.go`, `share_service.go`, `file_service.go`) | tree of folders, files in it, public flags, share rows | create, find or create, move, rename, publish, delete, public download, save to the vault | walks up the tree by separate reads; flags copied from folder to file; check-then-insert |
| Quota, API keys, audit log | sums, rows, appended records | check, CRUD, append | check-then-insert |
| Everything else (packages, consents, e-mail, settings, server start-up, adapters of object stores) | single rows or none | CRUD, rendering, wiring | nothing that interleaving makes worse |

Interactions: handlers push into the Redis lists, workers pop them; scheduler,
handlers and workers share the tables and the bucket; the payment provider
calls back with webhooks; clients talk to the bucket directly with presigned
URLs. `PROJECT.json` lists every component with its sources and status.

## Modules

| Module | Models |
| --- | --- |
| `FileLifecycle` | rows, objects, media queue, API handlers, media workers, moderation, purge and orphan sweep |
| `MCFileLifecycle` | its symmetric instances |
| `FileLifecycle_proofs`, `EphemeralShare_proofs`, `JobQueue_proofs`, `UploadInvite_proofs`, `FolderTree_proofs`, `Attempts_proofs`, `Subscription_proofs`, `Auth_proofs` | theorems about the modules they are named after |
| `EphemeralShare`, `MCEphemeralShare` | ephemeral shares with their handlers, timers and purge |
| `JobQueue` | notification lists, workers, retry timers |
| `Delivery` | what the queue promises; `JobQueue` implements it |
| `Subscription`, `MCSubscription` | a user's subscriptions, limits and receipts, webhooks, the scheduler's pass, the payment provider |
| `UploadInvite`, `MCUploadInvite` | invites, guest uploads, notices, the jobs of the scheduler for them |
| `Attempts`, `MCAttempts` | one-time codes in Redis and PostgreSQL, rate-limit counters |
| `Auth`, `MCAuth` | the accounts of one address, their sessions, second factor, deletion and purge |
| `FolderTree`, `MCFolderTree` | folders, the files in them, publishing, public access, shares |

They meet where one hands over to another: `FileLifecycle` scans what
`UploadInvite` and `FolderTree` only see become READY, `Attempts` decides about
the code after which `Auth` resets a password or opens a session, and the jobs
of `JobQueue` carry the notices of all of them.

In every module a handler, worker or scheduler pass is a process with a program
counter: one action per database statement or storage call, because nothing
makes two of them atomic. Local variables of the Go function that outlive a
call (`file` read by `FindByID`, `shouldBurn`, a batch of rows) are part of the
process state, so that they can be stale. `Fault` marks a call that fails; the
process then takes the code's error path. `Crash` empties the state of all
goroutines and timers and leaves PostgreSQL, Redis and the bucket.

### FileLifecycle

A row is `status`, `keyOf`, `deleted`, `thumbed`; the bucket is the set
`objects`, of storage keys and of thumbnails (named by the file's id, as in the
code). `upload[k]` says how the bytes of a key are to arrive (`put`,
`multipart`) or that they did (`stored`), `content[k]` is what they are:
`clean`, `infected` (what the malware scanner stops), `nsfw`, `suspect` (between
the detector's two thresholds), `mismatch` (not the declared type).

`CreateSession`, `ReplaceSession`, `CompleteUpload`,
`CompleteMultipartUpload`, `AbortMultipartUpload`, `UploadObject`/`UploadCreate`
and `Delete` are the handlers; `Assemble`, `Validate`, `Fail`, `Commit`,
`Enqueue` their later steps. `Dequeue` and `Scan` to `MarkReady` are
`MediaWorker.ProcessFile`, run by workers and, for direct uploads, by the
handler's own goroutine. `ListFlaggedFiles`, `ApproveFile`, `RejectFile` are the
moderation page, `PurgeSoftDeletedBefore` to `SweepDone` the scheduler.

Simplifications: `Dequeue` merges the pop with the worker's read of the row; a
presigned PUT is used at most once; the bytes of a key are fixed at the start;
database errors are not modelled (storage errors are); the automatic tags, the
extracted text and what strikes lead to are left out.

### EphemeralShare

`status`, `keyed`, `count`, `burnedAt` are the row. Time passes in ticks of 15
minutes, the age at which the purge takes a burned share; the link and the
delete timer of a burn last two. `object` tells the parts of an unfinished
upload from assembled bytes that fit or exceed the declared size. `lost` counts
burns that were due but never recorded, `adminBurned` the shares an admin ended.

Not modelled: the live-progress map, refresh of part URLs, the limit of shares
per address, the metadata preview (reads only).

### JobQueue and Delivery

`high` and `normal` are the pair of lists of each kind of job, `retries` the
count a job carries, `timers` the `time.AfterFunc` calls pending. The abstract
module `Delivery` has, per job, a state (accepted, delivered, failed, lost) and
the number of tries. The refinement mapping (`D == INSTANCE Delivery WITH state
<- state, tries <- tries`) calls a job lost when it is in no list, worker or
timer and has not ended.

### Subscription

The rows are `status`, `package` (a tier: packages ordered by price and limits,
0 is free), `pending` (`pending_package_id`), `cancelEnd`
(`cancel_at_cycle_end`) and `period` (whether `current_period_end` is null,
ahead or past). `limits` is the tier whose limits the user's row has,
`receipts` counts transactions per payment. The provider's records (`rstatus`,
`rplan`, `rnext`, `rperiod`, `rpays`) are external: they move as far as the code
relies on it, and each move offers a webhook to `inbox`. A webhook stays there,
and may be processed again or out of order, until the handler has recorded its
id (`processed_webhook_events`) or the provider gives it up.

`Subscribe`, `Verify`, `Upgrade`, `Downgrade`, `Cancel`,
`CancelPendingDowngrade`, `AdminCancel`, `AdminAssign` and
`HandleRazorpayWebhook` read the row, decide and leave the calls still to make
in `todo[p]`; what they read is in `sub`, `tier` and `event`. One action per call
follows (`Order`, `Insert`, `Apply`, `UpdateStorageLimits`, ...), with the error
path the code takes there. A call whose error only ends the handler is
`Abandon`, which also stands for a restart. `ListPendingDowngrades` to
`ExpireLimits` are `ProcessScheduledDowngrades`, one row at a time from the batch
it listed.

Simplifications: `CancelRow` is the pair UpdateStatus and SetCancellation; a
handler or a pass does not outlast a billing period, and neither does a
webhook; packages are not removed and have distinct prices; `expired` stands for
`completed` too; nothing calls PauseSubscription, ResumeSubscription or
SyncWithRazorpay; the write of `upgraded_from_id` is left out because it always
fails (see the divergences) and its error is ignored.

### UploadInvite

`invite[i]` is the row (`status`, `max`, `files`, `bytes` used, `pending`
uploads to announce), `file` and `recorded` the rows of `files` and
`upload_invite_files`, `timer` the debounce timers, `flying` the counters a
flush has taken and not yet announced. A guest's upload is `GuestRead` (token,
address, limits), `GuestReserve` (one conditional UPDATE), `GuestQuota`,
`GuestCreate`, `GuestRecord`, with `GuestUnrecord`, `GuestFailNew` and `Release`
on the error paths; its completion `CompleteRead`, `CompleteFile`, `Discard` or
`Commit`, `Notify`. `CleanupList`, `CleanupClaim`, `CleanupRelease` are the
hourly job, `TimerFires`, `SchedulerFlush` and `Send` the notices. The history
variable `overlaps` counts completions and cleanups that begin beside another
completion of the same file: nothing makes the status check and the writes
after it one step, and the properties say what each such overlap may cost.

Simplifications: all guests have one address; the byte limit is a limit on
announced sizes; folders are made by `EnsureFolder`, which may fail; the bytes
in the bucket are left to `FileLifecycle`.

### Attempts

`key` is the Redis entry of a code (the code, its attempts, what ends it),
`rows` the rows of `email_verifications`, `hits` the counters and whether they
will expire. `Look`, `Drop`, `Del`, `Ttl`, `Set` are the commands of
`RedisQueue.VerifyOTP`, `Find`, `Bump`, `Use` the fallback in the database,
`BgFind`, `BgMark`, `BgUser` the goroutine of an acceptance. `Incr` and `Arm`
are `CheckRateLimit`. `lost` counts writes that hit another value than the one
read; the properties bound guesses and acceptances of one code by it. Guesses
are counted for each of the two copies of a code: requests that found no key
before a code was stored may use up the attempts of its row while Redis still
has all of its own.

Simplifications: one address, one purpose at a time; a code is never drawn
twice; the counters of MFA and login are the same code as those modelled.

### Auth

`users` are the rows of one address (the column has no unique index, so there
may be several), `sessions` remember as history the age of the password they were
opened with (`era`), whether the factor was on and skipped (`on`) and whether
they come from a request that an ending overtook (`late`). A request first
reads and decides (`Login`, `Google`, `Refresh`, `ChangePassword`, ...), then
makes one statement per step (`Open`, `Drop`, `Restore`, `Mfa`, `Update`,
`Wipe`, `Soft`, ...). `Rehash` is the goroutine of a login, `Lapse` and `Purge`
the thirty days and the scheduler.

Simplifications: an access token is a user in `access` until `TokensExpire`;
whether a one-time code was right is chosen freely; devices, consents and roles
are left out.

### FolderTree

`folders` and `files` are rows; `why` and `astray` are history (why a file is
public; whether it was put into a folder that is deleted), as are `made`,
`unsynced` and `watch`. Every operation begins with its reads and its guard
(`MoveFolder`, `ToggleFolder`, `CreateUploadSession`, `MoveFile`, ...) and ends
with its statements one by one (`UpdateParent`, `UpdatePublicStatus` and
`Sync`, `Drop` and `Empty`, `Insert`, `WriteFile`). `Walk` is one iteration of
`isAccessiblePublicly`, `Answer` its verdict. `Above(g, n)` are the ways from the
folder `g` to the one `n` levels up, which is what the joins of the share
queries look for.

Simplifications: depths are 2 and 3 instead of 5 and 10; names matter only for
the folder API uploads go to; sizes, view counters and permissions are left out.

## Runs

| Run | Question | Bounds |
| --- | --- | --- |
| `files_safety` | does the sweep take objects rows name | one file, two keys, so a row can be replaced once or an object uploaded without a row; one client and one worker; no failures |
| `files_live` | is infected content ever served; are blocked files erased; does every pending file leave PENDING_SCAN; are objects without rows reclaimed | one file and key, three kinds of content that are not clean, one storage error, one restart |
| `ephemeral` | is a burn final; how many downloads beyond the limit; what may the purge delete; are ended shares and unfinished uploads erased | one share with one download, two requests at once, one error, one restart |
| `jobs` | is a job in one place only; is priority respected; does the queue implement `Delivery`; does every job end | two e-mails (one high), one push, three workers, two retries, one fault, one restart |
| `subscription_races` | is anyone billed for what the vault does not know; how often is a payment recorded; do limits follow payments | two subscriptions, two handlers, two requests, two webhooks under way, one paid tier, one payment each |
| `subscription_cycle` | do lapsed subscriptions and due downgrades end | one subscription, two paid tiers, two payments, two requests, one failure |
| `invites` | does the capacity counted cover what guests delivered; how far are the limits overrun; is an upload announced twice | three invites of which one is used, two files, two requests, one failed statement or crash, one completion beside another of the same file |
| `invites_live` | do abandoned uploads end; is every delivery announced | one invite, two files, one request at a time, one failure |
| `codes` | how many guesses at a code; how often is it accepted; does a window hold and end | two codes, two requests at once, one attempt, limit one, five events (requests, failures and crashes) |
| `accounts` | which sessions survive a change of the password or a deletion; is the second factor asked for; which password opens the account | two passwords, two rows of the address, two requests at once, four events, five kinds of account to start from |
| `accounts_purge` | is a lapsed account purged | one account with a linked Google login |
| `tree` | do ownership and names survive races; is a deleted folder left empty; is what a stranger gets what the owner published | two users, four folders, two files, two requests at once, three events, four trees to start from |

`CHECK_DEADLOCK FALSE` stands where the number of requests is bounded and a run
ends when they are used up (`invites`, `invites_live`, `codes`, `accounts`,
`accounts_purge`, `tree`). `MaxStrikes` is 0 in the runs of the files because no
property reads the strikes. The start states of `accounts` and `tree`
are states the operations reach; starting there puts the races within the bound.

The interactions at stake take two actors (a handler against a worker, two
downloads, a worker against a timer, two handlers and the provider, two logins,
a guest against the cleanup) and one file, share, job, invite, code, account or
folder they meet at;
different files share nothing but the sweep, whose snapshot is a set. One
failure and one restart each suffice for the properties to matter: they say
what a failure may cost, and a second failure repeats the first. The proofs
remove the bounds for the safety invariants of the files, the ephemeral shares,
the queue, the upload invites, the folders, the attempts, the accounts and the
subscriptions (for which `subscription_races` has no failures and one paid tier, and no run
lets the provider halt a subscription, which multiplies the states).

`accounts_purge` checks one sentence of the repository the code does not keep:
"foreign key CASCADE removes related database rows" (`user_repository.go:766`).
`auth_providers.user_id` has no cascade
(`002_create_auth_providers_table.sql:3`), so one lapsed account with a linked
Google login makes the DELETE of all lapsed accounts fail, every time.

### Fairness

A goroutine that has a next call makes it (`WF` of the steps of a handler that
has begun, of each worker, of a timer or goroutine that is due), and the scheduler's ticker
comes round (`WF` of its steps, `ProcessScheduledDowngrades`, the cleanup of abandoned guest
uploads, the two-minute flush of notices and the purge of accounts included), since Go runs every runnable goroutine and
tickers do not stop while the server lives. Clients, admins, the
bucket's uploads, the payment provider and crashes get no fairness: nobody has
to call anything, and no webhook need ever come.
The ephemeral module also lets time pass and shares fall due. Liveness is
checked without symmetry.

## Proofs

Every theorem holds for all values of the constants that meet the named
assumptions of its module: ids and the "no" values are distinct, bounds are
naturals. Where a property counts (requests that overlap, files of an invite,
workers that take a job, handlers), the sets counted are assumed finite. The proofs of an
invariant all run alike: a strengthening that is inductive, checked by TLC on
the instance of the run first; one lemma per action that it preserves it; their
sum over `Next`; `PTL`. `Shape` is in every module the part about one state
alone: types, and what a process at each program counter must hold, without
which no action could be evaluated. The other invariants are proved relative to
it.

`FileLifecycle_proofs`:

* `TypeCorrect`: `Shape` adds that an existing row has a key, that a handler
  under way holds the file and key it needs, and that queued ids name rows.
* `NeverServesInfected`, `BlockedStaysErased`: from `Safe`. The argument:
  objects whose bytes have arrived can only disappear, so what a pass found out
  about a key stays true (`Vetted`, `Erased`); and as long as the row was never
  replaced, the key a process holds is the row's. READY is reached only by a
  pass whose key is `Vetted`, or by an admin's approval of a file that was.
* `SweepSparesRows`: from `SweepOK`, which follows a key from the snapshot of
  the rows to the batch of deletions: what has a row and is in the batch was
  attached after the snapshot.

`EphemeralShare_proofs`:

* `BurnsAreFinal`: from `Final`. A share is ACTIVE again only by the UPDATE of a
  completion, so a completion that is past its status check must exclude a
  recorded burn, and two of them must exclude each other; both hold because the
  bucket assembles a multipart upload once.
* `PurgeIsSafe`: from `PurgeInv`, which says of each share in the purge's batch
  that its row left ACTIVE before the batch was read and cannot come back.
* `DownloadsAreBounded`: from `CountInv`. The downloads granted beyond the limit
  were each let through by a request that had read ACTIVE before the burn was
  recorded: such requests, and burns whose record was lost, are counted one by
  one against the excess.

`JobQueue_proofs`:

* `JobsAreInOnePlace`: a job that is in a list is there once, and is in no other
  list, worker or timer (`PlaceOK`).
* `OvertakingIsBounded`: from `OvertakeInv`: a worker that takes a normal job
  past a waiting one had polled the empty high list before that one came, and
  is counted against the workers that have not polled since.
* `QueueDelivers`: `Spec => Delivers`, the refinement of `Delivery`. The mapping
  needs `JobsAreInOnePlace`: lost is what is in no place, so every pop, send and
  timer must move the job, never copy it. Each action maps to one abstract
  step or a stutter; a crash loses all that workers and timers hold at once.
  The liveness half of the abstract promise stays with TLC.

`UploadInvite_proofs`:

* `OvershootIsBounded`: from `MaxOK`, `CreateOK` and `OverlapOK`. For each limit the rows
  beyond it plus the requests past their count are at most the requests that
  can overlap.
* `CapacityIsCovered`: from `CapacityInv`: for each invite its live files, the
  capacity requests hold or have claimed to give back, and what is counted too
  much, against the counter and the failures and overlaps so far. The files are
  counted by a cardinality, so each action is a lemma about a set that gains or
  loses one element.
* `FilesAreAnnouncedOnce`: from `AnnounceInv`: delivered uploads are waiting to
  be announced, in a flush, announced, or lost with one.

`FolderTree_proofs`:

* `ChecksAreKept`: that a folder's parent has the same owner is part of `Shape`,
  because nothing changes an owner. Folders of one name are counted by
  `MadeInv`: those made, and the requests that looked and are about to insert,
  are together at most the requests; a folder there makes every later look find
  it.
* `DeletedStaysEmpty`: `DeletedIsEmptied` is inductive with `Shape`.
* `PublicStaysMeant`: `UnsharedIsHidden` is inductive with `Shape`. For the
  verdict, `WalkInv` says of a walk under way that, unless the tree was changed
  since it began, the folder it has reached lies as many levels above the file
  as it has read, and none of those passed was public. The run starts from
  trees the operations reach (`StartAssumption`, which TLC evaluates for those
  of the run).

`Attempts_proofs`:

* `WindowsHold`: from `WindowInv`: what a window let through is at most what it
  has counted and the failures of Redis.
* `CodesAreConsumed`: from `AcceptInv`. A code is stored once and inserted once,
  because a new code is like no other (`CodesOK`, `Apart`); the acceptances,
  with one for the key if it holds the code and one for a row that is unused,
  are at most those two and the writes that were overtaken or failed.
* `GuessesAreBounded`: from `RedisInv` and `RowInv`. A wrong guess is paid for by
  an attempt counted in its copy or by a request that is about to count it; a
  request whose SET is overtaken, fails or is lost in a crash is paid for by
  `lost`, `faults` and `crashes`. With one sum for both copies the bound does not hold:
  three requests that compare with the row of a code before its key expires
  exceed it, which the run with two requests cannot show.

`Subscription_proofs`:

* `TypeCorrect`: `Shape` says what a handler knows from the calls it has left
  (`CallOK`): the row, the package, the event, and their order (`Ordered`: an
  order is followed by its insert alone, what is cancelled or changed with the
  provider comes first). The list of calls each request and webhook begins with
  is taken through `Good` once. A webhook stays true of payments and of
  cancellation while it waits (`EventOK`), because the provider's record never
  loses a payment and never leaves `cancelled`. Two assumptions: there is a
  handler, and `NoEvent` is not an event.
* `BillingStaysTracked`: from `TrackedInv`: a handler that has `cancelRow` left
  and `cancelNow` behind it has closed the provider's record, if nothing failed;
  and from `ReceiptInv`: the receipts of a payment and the handlers that found
  it missing and are about to insert are together at most the handlers.
  `RecordCharge` passes only where there is no receipt, so it starts that sum
  from the handlers alone.
* `LimitsArePaid`: from `PaidInv`, under the hypothesis of the property. Every
  copy of a tier that may reach the limits has been paid for: the package of a
  row (or it will be by the row's first payment, `Fits`), a downgrade pending, the
  plan of the provider's next cycle, the one an `updated` webhook carries, the
  scheduler's batch, and what a handler holds once it is past its `planNow`.
  That a row is active only after a payment needs `EventOK`. The hypothesis
  goes backwards along a step (`BilledNext`: rows are never deleted, ids never
  shared), so a user whom the admin gave a package may be left out for good.

`Auth_proofs`, for any accounts of the address to start from in which a factor
that is on has a secret and the password is the one chosen last
(`AccountAssumption`, evaluated by TLC for those of the runs), and finitely many
requests at a time:

* `TypeCorrect`: `Shape` says what a request at each step holds: a row unless it
  is about to make one, a password if it will store one, a token only between
  the SELECT of `RefreshTokens` and its session, a secret if it is about to turn
  the factor on. What each kind of request has read when it arrives is one
  lemma per kind (`RequestReads`), which all invariants start from.
* `SessionsAreEnded`: from `EndedInv` and `TokenInv`. `EndedInv` (while nothing
  has failed) says of sessions, MFA tokens and requests alike that their
  password is the present one, or they are late, or a request is about to end
  them (`Fresh`); the account they are of is live, or its deletion overtook them.
  The deletion ends the sessions before it marks the row, so those that are
  stored in between must be late as well (`ClosingLate`). `TokenInv` counts the
  sessions refreshed from a token with the requests that hold it: together they
  are at most the requests and failures. It is inductive only with a second
  bound: while the token's session is there, those that have deleted it and
  what was made of it are no more than the failed deletes.
* `FactorIsHeld`: from `FactorInv`: a login that found the factor on still finds
  it on when it asks, unless a deletion or a failed read came between, and a
  request that is about to turn the factor on carries a secret that was proved.
* `PasswordIsLatest`: from `WordInv`: a goroutine or login that holds a former
  password of a row is known to the row (`raced`).

Only model-checked: all liveness, whose fairness is out of the prover's reach,
with ENABLED (so too the violation that `accounts_purge` finds); and what a
recursive definition computes for every input (no module proved about has one).

## Known divergences

Met while modelling; the modules do what the code does, and where a property
could be broken by one of them it says what it may cost.

Files and ephemeral shares:

* A file replaced while the worker scans the old bytes becomes READY with bytes
  nobody scanned: `UpdateStatus` names the row by id only
  (`media_worker.go:156`, against the log line at `:160`).
* Two requests read ACTIVE before either is counted, and both get a link of the
  last download, although `ephemeral_service.go:440` says "so no SECOND request
  can generate a presigned URL"; `DownloadsBounded` bounds the excess.
* A second pass over a file whose object a first pass deleted finds nothing to
  scan and marks the blocked file READY (`media_worker.go:98`, `:156`); an error
  while reading the object has the same effect on an unscanned one.
* A direct upload of an image is scanned by the handler and again by the queue:
  one image, two strikes (`file_handler.go:263`, `file_service.go:635`, `media_worker.go:244`).
* Rows that stay UPLOADING are never cleaned, although
  `docs/Architecture/upload_flow_design.md:79` says so.
* The sweep may delete an object that got its row after the rows were read
  (`scheduler.go:222`); `SweepSparesKnownRows` is the part that holds.
* A completion in flight makes a share the admin burned ACTIVE again
  (`ephemeral_service.go:337`); a sender told to retry is refused by the bucket
  (`:320`); the hourly abort of old uploads does not look at the share.

Queue:

* The retry delays are 4, 8 and 16 seconds, the comment at `workers.go:272`
  says 2, 4 and 8.

Moderation, and subscriptions:

* A file the admin rejects keeps its object, although `moderation_handler.go:88`
  says "deletes the file"; a burned share's object is purged after 15 minutes,
  although `ephemeral_service.go:442` delays its deletion by 30.
* `upgraded_from_id` references subscriptions (`026_create_subscriptions.sql:25`)
  and `SetUpgradedFrom` writes a package id (`subscription_service.go:325`): the
  statement fails, its error is ignored, and the lock on changes after an
  upgrade never takes hold.
* A subscription the provider cancels before its period ends keeps its limits:
  "the scheduler will reset storage when it expires" (`webhook_handler.go`), but
  the scheduler lists active rows only.
* `CancelPendingDowngrade` does not tell the provider, which still stops or
  changes the plan when the period ends.
* A charged webhook makes an expired row active without giving back its limits.
* A user the admin gave a package upgrades without a payment; `NoUnpaidLimits`
  leaves such users out.
* The verification of a checkout and the charged webhook both record the same
  payment: `RecordCharge` looks and inserts in two statements
  (`transaction_service.go:49`, "see if payment was already recorded") and
  `027_create_transactions.sql` has no unique index on the payment.
* A downgrade left on a row the admin cancelled is applied when its period ends
  and gives a free user the limits of its paid target
  (`subscription_service.go:716`, `:752`).

Upload invites and quota:

* Two completions of one file, or a completion beside the cleanup, may both
  pass the UPLOADING check, deliver twice to the owner's notices or give the
  capacity back for a file that stays ("makes retries safe / idempotent",
  `upload_invite_service.go:485`).
* `GetUserStorageUsed` does not count PENDING_SCAN files
  (`file_repository.go:311`), so the quota is overrun by what is being scanned,
  even by one request after the other: no property bounds it.
* A crash between `ReserveUsage` and `RecordFile` leaks the capacity: the
  cleanup finds files by their record.

Codes and accounts:

* `VerifyOTP` writes back TTL -2 of a key that expired meanwhile: the code
  then never expires in Redis (`redis.go:252`).
* Logins and codes go through when Redis cannot be asked: the e-mail limits
  are not enforced then, the passcode's are.
* `users.email` has no unique index and `Register` looks before it inserts: one
  address may get two accounts.
* A login by a linked Google account does not look at `deleted_at`, and neither
  does `RefreshTokens` ("blocks any future login/tokens",
  `admin_handler.go:317`); two refreshes of one token both succeed.
* `RestoreUser` writes by id only: a login that read a pending deletion undoes
  a deletion by the admin that came between.
* The rehash goroutine of a login restores the password that was changed in
  the meantime (`auth_service.go:232`).
* An error of `GetMFAFields` skips the second factor (`auth_service.go:207`);
  `SetupMFA` turns a factor that is on off without a code; `EnableMFA` may
  write back a secret that was replaced.
* `RestrictUser` "sets a temporary or permanent restriction", but without a
  deadline it restricts nobody: `IsUserRestricted` takes a missing one for none
  (`user_repository.go:578`, `:606`). Not modelled.

Folders and shares:

* A folder moved into one of its descendants makes a cycle ("Prevent cyclic
  nesting", `folder_service.go:106`): only the folder itself is compared.
* The error of the second UPDATE of `ToggleShareStatus` is ignored.
* Deleting a folder deletes the files of everyone in it and leaves its
  subfolders live, under a parent that is gone.
* `MoveFile` and the upload session do not look at whose the folder is or
  whether it is there.
* `SavePublicFolderToVault` gives the copy the same storage key, so that the
  delete of one takes the object of the other, and makes PENDING_SCAN files
  READY.
* Public listings read ten folders up, downloads five. Share rows outlive what
  they name, and no handler asks `CheckAccessPermission`.

## Not modelled

See the `not_modelled` components of `PROJECT.json` and the notes of the partly
modelled ones. Pure I/O (adapters of object stores, e-mail, PDF and image
processing), start-up, configuration and single-row CRUD stay out: packages,
consents, contact, roles, API keys, settings, restrictions and appeals, audit
and activity records, in-app notification rows. Algorithms such as TOTP are
functions of published standards.

## Plan

1. (done) `FileLifecycle` with proofs, `EphemeralShare`, `JobQueue` with `Delivery`.
2. (done) `Subscription`: the rows of one user against the payment provider.
3. (done) `UploadInvite` with the owner's caps and the quota check as a guard.
4. (done) `Attempts` and `Auth`: codes, limits, sessions, second factor, deletion.
5. (done) `FolderTree`: moves, publishing, deletes, shares.
6. (done) Proofs of the safety invariants and action properties the runs check.
7. Strikes, restrictions and appeals.
