# StarStats: TLA+ models and proofs

StarStats records what happens to a Star Citizen player. A desktop client (the
"tray", `crates/starstats-client`) tails the game's log, turns lines into events
with the shared library `crates/starstats-core`, keeps them in SQLite and sends
them to a server (`crates/starstats-server`, Axum over Postgres). The server
also owns accounts, paired devices, sharing, submissions, donations and an
append-only audit log. This directory holds TLA+ models of the parts where
order, concurrency and failure decide whether the program is right, the TLC runs
that check them and the TLAPS proofs that carry some results to every size.

`PROJECT.json` lists the components, the runs, for each definition the source
lines it models, for each property a mutant of the model that breaks it, the
theorems, and the hazards the properties are aimed at.

    tlc -workers 2 -config AuditLog.cfg AuditLog
    tlapm Community_proofs.tla

## 1. Inventory

### Data path

    Game.log --tail--> SQLite events --sync worker--> POST /v1/ingest --> Postgres events
       |  rotated        ^    ^  reparse    ^  token                        |   |
       +--backfill-------+    |        config.toml <-- pair_device     queries  audit_log --> MinIO
    launcher log, Crashes/ ---+                                        sharing pages

| Part | State | Operations | What is hard |
|---|---|---|---|
| Game log tail (`gamelog.rs`) | offset in memory and in `tail_cursor`, a channel of file notifications | drain, process_buffer, write_cursor | the game rotates the file under the tail; the tray dies between storing events and storing the offset; notifications arrive during a drain |
| Backfill (`backfill.rs`) | an offset per rotated log | run_once at start, backfill_file | replays a session the tail has seen in another way |
| Line parser, remote rules (`parser.rs`, `parser_defs.rs`) | rule cache, noise list, samples | classify, fetch_once, mark_event_as_noise | rules and noise change while two workers read lines |
| Burst detection, inference, transactions (`templates.rs`, `inference.rs`, `transactions.rs`) | none | detect_bursts, infer, pair_transactions | windows, gaps, ties, first rule wins |
| Reparse and reingest (`commands.rs`) | `events`, samples | three phases over pages of rows | runs next to the tail and the sync worker |
| Launcher tail, crash scanner (`launcher.rs`, `crashes.rs`, `discovery.rs`) | cursor, keys | drain, sweep_once | half-written lines and directories, a new file each day |
| Unknown lines (`unknown_lines.rs`, `storage.rs`, `parser_submissions.rs`) | `unknown_lines`, `parser_submissions` | capture, list, dismiss, submit | a batch written row by row, a lost answer, two first submissions |
| Health card (`health.rs`, `commands.rs`) | dismissals in `config.toml`, a cache | get_health, dismiss_health | a snapshot read in pieces, writers without the lock |
| Sync worker (`sync.rs`) | `sync_cursor`, one task, its handle | drain_once, respawn | timeouts with the request still on its way, aborted tasks that go on to their next await, two workers at a time |
| Ingest (`ingest.rs`, `repo.rs`) | `events` | one insert per event, ON CONFLICT DO NOTHING | 200 for a batch part of which failed, duplicates |
| Tray session (`config.rs`, `state.rs`, `commands.rs`, `sync.rs`, `main.rs`, `hangar.rs`) | `config.toml`, `auth_lost`, the worker handle | pair_device, save_config, refresh_account_info, submit_unknown_lines, dismiss_health, a worker's 401 path | load-change-save of one file by several tasks, no lock around all of them; answers applied late |
| Device pairing (`devices.rs`, `device_routes.rs`, `auth_routes.rs`) | `device_pairings`, `devices` | start, redeem, revoke, password reset | concurrent redemptions, a lost answer |
| Audit log (`audit.rs`, `audit_mirror.rs`, migration 0002) | `audit_log`, its sequence, the bucket | append | concurrent appenders under READ COMMITTED, the trigger, a mirror written after the commit |
| Accounts (`auth_routes.rs`, `users.rs`) | `users` with mailed tokens | sign-up, verify, e-mail change, reset, deletion | a token looked up in one statement and used in another |
| Sign-in (`magic_link*.rs`, `totp*.rs`, `recovery_codes.rs`) | links, secret, codes | magic link, TOTP setup, confirm, disable, recovery codes | overlapping requests of one user, one statement of several failing |
| Organisations and sharing (`org*.rs`, `sharing_routes.rs`, `share_metadata.rs`, `spicedb.rs`) | Postgres rows and SpiceDB relations | create and delete an org, grant, revoke, lazy expiry | two stores, no transaction over both |
| Share reports (`share_reports.rs`, `admin_sharing_routes.rs`) | reports, pauses | report, cluster check, resolve | counted before and after the insert, by several reporters |
| Submissions, staff (`submissions.rs`, `staff_roles.rs`, admin routes) | status, votes, flags, roles | vote, flag, moderate, grant, revoke | thresholds and transitions under concurrency |
| RSI verification and profile (`rsi_*.rs`) | code and expiry in `users`, snapshots | start, verify, refresh | a remote page read between two statements |
| Mail settings (`smtp_*.rs`, `mail.rs`) | one row, the transport in use | put_smtp | write, read back, swap |
| Queries (`query.rs`, `repo.rs`, admin lists) | none of their own | pages, summaries, breakdowns, sessions, timeline | rows commit out of the order of their numbers, several statements per answer |
| Reference data (`reference_*.rs`, `main.rs`) | `reference_registry` | refresh task, lookups | pages of a wiki that changes while it is read |
| Orders (`orders.rs`, `revolut*.rs`, `supporters.rs`) | `revolut_orders`, `revolut_webhook_events`, supporter rows | checkout, webhook | repeated and reordered deliveries, a failure after the deduplication row |
| Everything else | | | `PROJECT.json`, status `not_modelled`, with the reason |

The parts meet at a few places: the tail writes the table the sync worker reads
and a re-parse rewrites; the sync worker uses the token pairing has stored and a
401 removes it; a password reset revokes devices; deleting an account takes its
organisations and meets the constraints of the staff table; handlers of the
server append to the audit log after their own work and ignore its failure.

### What makes each part correct

- audit log: one verifiable chain; the mirror holds committed rows only and
  loses none; nobody waits for ever;
- delivery: an event behind the cursor has been answered for; an account is not
  sent what was settled before it was paired; everything is sent in the end;
- pairing: a code makes one device, together with being spent; a token can
  always be revoked;
- tail: stored offsets are never past lines whose events are not stored; nothing
  is counted twice; new lines are noticed;
- what is derived from lines: remote rules only add, bursts and inferred events
  are the ones the rules mean;
- re-parse: every stored line ends up classified by the rules it was started
  with, and the cursor never passes a row the server has not got;
- unknown lines: every capture counts, dismissed is dismissed, a stamp means the
  server has the shape;
- health card: errors are never hidden, a dismissal holds until the item changes;
- session: the stored config is the one that runs; a revoked token is noticed;
- accounts and sign-in: a link or a code works once and for whom it was made; the
  second factor is asked for only with a secret the user has proved;
- sharing: nobody is shown more than was granted; the pages agree with the
  enforcement and with each other;
- reports, submissions, staff, organisations: limits and thresholds hold with
  concurrent requests, what is decided stays decided, an administrator remains,
  nobody inherits a role;
- queries: pages miss and repeat nothing that was there when reading began;
  totals and lists agree;
- orders: a payment counts once, for the user who paid, and none is lost.

## 2. Modules

| Module | Models | Checked by |
|---|---|---|
| `HashChain` | abstract specification: a table of rows that only grows at its end, each row linked to the one before | `AuditLog` (refinement) |
| `AuditLog` | `append`, trigger, unique index, mirror | itself, `MCCommunity`, `Community_proofs` |
| `EventDelivery` | sync worker, local tables, ingest | itself, `Client_proofs` |
| `Donations` | checkout, webhook, supporter status; Revolut as environment | itself, `Sharing_proofs` |
| `GameLogTail` | tail and backfill, with `BurstDetection` inside `process_buffer` | `MCGameLogTail`, `GameLogTail_proofs`, `BurstDetection_proofs` |
| `TraySession` | config file, flag, workers, commands | `MCTraySession`, `TraySession_proofs` |
| `DevicePairing` | pairing codes, devices, password reset | `MCAccounts`, `Accounts_proofs` |
| `Accounts`, `SignIn` | account row and mailed links; password, magic link, second factor | `MCAccounts`, `Accounts_proofs` |
| `Sharing`, `SharingViews`, `ShareReports` | grants and enforcement; the pages; reports and moderation | `MCSharing`, `Sharing_proofs` |
| `EventQueries`, `Breakdowns`, `EventStats`, `AdminLists`, `ReferenceData` | cursor pages and summaries; counts and top lists; sessions, places, timeline; offset pages; the wiki's catalogue | `MCSharing`, `Sharing_proofs` |
| `Organisations`, `Submissions`, `StaffRoles`, `SmtpConfig`, `RsiProfile` | the modules' names | `MCCommunity`, `Community_proofs` |
| `Lists` | filtered and sorted lists, sums and running sums | used by `Submissions`, `RsiProfile`, `Health`, `LineParser`, `AdminLists`, `EventStats`, `Breakdowns`, `SharingViews`, `ReferenceData`; `Lists_proofs` |
| `Transactions` | `pair_transactions`, `age_status` | used by `EventStats`, `Inference`; `Lists_proofs` |
| `Reparse`, `LineParser`, `Inference`, `BurstDetection`, `LauncherTail`, `CrashScan`, `Health`, `UnknownLines` | the tray's other components and the core crate's algorithms | `MCClient`, `Client_proofs`, `BurstDetection_proofs` |

`MCAccounts`, `MCSharing`, `MCCommunity` and `MCClient` put several components
side by side with a variable `part`: a behaviour exercises one component and
leaves the others in their initial state, so each run explores the union of the
components' state spaces, not their product. The parts share model values for
requests in progress, which are interchangeable in each of them, and a property
of such a run is a conjunction of the component's own named properties. Where
components really act on the same state they are in one module: tail and
backfill, sync worker and ingest, re-parse and sync worker, the client's queue
and the server's table in `UnknownLines`, Postgres and SpiceDB in `Sharing` and
`Organisations`.

### AuditLog

One action per step of `append`: `Begin` (the SELECT's snapshot), `LockTail`,
`Insert` (sequence and trigger), `CheckIndex` (unique index on `row_hash`),
`Commit`, `MirrorPut`, and the failures `InsertRejected`, `IndexRejected`,
`CommitUnanswered`, `Abort`, `MirrorFailed`. The point of the model is
Postgres's READ COMMITTED: `SELECT ... ORDER BY seq DESC LIMIT 1 FOR UPDATE`
picks its row from the statement's snapshot, waits for that row, and returns it
although newer rows have been committed meanwhile, since nobody updated it.
SHA-256 is a free constructor. A row carries both its `seq` and the
`hashed_seq` that `append` computed, because the code has both. Object keys are
within one day.

### EventDelivery

An event is its local id. A worker is a numbered task; `Respawn` aborts the
current one and starts the next, `Drop` is the runtime dropping an aborted task
at an await, and a task past its last await still writes the cursor
(`WriteCursor`). A worker sends for the account whose token the config had when it
started, and a server row is of an account: the unique index is on handle and key.
`late` holds what a request whose sender has given up may still insert, in which
order and how much of it the server likes. `Ingest` and `IngestFails` insert any
subset of a batch. `IngestRejected` is the 401 or 403: it clears the stored token,
unless that fails, and sets `authLost`, and the loop starts no drain until `Pair`, a
restart or a good `/v1/auth/me` answer (`AccountAnswer`) takes the flag back. `Pair`
and `SaveConfig` respawn the worker, for another account too. A save of
`config.toml` is one step here; its truncation and its races are in `TraySession`.
`settled` remembers what was behind the cursor when an account was paired and
neither with the server nor on its way: `NotSentToNext` says it stays unsent to that
account. An aborted worker that has its answer may still set the cursor back, so
what it would uncover does not count as settled (section 6).

### DevicePairing

`Redeem`, `Claim` (row locked; device row written, not visible), `Commit`,
`AnswerToken` follow `PostgresDeviceStore::redeem` and the handler; `Abort` and
`AnswerLost` are its failures. The history field `code` of a device row records
which code made it. `ResetPassword`, `ResetRevoke` and `ResetRevokeFails` are the
two statements of `password_reset_complete`.

### BurstDetection, GameLogTail

`DetectBursts` goes through the rules, the lines and the members of a burst the
way the code's three loops do, each a recursive function; it returns a set, so the
code's last step, sorting by anchor, is the order in which `Beginnings` lets rows
be inserted. `MeantBursts` says what the rules mean without a scan (for rules whose
anchor and member are the same, which is the shape of every built-in rule).

In `GameLogTail` an offset counts lines. A partial last line is a line not yet
written. A line of kind "u" is dropped by `structural_parse`; one of kind "x" is
parsed and stands between the members of a burst, but has no event of its own. `Open`, `Read`, `Store`, `WriteCursor` are the awaits of `drain`; each
has its failure. `Rotate` renames the log; a session's rotated log is swept by
`Backfill` after the next start of the tray. A watcher notification follows
every write (`signal`, which coalesces like the drained channel). `DieStoring`,
`DieReplaying` and `Die` are a crash at any step.

### TraySession

`config.toml` is a token and the `enabled` flag, or `Empty` (missing, or just
truncated), or `Torn`: `fs::write` truncates and then writes, and two overlapping
saves can leave a longer text behind a shorter one. Every command is the sequence
of its loads, saves and flag writes. "touch" stands for `dismiss_health` and
`get_or_create_client_anon_id`, which rewrite the file and change nothing that
is modelled; dying between truncation and write costs the pairing. `Parts` says
which commands take part in a run; all are covered between the runs. The history variables `fresh` and `raced` record that a save
used a stale copy or that a load met a half-written file.

### Donations

`CreatePending`, `CreateOrder`, `Attach` are the three calls of `checkout`;
`Record`, `Duplicate`, `Lookup`, `Ignore`, `Mark`, `MarkPaymentReceived` the
awaits of `webhook`, with `HandlerFails` between any two of them. Several
requests run at a time. Revolut is external: a customer needs the URL to pay or
to fail at it, an unpaid order may be cancelled, each outcome is final, and
`Deliver` hands an event of the outcome to a free handler at any time and any
number of times. A failed `create_order` may have created the order. The bodies'
signature check and parsing change no state; dates and the name plate are left
out. `credits` counts the calls of `mark_payment_received` for an order.

### Accounts, SignIn

A request that reads in one statement and writes in another is two steps, and
two requests are open at a time; `RequestFails` and `CallFails` are a failed
statement or a crash. A mailed link is a number, a row's columns say which one is
outstanding. Passwords, hashes and the arithmetic of codes are left out: a code
is right for the secret it was made from. `SpentLinkDead` holds whatever crosses.
`VerifiedAddressProved` and `SecondFactorWhole` are claimed for accounts whose
requests did not cross, which the histories record; section 6 says what happens
otherwise. The two transactions of several statements are modelled as such under
READ COMMITTED. `delete_user` is `DeleteSelect`, `DeleteScrub` (the UPDATE of
`events`, which sees what is committed by then) and `DeleteCommit`; a row of `events`
knows which deletions have not seen it, and `late` the accounts that stored one too
late for theirs. `regenerate_for_user` is its DELETE (`ReplaceCodes`) and its commit
(`ReplaceCommit`), and `clear_for_user` likewise; a code is superseded only by a
DELETE that found its batch.

### Sharing, SharingViews, ShareReports

`Sharing` has the enforcement path with its races: the grant in SpiceDB and the
row with expiry and scope are written and read one after the other. SpiceDB answers
from `revision`, its relations at some earlier moment, since `check_permission` asks
for no consistency (`spicedb.rs:143`); `RevisionAdvances` is when it likes. A handle
in another case is one the row's deletion matches and SpiceDB's does not
(`delete_share_with_user` with `exact` FALSE), which leaves a `lingering` grant.
`muddled` are the viewers about whom requests overlapped or failed half way; for the
others `SharedAsAsked` holds, with the lingering grants named, and `ShownAsGranted`
for views that SpiceDB would allow by its present relations too. The state constraint `SharingBound`
cuts behaviours off when nothing is claimed any more. `SharingViews` takes each
request as one step and compares the pages with each other: owner's list,
viewer's list, preview, friend's summary and timeline, public page, moderators'
overview, all by SpiceDB's present relations; that they agree is part of `ReadsComplete`. `ShareReports` counts,
inserts and counts again.

### Organisations, Submissions, StaffRoles, SmtpConfig, RsiProfile

SpiceDB knows an organisation by its slug and the table by its id; all
organisations have one name, and slug k is its k-th candidate. Permissions and
member lists are answered from `orgRevision`, as in `Sharing`. A write that SpiceDB
reports as failed may have been applied (`CreateUndo`): the row is taken back and the
relation is not, and the slug joins `leftovers`, as after a clean-up that failed. The
state constraint `OrgsBound` cuts behaviours off when every slug has leftovers.
`Submissions`
takes the row locks of flag, withdraw and admin_transition as state. `StaffRoles`
includes the foreign keys and the CHECK of migration 0019, and the start of the
server with its bootstrap handles. In `SmtpConfig` a PUT is put, read back, swap.
In `RsiProfile` the RSI site answers between two statements and the owner of the
handle edits the bio at any time.

### EventQueries, Breakdowns, EventStats, AdminLists, ReferenceData

`EventQueries` separates the moment a row takes its seq from the moment it
commits: a page can be read while a lower number is still invisible, and
`PagesComplete` is about the rows that were visible when the reading began. Two
statements make a shared summary. `Breakdowns` and `EventStats` are operators over
a table that grows row by row, against reference definitions. `AdminLists` turns
the pages of a list by limit and offset while rows come and go. `ReferenceData`
fetches page by page from a wiki that may change in between.

### Reparse, LineParser, Inference, LauncherTail, CrashScan

`Reparse` is one SQLite file under `reparse_events` (three phases),
`reingest_rotated_logs`, the tail, the fetcher of rules and the sync worker; a
line is its offset, and a row's key says whether it is an event or a burst of a
certain size. The passing run has a log of three lines, so one scan folds at most
one burst: two bursts in one scan are not explored by it. `LineParser` keeps the stages of `classify` and their order; a line
is the set of things its body has. `Inference` compares `infer` and
`reconcile_supersedes` with a definition over the transaction list.
`LauncherTail` and `CrashScan` keep half-written lines and directories.

### Health, UnknownLines

`Health` reads statistics, file and system information at different times, as
`snapshot_health_inputs` does, and has the file's writers that do not take
`CONFIG_MUTATION_LOCK`. A save truncates (`DismissTruncate`, `UnlockedTruncate`) and
then writes (`DismissSave`, `UnlockedSave`); between the two the file parses to
`Config::default`, a write that fails leaves it empty or unreadable, two writes can
mix, and `get_health`, which takes no lock, may read at any of these moments.
`HealthHolds` says that answered dismissals are in the file when nobody saves, until
`overrun`: a writer without the lock has written an older or half-read copy, writes
have mixed, or one has failed after its truncation. `UnknownLines` goes from a
captured line to the server's table. The id of the install is a field of
`config.toml`: `otherWriter` is a save of one of its other writers, in its three
steps, and `idLost` says that an id in use went with it, or with a failed save of
`get_or_create_client_anon_id`, or was minted next to another. Nothing in the tray calls `classify_or_capture` or `cache_unknown_line`
yet; the module models what they do when it does, from a queue that is empty
today.

## 3. Runs

Twelve runs, each within five minutes with two workers.

| Run | Bounds | Shows |
|---|---|---|
| `audit_seeded` | 3 writers, 2 payloads, 3 appends, first row present | the scan verifies, the table implements `HashChain`, no mirror object is lost, every append returns |
| `delivery` | 2 events, batches of 2, 2 workers, for one account or two | the cursor stays behind the answers, a next account is not sent what was settled, every event is answered for once the session holds |
| `orders` | 2 users, 2 orders, 2 concurrent deliveries, 1 failure | a payment is recorded at most once, for the user who paid, and once in the end while nothing fails; a payable order is known to the webhook |
| `tail` | 3 lines in 2 sessions, up to 2 of them before the first start, 2 restarts, 1 I/O error | no line is lost to a crash, the sweep is complete, nothing is counted twice while the tray runs, new lines are noticed |
| `tray_safe` | pairing and settings, 2 tokens, 2 worker slots | the stored config has a running worker |
| `tray_live` | pairing, config rewrites, submissions, hangar, `/v1/auth/me`, 1 token, 1 revocation, 1 restart | a worker with a revoked token pauses in the end |
| `accounts` | 2 accounts, addresses and requests, 2 links, 1 row of events; 2 secrets, 2 batches of 2 codes, 1 magic link; 2 pairing codes, 3 devices | links, codes and pairing codes work once and for whom they were made |
| `sharing` | 1 viewer with 2 requests at a time, 2 grants; 2 reporters, 3 reports, limit 1, cluster of 2; 3 rows, pages of 1; histories of 4 events; 2 pages of the wiki | what is shown is what was granted, reports and pages miss nothing, derived numbers are what they mean |
| `community` | 2 members, 2 requests, 2 organisations; threshold 2, 2 submissions; 2 staff; 3 PUTs; 2 codes, time up to 3; audit log from an empty table, 3 writers, 4 appends | roles, thresholds and decisions hold; after the first rows nothing forks, a refused append means somebody else committed |
| `client` | logs of 3 lines, 3 row ids, histories of 3 events, 2 lines read by 2 threads, 2 days of the launcher, 2 crashes and sweeps, 2 changes of the world, 2 captures and submissions, windows of 8 lines | what is kept of the logs is complete and counted once, what is derived is what the rules mean, dismissals and stamps hold |
| `staff_v_deletable` | 2 accounts, 1 request | violation, see section 6 |
| `reparse_v_summary` | 5 lines, bursts of 3 | violation, see section 6 |

The bounds are small and chosen for the cases: two appenders make a race, the
third a committed row between them; two events give a full batch, a partial one
and an insertion during a drain; two workers a stale one next to the current one;
two sessions a rotation, two restarts a crash during the recovery from a crash;
two tokens a pairing over an older one; one row of events is one that a deletion misses; two handlers a duplicate next to its
original; two requests of one user an overlap, and two links or secrets a newer
one that replaces the older; limits and thresholds of one or two are reached and
passed; two organisations reuse a slug; three rows with pages of one leave a row
before, at and after the cursor. Constants of the code that only scale (page
sizes, times to live, thresholds) are lowered and named in the module that uses
them. The proofs below remove the bounds for every component but the pages and
statistics and, burst detection aside, the core crate's algorithms.

Deadlock checking is off everywhere: the bounds on appends, events, devices,
lines and restarts let every model come to rest.

### Fairness

The `accounts`, `sharing`, `community` and `client` runs check safety only.

- `AuditLog`: weak fairness of a handler's own steps: the database executes what
  it has accepted, the runtime polls what is ready. Nothing is assumed of
  failures. A handler waits only for row locks and index entries of
  transactions that themselves go on.
- `EventDelivery`: the worker's loop has no exit (weak fairness of `StartDrain`)
  and a request repeated for ever is answered with 2xx in the end, as is a
  cursor write (strong fairness). The second part is about the network and the
  server, not the code: `EventuallyAnswered` says that the client never stops
  trying, not that a batch the server refuses for ever gets through. A 401 or 403
  does make it stop, and nothing in the code brings the session back by itself, so
  the property has the premise that from some moment on the session holds
  (`<>[]Draining`: the flag is clear and the current worker lives). What it then
  says of the time before is that pauses, cleared tokens, pairings and respawns
  have lost no event.
- `GameLogTail`: weak fairness of the tail task. `LineNoticed` is claimed for
  behaviours without I/O errors, since a failed drain is not tried again before
  the next notification.
- `TraySession`: weak fairness of started steps; strong fairness of a refusal
  for a revoked token, which the server's extractor always gives when it answers.
  That a worker sends its batch again and again presumes that there is an event to
  send (`sync.rs:198`): without one nothing is refused either.
- `Donations`: a webhook request in progress is polled (weak fairness), and
  Revolut delivers ORDER_COMPLETED again until it has an answer of 200 (strong
  fairness, since a handler must be free). The second part is Revolut's promise,
  which the code relies on ("so Revolut stops retrying").

## 4. Proofs

`tlapm` checks eight proof modules to the last leaf, from the assumptions named
in the models: non-empty sets where a table has a first row, natural bounds,
null values that are not among the values, a finite number of requests in
progress where they are counted (`ReportLimits`, `NobodyAssumption` and the
like), and that the pairs of members, the values of a field and a wiki record's
identifier are what they are meant to be (`SharingViewsAssumption`,
`BreakdownsAssumption`, `ReferenceCatalogues`). The bounds are arbitrary naturals,
so the results hold for any of them. Every inductive invariant was checked by TLC
on the run's instance before it was proved.

**`AuditLog` (in `Community_proofs`).** `TypeCorrect` holds from an empty or a
seeded table. The chain result needs the seed. `ScanVerifies` alone is not
inductive: between the trigger's check and the commit another transaction could add
a row. `ChainInv` adds that a handler's tail is a committed row (`TailIsCommitted`),
that two handlers past the lock have different tails (`LockExclusive`), that a
pending row links to the last row of the table (`PendingExtendsTail`) and is new
(`PendingIsNew`), and that `seq` and `row_hash` each determine a row (`RowsKeyed`).
The lock matters here although it hands out stale rows: of the handlers past the
lock only the one holding the last row passes the trigger, so at most one row is
pending. `CommitExtends` then makes every commit a `HashChain!Append`, which gives
`ScanAlwaysVerifies` and `AppendImplementsHashChain`. From an empty table there is
no row to lock and the theorem is false (section 6). What remains of it then is
`NeverForksLater`: two committed rows that extend the same row are both first rows.
Its invariant, `ForkInv`, says that the lock on an existing row is exclusive
(`RowLockExclusive`), that a pending row links to its handler's tail and nothing
else extends that tail before it does (`PendingLinked`), that its seq and, past the
index, its digest are its own (`PendingKeyed`, `DigestsKeyed`), and that a row is
later than the one it extends (`ExtendsEarlier`). `MirrorOnlyCommitted` follows a
row from the commit to its object; `MirrorKeysDistinct` is about the seeded table,
and `RefusedOnlyForProgress` compares the tail a handler has read with the rows
committed since.

**`BurstDetection_proofs`.** `ScanRule`, `Walk` and `DetectBursts` are recursive
functions; that such functions exist and what they compute is proved by least
counterexample (`LeastNat`), with no induction theorem that takes an operator as a
parameter. `DetectHits` says that the bursts of a window are walks of their rules
from a first line, and that no two share a line, because no line counts for two
rules (`RulesOK`). `DetectMeans` compares the scan with what the rules mean, for
rules whose anchor is their member, as the four of `burst_rules.rs` are
(`RulesMean`): a burst is a maximal chain of members with at most `gap` other lines
between neighbours, long enough, of lines no earlier rule took (`MeantBursts`). A
walk stops at the end of the chain it began (`WalkReaches`: what it holds at a line
is the chain so far, and its gap is the distance from the last member), the scan
resumes past it and meets the next head and no other (`HeadsAfter`, `ScanMeans`),
and what earlier rules have consumed are the chains that were long enough
(`ChainsAre`). A head that is passed over because its chain is too short is tried
again from its second member and fails again, since what is left of a chain is no
longer than it was. `DetectGrows` says that a longer window keeps each burst:
links of the shorter window are links of the longer one (`LinksStay`).

**`GameLogTail_proofs`.** Everything rests on the idempotency key. A row is
dropped when a stored row has its key, and the key of a summary has only its first
line, its rule and its size, while the same lines are cut differently by the next
drain after a crash and stored singly by the sweep. Walks of a rule from one line
over the same log are nested, however far each goes (`ChainsNest`), so those of the
same size are the same (`SameBurst`): the key tells rows apart as well as the rows
themselves do, and an insert loses none (`InsertIs`). The other half is the
induction: `TailInv` says that every row is one the log means (`RowsMeant`), where
the tail, the cursor and the sweep stand in which session's log (`Positions`), and
that what is behind the tail (`MemKept`), behind the stored cursor (`DiskKept`) and
behind a sweep (`SweptKept`) is stored, skipped or refused. `MemKept` is what a
crash between storing and `write_cursor` needs, and `CursorSafe` and
`SweptComplete` follow. `NoLineTwice` needs `FirstRun`: before a restart the sweep
reads only sessions older than the tail's, each once, and the tail's rows end where
it has got to. After a restart it is false (section 6). `TailTyped` and
`RowsAreMeant` are the rest. The rules need only share no lines (`RulesAssumption`).

**`Accounts_proofs`.** Three invariants.
- `PairingInv` adds that a request past its lookup has an existing code, that at
  most one transaction holds an unspent code (`ClaimsExclusive`), and that a
  signing handler's device is committed (`SigningHasDevice`). It gives
  `PairingSingleUse`, `RedeemAtomic`, `TokensRevocable`, and together with the types
  `PairingAlwaysSafe`, which is the `PairingSafe` of the `accounts` run.
- `AccountsInv` follows a mailed link: it is mailed for one account and purpose
  (`LinksDistinct`), a token in a row or in a request's hands is one that was mailed
  (`TokensMailed`), and what the link and the request carry is the row's address
  unless requests crossed (`AddressesKept`). A request about to delete an account
  has written its audit row (`AuditInv`), and a handle names one live account
  (`EventsInv`), which is why a deletion takes nobody else's events. A row of events
  that a deletion under way does not see was stored late (`UnseenLate`), so what a
  deleted account left under its handle is late too (`AccountLinksSafe`).
- `SignInInv`: while no write tore another request's sequence, an account's row is
  as the request that works on it read it (`FactorUndisturbed`), so secret, flag
  and codes change together. Stored recovery codes are of batches nobody has
  superseded, since a DELETE on its way has seen all it will supersede
  (`CodesCurrent`), and have let nobody in; a magic link is unspent in the table or in
  the one request that took it (`CredentialsUnspent`), which gives
  `SecondFactorSafe`. `CurrentCodesOnly` is the action property that a code of a batch
  that a regenerate or a disable has found and replaced never lets anybody in, even
  for a redeem that read its row before.

**`TraySession_proofs`.** `ConfigIsRunning` is about moments when nothing is under
way. `SessionInv` says what holds in between: unless steps raced, a worker runs
with the token of the file or a respawn is under way that will start one or read
the file again, and the same of the copy `dismiss_health` is about to save
(`FileServed`); a fresh copy is the file's unless a save has begun (`FreshCopy`);
what a worker is about to save has no token (`WorkerClears`); and the handle names
a running task that was not aborted (`HandleRuns`). `ConfigAlwaysRunning` and
`TrayTyped` follow. Proving it showed that the CASE of the model's `Restart` had
overlapping guards, for which TLC takes the first; the guards now exclude each
other.

**`Sharing_proofs`.** The invariant is stated per viewer (`ViewerInv`), with a
frame lemma for the viewers a step does not concern. Unless a viewer is muddled,
requests that overlap are views; a request between its two writes has changed the
grant (`GrantWritten`), otherwise SpiceDB and the row are what the owner asked for,
but for a lingering grant (`SettledElse`), and a view that is due nothing finds a row
that refuses it (`RowRefuses`); one that was let in by an old revision is not among
those. For `ShareReports` requests past the rate limit count towards what
a reporter may reach (`RacersCounted`), which is why the excess is at most the
number of requests in progress less one, and a cluster has led to a pause or some
request is about to count it (`ClusterCounted`). `SharesAlwaysSafe` and
`ReportsAlwaysSafe` follow.

`Donations` is proved about in the same module. `CreditedOnce` needs to know why the
fence works: `DonationInv` adds that past the fence a handler has its deduplication
row, and has it alone (`FencedAlone`), that an event in a handler is one Revolut
emitted (`EventsGenuine`), that only ORDER_COMPLETED reaches the credit, of an order
already completed (`StepsMeant`), and that a credited order's ORDER_COMPLETED is
behind the fence for good (`CreditSpent`). `CheckoutOrdered` says the URL is
answered after the row has Revolut's id, which gives `PaidOrdersKnown`.
`PaymentRecordedOnce`, `SupportersHavePaid` and `DonationsTyped` follow, for any
number of users, orders, handlers and failures.

The reads are proved about there too, each with an invariant of its own.
- `PagesHold`: between two pages the client has had every row of those that were
  listed when it began and that its cursor has passed (`PagedTo`); a row that
  commits below the cursor later was not among them. Between the two statements of
  a summary what was counted was visible (`ViewerKnows`).
- `ListsHold`: what an administrator is still due is at or behind the offset, as
  far as nothing was deleted (`DueAhead`), and what was had is before it
  (`HadBehind`): rows are added at the front only.
- `RetriesHold`: the flag that the task carries from category to category is set
  exactly when one was missed (`RoundKnown`).
- `StatsHold`: the history is in the order of its times (`HistoryOK`), from which
  the rest follows for a history of any length. A session id counts the
  boundaries so far, so that sessions are the stretches between idle gaps; the
  trace so far is the entries of the events so far, with how many events each
  entry ends at (`IsTrace`, by induction along the list); the dwell of a place so
  far is the running sum of the waits at it (`Tallied`); a day of the timeline
  that is not the oldest lies in the window.
- `CatalogueHolds`: a fetch that saw no edit has the pages before the one it asks
  for, and at the end the whole list (`FetchKnows`, with `NextPageIs` on the
  arithmetic of pages); a row's key is its own (`Keyed`), and of the list stored
  last the last entry of each key is among the rows (`ShownBy`). It assumes of the
  wiki that a record's identifier is one (`ReferenceCatalogues`).
- `SharingPagesHold`: while no metadata write has failed, a pair has a row exactly
  when SpiceDB has it (`ViewsInv`). The moderators' numbers then add up by counting
  the active shares by scope and by owner (`SumOfKinds`).
- `TotalsHold` needs no more than that rows are counted (`PlayedInv`). A list is
  ranked by how many buckets are ahead, which is an order (`AheadOrders`,
  `RankedIs`); cutting it keeps the first (`TopIs`), and what is said of one query
  (`BreakdownIs`) is said of two merged (`ZonesAsMeant`).

`ReadsHold` joins them: `ReadsComplete`, all of it, for any values of the limits and
tables of any length.

**`Community_proofs`.** Besides `AuditLog`, five invariants, one per component;
together they give `CommunitySafe`, all of what the `community` run checks
(`CommunityHolds`).
- `AdminStays`: the request's own rule (nobody revokes their own admin role) is
  part of `StaffInv`, since it is checked before the write and used at it.
- `MailerFollows`: unless PUTs overlapped there is one at a time, and what it is
  about to swap in is what the row says (`SmtpInv`).
- `HandleVerifiedByOwner`: a check in progress is of a code that was good when it
  was read, and a code is about to be written by a request that found none that
  was good or that looked before the present one was issued (`RsiCallOK`). The
  second half gives the code's part of `DecisionsKept`.
- `FlagsEscalate`: a request that writes holds its row's lock and the row is still
  as it read it (`Holds`), so the flaggers it counts are the ones there are; flags
  and flaggers are equally many by a bijection. The same fact gives the
  submissions' part of `DecisionsKept`: a transition is from an open status.
- `RolesHold`: under a slug with nothing left behind there is one request at a
  time, it and all relations are about the organisation that has the slug, and
  there are no relations before the owner's is written or after the clean-up
  (`SlugClean`); a creation that was taken back after its write was applied leaves the
  slug's name in `leftovers`. That a new organisation inherits nothing follows from a relation's
  id being one that was given, and that of a slug without a row being 0.
- `QueueShowsAll`: the list by last update has every submission once, and following
  the queue's pages with any limit but 0 shows each waiting one exactly once, by
  least counterexample over the pages. It rests on `Lists_proofs`, as does the
  lemma that `sanitise_orgs` leaves one main organisation at most.

**`Lists_proofs`.** `Lists` has filters as a recursive function and sorted lists as
a choice by rank, so that they can be reasoned about: a filter keeps the elements
and their order (`FilteredIs`, `FilteredOrder`), a sorted list has every element of
the set once and is in order, and a running sum grows by the next number
(`TotalsAre`). A sum over a set is the number of pairs of a member and a unit of
it (`SumOver`), which adds up over disjoint sets (`SumOfBoth`) and, when it counts a
set by kind, is the size of the set (`SumOfKinds`). `PairsArePairs` is about `pair_transactions`, which client and server
share: it gives a request at most one response, not before the request, and uses a
response once.

**`Client_proofs`.** One invariant or more per component of the tray.
- `UnknownsAlwaysKept`: a shape's row has the count of its captures and the window
  of the latest as samples (`RowsKept`); the pane and a batch have one entry per
  shape, what a batch shows was redacted when it was made (`BatchesRedacted`), and
  a stamp is behind what landed (`StampsLanded`). For the one submitter, the ids that
  exist are counted against the submissions that started (`IdsCounted`), and until
  an id was lost all that are about are the one in the file, or the one that the
  writer that has truncated the file is about to put back (`OneInstall`).
- `LogsAlwaysKept` joins three. For `Reparse`, only the walk changes rows, so a row
  of its page is still what it was read as (`BatchCurrent`), and a row behind the
  walk has its class or is in the page (`WalkedRight`); a batch of the sync worker
  has every row from the cursor to its last one but those deleted meanwhile
  (`BatchWhole`). For the launcher tail, lines are stored once, up to the cursor
  (`LinesNumbered`, `LauncherStoredOnce`, `CursorsKept`, `TailKept`). For the crash
  scanner, what a sweep found is still to do or has its event, unless an insert
  failed (`SweepKnows`).
- `DismissalsHold`: until the file is overrun, who saves under the lock has the
  answered dismissals in the copy, and so has the file whenever nobody saves
  (`DismissalsKept`), and the dismissals a snapshot has read include those answered
  by then, unless it was read during a save (`SnapshotsKept`). What the card
  shows is the sorted list itself, so the theorem is `HealthHolds` as the run
  checks it.
- `DerivationsHold`. For the parser: a line the built-in rules recognise is kept as
  they have it (`AsBuiltIn`), the active rules are those compiled from the cached
  ones when no fetch is under way (`RulesCurrent`), and the recognised lines are as
  many as the events made. For `Inference`: `pair_transactions` pairs
  requests with responses of the same shop, whatever the timestamps
  (`PairsArePairs`); the fold over terrain loads is followed by what
  it knows after each event (`Travelled`), which gives that two inferred moves are
  never in a row from the same planet; and `InferenceAgreesWith` puts timeouts next
  to the pairs. For bursts, the built-in rules of the run are fit for `DetectMeans`
  and `DetectGrows` (`RulesAreFit`).

`EventDelivery` is proved about in the same module. `DeliveryInv` adds to the three
properties what a batch in flight knows: every stored row up to its highest id is in
the batch or was answered before (`BatchCovers`), a worker past the answer has a
batch that is answered (`AnswerCovers`), and an answered event is on the server or
was refused (`AnsweredSettled`). It survives a stale worker that writes an older
cursor, and deletions, because ids are never reused. `CursorSafe`, `DeliverySafe`
and the types (`DeliveryTyped`) follow. `NextAccountSpared` needs more: a settled
event stays behind the cursor and behind every cursor still to be written, and out
of the batches and late requests of its account (`SettledKept`), because every task
but the current one has been told to stop and sends nothing new that is answered
(`OnlyCurrentRuns`).

Only model-checked: the liveness properties, since fairness and ENABLED are out of the
prover's reach. Every invariant of the runs is a theorem.

No module declares a RECURSIVE operator; loops that are proved about are recursive
functions.

## 5. Not modelled

Wording, formatting, logging, counters for display and most timestamps.
Signature, password and TOTP cryptography, and with the password's hash
`change_password`, which writes nothing else. In `LineParser` the second statement of
`add_noise` and the insert of `ingest_one_line` do not fail; in `Reparse` the server
stores every event of a batch it answers with 200. What a regular expression captures:
a line is the set of things it has. `match_templates` of `templates.rs`, which
only its tests call. Fetching and parsing the pledge page; in `TraySession` there
is only the hangar worker's token and gate. Preferences and hangar snapshots, one
upsert per request. Composing and sending mail. Start-up wiring, configuration,
tracing, the OpenAPI document; the web application and the tray's presentation
but for what the review pane sends. The components with status `not_modelled` in
`PROJECT.json` give the reason. File notifications are taken to arrive in the
end, as the platform watcher promises. Account deletion removes a user's devices
and codes by cascade; `Accounts` and `StaffRoles` have the deletion,
`DevicePairing` does not repeat it.

## 6. Disagreements met while modelling

Two have a run of their own, listed under "findings":

- `staff_v_deletable`: whoever has revoked somebody's staff role cannot delete
  their account. `staff_roles.revoked_by_user_id` is ON DELETE SET NULL, while the
  CHECK of migration 0019, line 36, wants a revoker for a revoked role; the DELETE
  of `users.rs:952` fails. The privacy page promises the deletion.
- `reparse_v_summary`: phase 1 of `reparse_events` reclassifies a burst summary by
  its raw line, the anchor's, so it becomes an ordinary event; phase 3 takes it as
  a member, the new summary has that row's key when the run has the size of the
  old burst, the INSERT does nothing, and the loop over the members deletes the
  row. The comment at `commands.rs:946` excludes this.

The models contain these too; the properties are stated so as to say what does
hold next to them.

Audit log

- `audit.rs:6` says FOR UPDATE serialises concurrent writers. A writer that
  waited is given the old tail, its row is refused by the trigger, and the callers
  only log the lost entry. `RejectionMeansProgress` is what remains.
- From an empty table two first appends both commit over the zero hash
  (`audit.rs:164`), and since both have computed seq 1 the second mirror object
  replaces the first (`audit_mirror.rs:183`, whose comment says keys never
  collide). With `Seeded = FALSE`, `ScanVerifies` and `MirrorNeverOverwrites` fail.
- `append` hashes the tail's seq plus one (`audit.rs:163`); after a rolled-back
  INSERT the stored seq is another, so a verifier that recomputes hashes from the
  stored seq (migration 0002, line 16) fails. The links still verify.

Delivery and the tray's session

- `sync.rs:12` says events never get lost because the cursor moves on 2xx only;
  `ingest.rs:256` answers 200 for a batch with failed inserts.
- A 401 or 403 pauses the loop (`sync.rs:156`) until the next pairing or restart, or
  until an `/v1/auth/me` answer, also a late one, takes the flag back; a worker
  whose token was cleared keeps its own copy.
- The cursor is not per account. A tray that is paired with another account goes on
  where it is, but an aborted worker of the old one may still set the cursor back
  (`sync.rs:247`): what it uncovers is sent to the new account as well.
  `NotSentToNext` is about everything else.
- `commands.rs:1378` says that after a successful pairing the worker drains. The
  old worker's 401 path may overlap with `pair_device` and remove the new token.
- Two overlapping respawns can leave a worker without a handle (`sync.rs:84`,
  117). `ConfigIsRunning` asks for one live worker with the stored token.
- A failed device lookup is answered 401 like a revocation (`auth.rs:452`) and
  logs the tray out.
- `pair_device`, `save_config` (which also writes back the whole config the UI
  loaded earlier, `commands.rs:271`), `get_or_create_client_anon_id` and a worker's
  401 path save `config.toml` without `CONFIG_MUTATION_LOCK` (comment at
  `commands.rs:1774`): a lost update is possible, and `fs::write` truncates first
  (`config.rs:665`). `ConfigIsRunning` is claimed while none has happened.
- A refused submission sets `auth_lost` and leaves the token (`commands.rs:2000`).
- The hangar worker keeps a refused token until the tray restarts (`main.rs:497`),
  and a new pairing lets it push with it again (`hangar.rs:136`).
- `password_reset_complete` answers 200 when the revocation of devices fails
  (`auth_routes.rs:950`), and open pairing codes outlive a reset.

Logs and what is derived from them

- After a crash between storing a burst and storing the offset, a burst that has
  grown is stored a second time, since its size is part of the key
  (`gamelog.rs:288`, against 215). After a restart with a rotation behind it the
  backfill stores burst lines one by one. `CountedOnce` is therefore about a tray
  that keeps running.
- Rotation is noticed only when the new log is shorter than the offset
  (`gamelog.rs:138`); otherwise the beginning of the new session is skipped until
  the backfill of a later start. `SweptIsComplete` is what remains.
- A re-parse started under older rules reverts what newer rules had classified,
  and rows below the sync cursor are never sent again after it.
- The launcher tail stays with the newest file at its start, and a line's key
  does not contain the path. The crash scanner orders a directory's logs by name
  (`crashes.rs:87`), and a crash's size is that of its first sweep.
- A rule whose pattern misses ends `apply_remote_rules` (the `?` at core
  `parser_defs.rs:140`) although the comment at 122 says the first match wins. A
  known shell whose body misses is not tried by body prefix (`parser.rs:445`). The
  manifest the server publishes is empty.
- `infer` is called by nothing outside the core crate. `pair_transactions` pairs
  responses in the order they are given, although `transactions.rs:68` says the
  events are sorted first.
- A dismissed HangarSkip or DiskFreeLow comes back with each attempt or each
  change of the free space, since these are in its fingerprint.

Unknown lines

- `sql/schema.sql:103` says a submitted row should stop accruing raw samples;
  `cache_unknown_line` adds them whether `submitted_at` is set or not. The samples of
  `UnknownsKept` are the latest lines, as the code keeps them, of a submitted row too.
- `commands.rs:1932` says a submitted shape is no longer surfaced;
  `list_unknown_lines` does not look at `submitted_at`. Submitting it again sends
  the cumulative count again, which the server adds; so does a retry after a lost
  answer or a half-written batch. `UnknownsKept` claims at least the stamped count.
- The score is the first capture's: what a shape gains by recurring is never
  added. The private tokens are the first capture's too, while the line shown and
  sent is the latest, so positions may not fit. `UnknownsKept` claims the default
  redactions for lines whose own tokens they are.
- The id of an install is a field of `config.toml` (`config.rs:67`). Two first
  submissions at once make two, and a save of the file's other writers from a copy
  without it, one that overlaps with another or one that fails loses it; the next
  submission is another submitter then, and its cumulative counts are counted twice.
  `UnknownsKept` claims one submitter until an id was lost.

Health card

- `CONFIG_MUTATION_LOCK` (`commands.rs:1774`) keeps `dismiss_health` from itself only.
  `config::save` truncates and then writes (`config.rs:665`), and an empty file
  parses to `Config::default`: a save that fails half way loses every earlier
  dismissal, with the pairing; `get_health` reads without the lock
  (`commands.rs:1687`) and shows dismissed items when it meets the truncated file; a
  file cut or mixed in the middle does not parse, and no command that loads it works
  until it is saved whole. `HealthHolds` names each of these.

Accounts

- `email_change_verify` commits whatever address is pending by then
  (`auth_routes.rs:1097`), also one staged after its link was looked up.
- Requests of one user that overlap can leave the second factor half set up:
  enabled with another secret, or off with codes left (`totp_routes.rs:291`).
- Two regenerations that overlap do not see each other's codes: the DELETE and the
  INSERTs of `recovery_codes.rs:101` run under READ COMMITTED with no lock on the user,
  so both batches stay, and a code of the first lets somebody in.
- An event that is ingested while its account's deletion is between the UPDATE
  (`users.rs:937`) and the commit, or afterwards with a token that has not run out,
  stays under the handle and is shown to whoever takes the handle next.
- Two administrators can revoke each other at the same time.

Sharing, organisations, submissions, mail

- `check_rapid_grant` counts `share.created` (`sharing_routes.rs:1856`), while
  `add_share` writes `share.granted` (811): the limit of the comment at 1826 and of
  `CHANGELOG.md:58` never bites, and `total_grants_30d` of the overview is 0
  (`admin_sharing_routes.rs:155`).
- An expired share is treated as none, but its grant and row stay until somebody
  looks; the lazy revocation removes a re-share that comes between its read and its
  deletes (`sharing_routes.rs:1314`).
- The grant is written before its row: for a moment it is unlimited, and when the
  row's write fails it stays so. A failed delete of the row leaves metadata for a
  later grant, which the comment at 879 calls benign.
- When the row cannot be read the view goes on without expiry or scope. The
  summary ignores `window_days`. The report list is cut at 200 rows.
- `check_permission` lets SpiceDB answer from an older revision (`spicedb.rs:143`). A
  view that is let in so after an unshare or a lapse finds no row, and no row is no
  limit: it is shown everything. A role may be asked for, and a member list shown, as
  they were before the last write, also for the organisation that had the slug before.
- `delete_share` passes the handle in the caller's case (`sharing_routes.rs:855`) to
  SpiceDB, which compares with case, and to the metadata, which does not. An unshare
  in another case is answered and recorded, the row is gone, and the grant stays, now
  without limits, until it is named as it was written.
- A failed clean-up in SpiceDB does not stop the deletion of an organisation
  (`org_routes.rs:497`): the next one with the slug starts with its relations. So
  does the next one after a creation whose `write_org_role` was answered with an error
  but applied: `create_org` takes back the row only (`org_routes.rs:270`).
- Creating a submission is answered 500 although the row is stored:
  `lookup_handle` (`submissions.rs:828`) reads a column `preferred_username` that
  `users` does not have.
- Overlapping PUTs of the mail settings can leave the older transport in use
  (`smtp_admin_routes.rs:264`).

Queries, reference data, orders

- A breakdown merges lists that were each cut before, so a merged count can be
  too small, and a NULL group takes a place of the limit. The planet labels of two
  queries differ.
- Wiki entries are never deleted; a page without `meta` counts as the only one;
  vehicles lose manufacturer and hull size; the lookup ignores case, the key does
  not. `fetch_vehicles` is not called.
- The webhook writes its deduplication row before it processes the event
  (`revolut_routes.rs:395`). When `mark_state` or `mark_payment_received` then
  fails, the redelivery is answered "duplicate" and the payment is never credited,
  although the comment at 392 says a duplicate is one "already processed".
  `PaidIsCredited` is claimed while nothing fails.
- `mark_state` overwrites any state (`orders.rs:236`). `SupporterHasPaid` relies
  on Revolut's terminal events excluding each other, as the comment at
  `revolut_routes.rs:437` does.

## 7. Plan

What is left, in order of importance:

1. An abstract one-time token that the magic link and the pairing code implement.
2. `match_templates` when something calls it; the hangar worker's fetch.
