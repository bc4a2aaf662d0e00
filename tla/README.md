# DataShuttle playground: a TLA+ model of the session server

The playground server (crates `datashuttle-playground` and
`datashuttle-playground-server`) hands out short-lived sessions. A session is an
entry in an in-memory map, plus things made for it elsewhere: a schema in a
source database, a connection and a shuttle in the registry of the OSS api, an
Iceberg namespace with its files, a replication slot, a kafka topic. This directory
models how requests are let in and charged, how sessions are granted, extended,
saved, restored and expired, how what was made for them is made and removed again,
and what the text functions on the way make of a script, with requests, background tasks, failures and
restarts interleaved.

Source paths below are relative to `src/`; `lib/` stands for
`crates/datashuttle-playground/src/` and `server/` for
`crates/datashuttle-playground-server/src/`.

## Inventory

| Component | Source | State | Operations | Hard behaviour |
|---|---|---|---|---|
| Session store | `lib/sessions.rs` | `sessions`, `per_user` (two `RwLock` maps), two clocks per session | create, get, update, extend, end, touch_action, sweep_expired | replaced but unswept sessions; monotonic clock lost on restart; two locks, held together; a lookup in two reads |
| Persistence | `lib/sessions.rs` 100-154, 343-373 | `sessions.json`, `sessions.json.tmp` | persist, hydrate_from_disk | saves run outside the locks and share one temporary file; a dropped request leaves its write running |
| Daily quota | `lib/quota.rs` | tenant -> (date, count) under a mutex | try_consume, peek | date read before the lock; midnight; restart |
| Lifecycle handlers | `server/handlers.rs` 242-800 | none of their own; a sequence of awaited calls | create_session, reset_session, end_session, extend_session, execute_action | every await is a scheduling point; the session may end meanwhile |
| Teardown | `server/handlers.rs` 1824-2030 | none | teardown_session | best effort, several steps, cut short by a crash or a dropped request |
| TTL reaper | `server/handlers.rs` 2035-2070 | its loop | tick, sweep_expired, teardown one by one | races with requests of the same session |
| Orphan sweep | `server/handlers.rs` 2090-2212 | two snapshots | runs once per boot, in the background of a serving process | decides from a stale snapshot |
| Api client | `server/api_client.rs` | none | exec_sql (statement -> REST call), request | timeouts, refused statements |
| Source dispatcher | `lib/tcp.rs`, `server/dispatcher.rs` | lazily built pools | provision, exec, teardown per source kind | fallback to docker shell, search_path fall-through |
| Manifest | `lib/manifest.rs` | immutable after boot | load, validate, deployment gate | two lists of actions, one whitelist; invalid files are skipped |
| Request gate | `server/router.rs`, `server/identity.rs` | none | bearer check, identity headers, error mapping | order of the checks; exempt paths listed twice; charge before creation |
| SQL text functions | `server/handlers.rs` 1729, `server/api_client.rs` 293-325, `server/dispatcher.rs` 245-315 | none | statement splitting, comment stripping, tokenising | quoting |
| Metrics, configuration | `lib/metrics.rs`, `server/config.rs`, `server/main.rs` | counters | record, load | none read back |

Interactions: a handler calls the quota, then the store; then, outside any lock,
the dispatcher and the api client, one call after another; then the store again.
The reaper takes expired sessions out of the store and runs the same teardown as
`end_session`. The orphan sweep reads the store once, the registry twice, and runs
the same teardown. A restart keeps `sessions.json` and everything outside the
process and loses the rest.

What makes each part correct:

* store: one live session per user, a pointer that never dangles, two clocks that
  do not contradict each other, a lifetime cap, lapsed sessions leave the map;
* persistence: the file is always parsable, and is the map once things are quiet;
* quota and gate: no more than the cap per date, in charges and in sessions, no refusal
  below it; what the gallery lists can be started and nothing else; probes always answered;
* locks: no call waits for ever, no half-made change is seen, actions are spaced;
* text functions: a statement ends where its reader ends it;
* dispatcher: scripts that stop where they failed, or leave nothing; teardown that clears;
  no request stuck behind a pool;
* lifecycle: teardown only after the session left the map, nothing left behind that
  no later pass can find, live sessions left alone, statuses that tell the truth.

## Modules

| Module | Models | Used by |
|---|---|---|
| `SessionStore` | what the store promises: two maps and calls that take effect at one moment | refined by `SessionManager` and `StoreLocks` |
| `SessionManager` | the store at the grain of one call under its locks, with `persist()` as a save that reaches the file or is dropped, restart, and time | `SessionManagerProofs` |
| `StoreLocks` | the same calls at the grain of the two locks and of the steps between them, with the action cooldown and the event log | `MCStoreLocks`, `StoreLocksProofs` |
| `SessionPersist` | `persist()` at the grain of its system calls, any number of requests at once | `SessionPersistProofs` |
| `MirroredStore` | the abstract promise: a map in memory, a complete earlier copy on disk, a restart that continues from the copy | refined by `SessionPersist` |
| `Quota` | the daily cap, with the date read in a step of its own | `QuotaProofs`; refined by `Admission` |
| `Manifest` | loading, validating and querying the scenario manifest (operators only) | `Admission` |
| `Admission` | the way of a request through both middlewares and `create_session` up to the store; composes `Quota` and `Manifest` | `MCAdmission`, `AdmissionProofs` |
| `SessionLifecycle` | handlers, reaper and orphan sweep, one awaited call per step | `MCSessionLifecycle`, `SessionLifecycleProofs` |
| `SourceExec` | the TCP dispatcher at one session's source: pool, provisioning, scripts, teardown, for each of the four kinds of source | `SourceExecProofs` |
| `SqlText` | statement splitters, comment stripping, Redis tokenizer | `SqlTextProofs` |
| `SessionManagerProofs`, `StoreLocksProofs`, `SessionPersistProofs`, `QuotaProofs`, `AdmissionProofs`, `SessionLifecycleProofs`, `SourceExecProofs`, `SqlTextProofs` | theorems | |

The views of a session overlap on purpose and each leaves to another what
it does not need: `SessionManager` has clocks and one-step saves, `StoreLocks` has the
locks and a flag for "expired", `SessionPersist` has saves in steps and opaque maps, `SessionLifecycle` has the
set of ids in the map and the artifacts; what happens inside the schema artifact
is `SourceExec`.

### SessionStore

An id has an owner and is expired or not; there are no clocks, no file and no locks. Create
takes an unused id and is refused while the user's pointer leads to a session that is not
expired; the sweep takes exactly the expired ones; only the owner's end takes another;
an extension brings an expired session back as long as it is in the map; a restart leaves
some of the ids there have been, and pointers for their users. `Call`, `Ended` and
`Restart` are kept apart so that an implementation can say which of its steps may do what.

### SessionManager

`sessions` is a partial function from ids to records of owner, wall-clock deadline
(`expires_at`), `ttl` and monotonic anchor (`created_monotonic`); `perUser` is the
per-user pointer; `file` the last snapshot that reached the disk, without the
anchor, which serde skips. `now` stands for both clocks: they advance together,
and what differs is where each session's anchor is. `issued` keeps v4 ids from
repeating. `lateExtenders` and `hydrated` are history variables the properties
need. `lifetimes` is what `create` may use: a requested lifetime within the limits, or
the configured default, which `effective_default` replaces at start-up when it is out of
range. `Remove` is shared by `End` and `SweepExpired`, as the pointer rule is
the same in both. Fields no decision of the store depends on (scenario, names,
status, events) are left out; an entry whose status is `Ended` is never in the
map, because `end()` and `sweep_expired()` set it on the removed copy. `KeepsStore` says that
this implements `SessionStore`, with "expired" computed from the two clocks, that
only `End` ends and only `Restart` restarts.

### StoreLocks

A call is a short program of lock, unlock and work steps; the programs (`create`, `end`,
`sweep_expired`, `touch_action`, `get_user_session`, ...) are the methods' bodies in order.
A tokio `RwLock` is a set of holders and a first-come queue, in which a reader waits
behind a waiting writer; this, and that guards go with a dropped or panicking call
without poisoning the lock, is external knowledge. `Extend` may move the deadline,
refuse, or panic (the sum of two `Duration`s overflows for a huge `seconds`). `Loads`
bounds a behaviour: which operations run against each other and over which ids.
`recorded`, `admitted`, `crowded` and `vacant` are history.

`CallsAtOnce` says that this, too, implements `SessionStore`. Its maps are
`promised_sessions` and `promised_pointers`: what the maps will be once the calls that have
decided are through. A create takes effect at its check, an end where it has found the session,
a sweep where it collects the ids, and a panic or a lost client never comes between
that moment and the last change, because the work between two awaits is done under both
locks. A step that ends a session which has not expired has to be the `Find` of an `end()`.

### SessionPersist

A request mutates the map, and later snapshots it, opens (truncating) the
temporary file, writes, renames. Descriptors follow files across renames, so a
request that opened the temporary file before another one renamed it goes on
writing into `sessions.json`. Contents are opaque; lengths are not modelled, so
writing over another content may give either the new one or a mixture (`Torn`).
Every step may fail, and the process may die between any two. When the client leaves,
`persist()` is dropped, but `tokio::fs` works on a blocking pool and finishes the
operation it was in: in the model that request stays at work until it has, and then
goes without the next step. `lost`, `solo` and `overlap` are history.

### Quota

`Stamp` reads the clock, `Consume` is everything under the mutex. `granted` and
`refused` record the answers per stamped date; `dropped` and `reopened` record
which dates lost their records and were charged again.

### Manifest and Admission

A manifest is a version, source ids and scenarios, each with its deployments and two
lists of actions. `load_manifest` takes the first candidate file that parses and
validates. `gate` is every early return that depends on nothing other requests change,
in the order in which the two middlewares and `create_session` come to them; a request
that is answered there has changed nothing, so only those let in are followed further:
`ReadDate` and `Charge` are `Quota`'s two steps with the counter, `Create` is
`mgr.create()`, of which only "this user holds a live session" is kept, and `Gone` is a
client that leaves while `mgr.create()` waits for its locks. `StartAgain` reads the
manifest again, and keeps those of the sessions that had been saved. `bought` is history.

### SessionLifecycle

A *job* is an operation, an id and the list of calls still to be made for it; the
lists (`create_calls`, `reset_calls`, `teardown_session`) are the handlers' bodies
in order. A call has a verb, a kind of artifact and a way it is sent; what goes
through `exec_sql` has no effect unless `classify_statement` knows it. A session's
scenario is one of four: change data capture from a provisioned source, a template with
a second shuttle (`{shuttle}_sessions` of the clickhouse-snapshot example), kafka,
where an action makes a topic, and upload, where an action writes into the
file-ingestion bucket. The schema or database of the source kinds is one artifact.
`Workloads` bounds a behaviour: the operations called, the scenarios asked for, and the
number of faults. Artifacts are named after the
session, so the model's artifacts are indexed by id, and name validation
(`is_safe_identifier`) always succeeds on derived names. The running shuttle, which
fills its namespace and takes its slot, is the environment. A restart brings
back the unexpired sessions, or none when the file was lost. `meddled`, and the
`orphans` and `ok` fields of the sweep, are history.

### SourceExec

One session's schema, database or key prefix on a source whose kind is chosen
initially. A request is a create (provision, then the init script), a script (action
or reset) or a teardown, and goes through the steps of the dispatcher: the
`OnceCell` (`GetPool`, `Build`), the connection (`Acquire`, where mysql's `USE`
fails without its database), and then one step per statement. A postgres statement is
`pending` until `Commit`; elsewhere it takes effect at once. `places` says where a
statement may work. The *plain* statements of a script, the sets in `Scripts`, create tables
without naming a schema or use those (for redis: their keys have the session's prefix) and go
where the session's name leads: into the schema, on postgres to `public` when it is not there. Any
other statement may go there or elsewhere: to a schema it names, to a table found in `public`,
to a key without the prefix (`exec_redis_inner` adds none), or to something that is in no schema,
like the publications that `examples/postgres-cdc/init.sql` drops and creates (97-98). That the
database server refuses, falls through, or makes DROP SCHEMA wait for open transactions is
external knowledge. An
*item* is a request and a statement number; redis keys of the k-th statements are on
the k-th page of SCAN. When its client goes away a handler is dropped at its
await, except that mysql finishes a packet it already has. The TCP dispatcher never
answers `Unavailable`, so the docker shell fallback is unreachable for these kinds.
`dropped`, `torn` and `late` are history.

### SqlText

A text is a sequence of characters, one for each that some function treats in its own way
("wide" for those outside ASCII) and one for all others. The state machine types every text up to
the bound, one character at a time. Each loop of the code is a function on positions, its state
when the first k characters were read, with the loop's body as an operator of its own
(`ds_char`, `ch_char`, `strip_char`, `token_char`); where the code peeks at the next character
and takes two, or runs an inner loop over a comment, a flag says what the next turn will do.
They are compared with what the text means to its reader: `statements`, `runs`,
`uncommented` and `top_level` come from one reference lexer (quotes, doubled quotes, line
comments) and from sets of positions.

## Runs

Passing runs:

| Run | Bounds | Shows |
|---|---|---|
| `sessions` | 2 users, 2 ids, lifetimes 0..3 against limits 1..2, a configured default out of range, clock to 3, fair sweep | the promised store, a single live session, clocks, cap, in every order of operations, dropped saves and restarts; deadlines only grow; lapsed sessions leave the map |
| `store_locks` | 2 requests and the reaper, 1 user, 2 ids, 5 sets of operations, cooldown 1, a log of 1 | no deadlock or starvation, every call takes effect at one moment, actions are spaced, the log keeps the newest, a lookup in two reads does not lie |
| `admission` | 2 tenants, 2 requests, cap 1, 2 dates, 1 restart, 3 charges, 2 good manifests and 11 kinds of bad ones | the cap in charges and in sessions, no unjust refusal, the counter, sound manifests, gallery and gate agree; the request path implements `Quota` |
| `persist` | 2 requests, 3 contents | until requests overlap the file is whole, mirrors the map, and `SessionPersist` implements `MirroredStore`; an undisturbed save repairs whatever overlapping ones left |
| `lifecycle` | 1 session, 2 requests; all operations without faults, the long reset of the second template, create/end/action with 1 fault, create/end with 2 | teardown only of ended sessions, what an end leaves, nothing unfindable, truthful `Resetting`, what a boot sweep achieves |
| `lifecycle_reaper` | 2 sessions, 1 request, fair | expired sessions are torn down, those that expire together included |
| `source_exec` | 3 requests of any kind (at most one create), scripts of 2 statements, both plain or the second only, a pool of 2, each kind of source, fair | a script leaves a prefix, on postgres none or all; a teardown that reports success removed all that was there; the tables a script creates without naming a schema never end up half in `public`, and those of an init script there only once the schema was dropped; nobody waits for ever |
| `sql_text` | every text of up to 6 characters of the 5 or 7 that matter to its kind | splitters cut at top level only and agree with stripping, tokens are quote-free runs |

Why the bounds are enough: two ids give a user a live session and a replaced one,
or each of two users one; the proofs cover any number. A clock one tick past the
largest lifetime lets a session lapse, be replaced and be extended. Two requests are what a race
takes, and three let two of them meet a third's teardown or a full pool; with the reaper they
are three contenders for two locks. The artifacts
of two sessions never interact, so one session is enough
except for the reaper's loop, which handles several. Three contents tell "the
current map" from "an older one" and from "empty". A cap of 1 and three charges make a date
full, refused and, after a restart, reopened. Six characters hold a literal with
a doubled quote and a terminator, or a comment with one, and something after it; the proofs
cover texts of any length. Deadlock
checking is off where the clock, the calendar, the ids, the faults or the text run out
(`SessionManager`, `Admission`, `SessionLifecycle`, `SourceExec`, `SqlText`) and on
for `SessionPersist` and `StoreLocks`.

Violation runs, each a disagreement between the code and its own comments or docs:

| Run | Claim | What happens |
|---|---|---|
| `sessions_onelive` | "one active per authenticated user" (`lib/sessions.rs` 3) | session lapses, user creates another, extends the first: both live |
| `persist_torn` | "a crash mid-write doesn't leave a half-truncated file" (`lib/sessions.rs` 362) | one save renames the file another just truncated |
| `lifecycle_sweep_live` | "without touching live sessions' artifacts" (`lib/sessions.rs` 550) | a session created after the sweep read the map is torn down |
| `lifecycle_reset_ns` | "Drop target tables inside the session's namespace" (`server/handlers.rs` 611) | `exec_sql` refuses DROP NAMESPACE |

Other disagreements met on the way have no run of their own; the true property beside
each says how far the claim does hold:

* "Re-anchored on hydrate to now minus elapsed" (`lib/sessions.rs` 81): the anchor is the
  moment of the restart, with the full ttl. `ClocksAgree` excepts hydrated sessions
  from its equality, and its other half, that the wall clock's deadline is never the later one,
  shows that no session dies early because of it.
* "leave string-literal `--` alone" (`server/api_client.rs` 310): `strip_sql_comments` cuts a
  line at its first `--`, quoted or not. `OneStatementPerCall` holds for
  texts without a quoted `--`, which is what the templates are.
* "Split a SQL body on top-level `;` boundaries" (`server/dispatcher.rs` 268): so it does, but
  it goes through the bytes of the body and sends each as a character (`bytes[i] as char`). What
  is not ASCII arrives respelled: 'São Paulo' of `examples/clickhouse-snapshot/init.sql` 102 as
  'SÃ£o Paulo'. `SplitsAtTopLevel` is about the respelled text (`as_chars`), which has its quotes
  and semicolons where the script has them.
* "one tick per `POST /sessions` result" (`lib/metrics.rs`, on `session_started_total`): `ok` is
  counted when the charge succeeds, before the session is created, and a request refused by
  the gate is not counted at all. `StartedCountsCharges` says what the counter does count.
* "every step logs + continues on failure so a single stuck step doesn't strand the session"
  (`server/handlers.rs` 1822): without an api client teardown does nothing, the second
  shuttle of a template and a kafka topic are in no list. `EndLeavesSurvivors` names what stays.
* "Look up the live session for `user_id` if any" (`lib/sessions.rs` 560): an expired session that
  was not swept yet is returned too. `ListTruthful` is about the other direction.
* "Max session creations per tenant per UTC day" (`docs/playground.md` 64): a request stamped
  before midnight and served late prunes the new date's counts. `CapUnlessReopened`.
* "mirrored after every mutation" (`lib/sessions.rs` 297): with two requests an older snapshot
  may be renamed last. `MirrorWhenQuiet` is about behaviours in which none overlapped, and
  `SoloSaveRepairs` says when the next save sets it right.
* "Reset in progress" (`lib/sessions.rs` 49): without an api client `reset_session` writes the
  status and then returns 503. `ResettingMeansReset` is checked with a client.
* "a restart-time sweeper can reap orphan data" (`docs/playground.md` 204): teardown drops the
  shuttle, by which orphans are found, first; after a crash in between the rest is
  never found. `StrandedIsSweepable` is checked without crashes and failures,
  `BootSweepReaps` with them.
* "each session writes exclusively into" its namespace (`docs/playground.md` 203): the
  search_path ends in `public`, so a postgres script that runs before the schema is made
  (an action on a session still being provisioned) or after it was dropped makes its
  tables there, and any script may name other places itself, as the init script does with its
  publications. `PlainNamesInside` says of the tables created without a schema that they do not
  go to `public` once the script has begun in the schema, nor for an init script while the
  schema was not dropped. Of everything else a script names nothing is claimed.
* "One command per non-blank, non-`#`-prefixed line" (`server/dispatcher.rs` 185-186):
  `exec_redis_inner` cuts a line at its first `#`, quoted or not. `RedisTokensAreRuns` is about
  what stands before it.
* "Wipe every key prefixed with `<namespace>:`" (`lib/tcp.rs` 215): keys written while the SCAN
  loop runs may stay. `TeardownClears` is about those that were there before.

## Fairness

`SweepExpired` is weakly fair: the reaper's interval fires for as long as the
process lives. In `SessionLifecycle` each request, the reaper and the sweep are weakly
fair: tokio polls a task that is ready, and every call to the api has a
timeout; the `mc` command and the mysql client have none, and it is assumed that their calls
return. In `SourceExec` each request is weakly fair: a source answers or the connection
breaks. In `StoreLocks` each call that has begun is weakly fair, a lock's queue being served in
order; that a client may leave is not needed for `CallsFinish`. Clients, the clock, the shuttle runtime, failures and restarts have no fairness.

## Proofs

Every safety property that a passing run checks is also a theorem. The
theorems hold for all values of the constants that satisfy the named assumptions of the
component's module; these say only that the "none" values are no members of the sets
they stand beside, that bounds and limits are naturals, that workloads are made of the
modelled operations, and what is spelled out below.

`SessionManagerProofs` proves, for all sets of users and ids and all limits, from
`NoIdAssumption` and `TimeAssumption` alone: the type invariant, `PointerSound`,
`OneLiveUnlessLateExtend`, `ClocksAgree`, `DeadlineWithinMax`,
the action property `DeadlineOnlyGrows` and the refinement `KeepsStore`.

None of these is inductive by itself. The invariant `IndInv` adds two things. First,
`OneLiveByWall`: the single-session claim with "expired" replaced by the
wall-clock test. The two are equivalent because of the order in `ClocksAgree` (lemma
`ExpiredByWall`: the monotonic clock never decides), and only the wall-clock form
survives a restart, which forgets the anchors. Second, `FileInv`: what *any*
snapshot that ever reached the disk satisfies relative to the present moment: no two sessions
of one user in it are both still to come, and no deadline in it is further than
its ttl or the cap. A save may be dropped, so the file may be arbitrarily old; the
facts in `FileInv` are those that time alone cannot break, and they are what makes
`Restart` sound. `PersistSound` shows once that a save, done or dropped,
keeps `FileInv`; `RemoveInv` covers both `end` and the sweep.

`ManagerKeepsStore` is the refinement of `SessionStore`, one lemma per operation (`CreateKeeps`
and its like). It rests on `LapsedByWall`: which sessions are expired depends on the wall
clock alone, so a tick only adds to them, and `extended` takes away the session it is called for or
nothing. A session that was just created or restored must not count as expired, which is where
`TimeAssumption` asks for a positive `MIN_TTL` (five minutes in the code).

`QuotaProofs` proves `CapUnlessReopened`, `RefusedOnlyWhenSpent` and
`PeekNeverOverstates` (of `peek()`, which only tests call, so no run checks it). The strengthening relates the table to the history: a
record's count never exceeds what was granted on its date, and equals it
as long as that date was never dropped; a date with grants and no record is a
dropped one.

`AdmissionProofs` shows that `Admission` implements `Quota` (`AdmissionRefinesQuota`:
each step of the request path is one of `Quota`'s, or leaves its variables alone, so all that
is proved of `Quota` holds of the server), its type invariant, and `SessionsWithinCap`. The
last needs more than the quota: `Paid` says that for every tenant and date the sessions
opened, plus the requests that are charged and not decided yet, are no more than
what was granted; `Create` moves one from the second to the first, `Charge` adds one to the
second and to the grants. The number of pending requests is a cardinality, so the proof uses the
finiteness of `Requests` (`AdmissionAssumption`) and the library's theorems on finite sets.

The counter (`StartedCountsCharges`) is compared with the set of creations let through, one
element each: a charge adds one element to the set and one to "ok" (`OneMoreLetThrough`),
and nothing else touches either. For the manifest, `LoadedIsUsable` shows that
`load_manifest` answers with a candidate that passed `validate()` or with none: the first usable
index is the least of a set of naturals, which exists by the library's theorem on
well-founded relations (`SmallestOf`). Hence `InForce`, at the first start and at every later
one, from which `LoadedManifestSound` and `GateAgrees` follow: `validate()` is about lists and
their sizes, the properties about what an id means. Of the candidate files it is
assumed that what parses is made of lists, and that the body that does not parse is no
scenario's id.

`SessionPersistProofs` proves, for any contents and any number of requests,
`WholeUnlessOverlap`, `MirrorWhenQuiet`, the action property `SoloSaveRepairs` and the
refinement `Mirrored`. The strengthening is `Undisturbed`: a request that has been alone since
it began is the only one at work, its snapshot is the map, the temporary file is blank while
it is open and the map once written. Nothing is assumed of what overlapping requests left
in the files, which is why the repair is proved for every behaviour.

`StoreLocksProofs` proves, for any calls, users and ids, the type invariant,
`PointerNeverSeenDangling`, `Throttled`, `LogIsRecent`, `ListTruthful` and `CallsAtOnce`. The invariant starts
from the programs: `writes` and `reads` say at which places of its program a call holds which
lock, and `Exclusion` that the locks agree, so a writer is alone. On that rest `UnderLock` (what
a call found out or did under a lock it still holds is still so: the user has no live session, the
cooldown is over, the entry is there) and `Pointers` (a pointer that leads nowhere belongs to a
`create` or a sweep that is between its two changes, and that one holds the pointers' lock). `Fresh`
keeps an id that was drawn and not inserted yet out of everything. `Lists` follows the
lookup in two reads: from the first read on, either its user had no session at some moment,
or the pointer is still the one it read, or it was just taken away by a call that holds the
lock. The queues need no invariant: they matter for liveness only.

`CallsLinearize` is the refinement of `SessionStore` by the same programs. `Sole` says
that at most one call is between its decision and its last change, because it holds both
locks for writing; `Views` what the promised maps are in that light, and `Halfway` what is
known of that call. Steps before a decision, lock steps and reads are shown to
change nothing promised (`Silent`), `CheckShows`, `FindShows` and `CollectShows` to be the
create, the end and the sweep, and `PointShows`, `InsertShows`, `UnpointShows` and
`RemoveShows` to bring the maps nearer to what was promised already. A first version let
any step be an end; a sweep that reads the ids before it takes its locks, which is the
bug one would fear here, satisfied it, since a session revived meanwhile could be
said to have been ended. Hence `Find` in the statement.

`SessionLifecycleProofs` proves, for any sessions, requests and workloads, with faults, lost
clients and restarts, `TeardownOnlyEnded`, `ResettingMeansReset`, `BootSweepReaps`,
`StrandedIsSweepable` and `EndLeavesSurvivors`. The invariant has the following parts.

* `Shapes`: what the remaining calls of a job may look like, by its operation: a teardown is
  drops, the shuttle's first and then all else the scenario makes; a create or reset ends with
  the update of the status, and CREATE SHUTTLE comes after everything that leads up to it. The
  lists the handlers start from have these shapes (`TeardownList` and its like), and so has
  the tail of each, which is all that a step needs to know.
* `Owned`: a session has only what its scenario makes, and nothing before its id was drawn.
* `Ended`: an id that a teardown works for was drawn and has left the map, to which ids never return.
* `Sweeping`: each shuttle of an orphan is on the sweep's list or about to be dropped until the
  connections are listed; from then on each of its connections is on the list.
* `Stranded`: as long as nothing failed, a session that left the map has a shuttle, or is getting one,
  or waits for the reaper, or whatever it has is on the list of some teardown.
* `Left`: as long as nothing failed, what such a session has beyond the survivors is on the list of
  one teardown that goes on to its end. The orphan sweep's teardown does not count: it may
  be of the second shuttle.

`StrandedIsSweepable` and `EndLeavesSurvivors` are the last two parts with "nobody works for it"
added. The attempt at the last one showed that `survivors` was ambiguous, two
arms of a CASE being true for a template with two shuttles and no api client; it and the
early returns of `Admission` now are alternatives in order.

`SourceExecProofs` proves, for any requests, script lengths, pool sizes and kinds of source,
and any sets of plain statements, `ScriptsApplyInOrder`, `TeardownClears` and `PlainNamesInside`. `Progress` says of each request
that exactly the statements before the one it is at have had their effect, or on postgres are to be
committed, and of a finished one that it stopped somewhere, on postgres at either end. `Scanned`
says that what a teardown's scan has passed holds nothing but late items, and `Inside` that a
schema some open transaction wrote to is there, teardowns or not, from which it follows that
plain statements which went to `public` began with the script's first.

`SqlTextProofs` proves, for texts of any length, `SplitsAtTopLevel`, `OneStatementPerCall` and
`RedisTokensAreRuns`. Nothing is to be shown of behaviours beyond the alphabet of the text
(`Typed`); all the work is in the functions. Each recursion is unfolded once: that a function with
these equations exists is shown position by position, up to the text's length, and so the one the
definition chooses has them (`LexUnfolds` and its like). The induction over positions itself is
`Induction`, from the least element of a set of naturals. Then:

* `DsTurn`, `ChTurn` and `TokenTurn` relate one turn of a loop to one of the lexer: the flags say
  what the lexer is in (`DsLex`, `ChLex`, `TokenLex`), and the turn ends a piece exactly where the
  lexer is in code. `Splitting` and `Running` say that gathering what stands between cuts
  takes the same steps, so list and buffer agree after every character.
* `StatementsAreParts`: a statement is a part of its text that begins in code, has no semicolon at
  top level and is followed by no dash. Hence it is lexed by itself as it was within the text
  (`PartsAreClean`), which is what the peek at the next character could have spoiled at its end.
* `StripsComments`: as long as no literal has `--` in it, a line is cut where its comment starts.
* `NoSemicolon`: once the comments are gone, the rest is lexed as before, with code where a comment
  was. The danger is that taking a comment away brings two dashes together; it cannot, as what
  follows a lone dash in code is kept.

Only model-checked: the four liveness properties `LapsedIsSwept`, `CallsFinish`, `ExpiredIsTornDown`
and `DispatchFinishes` (fairness is out of this prover's reach).

## Not modelled

* The docker shell transport and the shell runner: they assemble a command line for another
  program. `shell_quote` and `validate_example_relative_path` look at one character or segment
  at a time, within the reach of a unit test.
* Placeholder substitution and name derivation (`substitute_*`, `short_user`, `short_sid`,
  `derive_namespace`, `is_safe_*`): replacement from a fixed table, and formatting of hex digits.
* `list_*` and `ping_*` of the dispatcher, `active_count` and `admin_get`: no request calls them.
* Metrics other than `session_started_total`: written and never read.
* Parsing of the environment, of JSON and of headers; logging; the texts of errors.
* Durations are unbounded naturals; the overflow of their sum, a panic, is one of the outcomes
  of `StoreLocks!Extend`.
* `StoreLocks` and `SessionPersist` are not composed: the read lock `persist()` takes is in the
  first, what it does with the snapshot in the second.

## Plan

All modules above are written, and every safety property of the passing runs is proved. What would
come next: composing `StoreLocks` with `SessionPersist`, so that the snapshot a save takes
is one of the promised store; and the docker shell transport, if it comes to keep state.
