# paur: a verification

paur is a self-hosted pacman repository: a daemon (`paur serve`) keeps a list of
AUR packages, builds them one at a time in containers, signs and publishes the
results, and rebuilds packages whose AUR repository has moved. This directory
holds TLA+ models of it, the TLC configurations that check them, and proofs
that TLAPS checks. Paths below are under `src/`.

## 1. Inventory

| Part | Source | State it keeps | Operations |
|---|---|---|---|
| Tables and queue | `crates/paur-db` | `packages`, `builds`, `build_logs`, `settings`, `sessions` (SQLite) | upsert, enqueue, claim by id, finish, cancel, reap, delete with cascade |
| Worker | `paur-daemon/src/worker.rs` | wake sender behind a mutex, two channels of capacity 32, the cancel-token map, the log-channel map | `worker::run` (reap, install, scan, forward), `process_one` (claim, container, finish, publish, record) |
| HTTP API | `paur-daemon/src/api.rs` | none of its own: one task per request | add, rebuild, set variants / flags / auto, delete, cancel, logs |
| AUR poller | `paur-daemon/src/poller.rs` | snapshots local to an iteration | `poll_once` every `poll_interval_secs` |
| Cleanup command | `paur-daemon/src/main.rs` | a list of running builds, local | `paur cleanup work`, a second process |
| Container builder | `crates/paur-builder` | a work directory per build | `run_in_container`, `run_repo_op` |
| Repository | `crates/paur-repo` | one directory, database and signature per variant, optionally mirrored to S3 | `publish`, `remove` |
| AUR client | `crates/paur-aur` | none | `latest_ref`, the `.SRCINFO` parser |
| S3 client | `crates/paur-s3` | none | `put` with retries, `delete` |
| Authentication | `paur-daemon/src/auth.rs`, `paur-core/src/auth.rs` | password hash in `settings`, `sessions` | login, logout, `paur passwd` |
| Flags and variants | `paur-core/src/build_flags.rs` | two JSON columns of `packages` | parse, merge, `active` |
| Signing key | `paur-cli/src/cmd.rs`, `paur-repo`, `worker.rs` | the gpg keyring, `settings.gpg_key_id`, exported public keys, the `paur-keyring` package | `init`, `repo-init`, `config`, `keyring-build`, the self-heal |
| Build log | `paur-builder`, `queries.rs`, `worker.rs`, `api.rs` | `build_logs`, one broadcast channel per build | two pumps, `append_log`, `stream_logs` |
| CLI, web UI | `paur-cli`, `web` | the page's copy of the row | `paur flag`, `paur logs`; the package page |
| Config, deployment | `paur-core`, `deploy`, `container` | none | start-up; `build.sh` |

How they interact: the API, the worker and the poller are tokio tasks of one
process that share the database and an `AppState`. A handler inserts rows and
then sends a build id through `AppState::send_wake`; a forwarder task passes it
to the channel the worker reads. The worker claims exactly the ids it receives.
The cancel handler writes the row and then fires a token the worker registered.
Handlers, worker and poller meet in the database only one statement at a time,
so each reads values that may be stale when it uses them.

What is hard here, and what would make it correct:

* *Wake path.* An id may be dropped before the sender is installed, delivered
  twice (API and start-up scan), or wait behind full channels and a held mutex.
  No build somebody was woken for may be lost.
* *Claim, cancel, finish.* Three parties write the status of one row without a
  transaction spanning their steps. A build is claimed once; what is published
  must have been recorded as a success; a cancel must reach the container.
* *Crashes.* systemd restarts the daemon at any point; the next boot has to
  repair exactly the rows the dead one left.
* *Stale snapshots.* The poller, the cleanup process and the worker itself act
  on rows read long before.
* *Deletion.* A package may vanish under its build, its queued builds, a handler
  that is still inserting builds for it, or a poll iteration.
* *Early returns.* A `?` in `process_one` skips all that releases what it took.
* *Publishing.* `publish` and `remove` run in the worker, in handlers and in the
  CLI, without a lock, on one database, one signature and one `.stage` directory
  each of them deletes. A container, gpg or an upload may fail or outlive its
  caller. What a publish reported as done must install, here and on the mirror.
* *Copies of the key.* The key id is read from the settings and used later by
  processes that may be interrupted; every copy of the key must be of that key.
* *Sessions.* A login and a password rotation interleave.
* *Whole-column writes.* The page and `paur flag` both read a row, change a copy
  and send it back whole.
* *The log.* Two pumps allocate sequence numbers by reading the maximum; a
  follower subscribes at any point and must be told when it is over.

`PROJECT.json` lists these as hazards with their lines and the properties that
watch them.

## 2. Modules

    PaurDb            tables and statements, as operators
      DaemonState     the shared variables, requests, faults, bounds
        Api           handlers, cut at their awaits
        Worker        worker::run, wake path, process_one
        Poller        poll_once
        Cleanup       paur cleanup work
          Daemon      all of them, crashes, the AUR; fairness; properties
            MCDaemon          instances for TLC
            DaemonProofs      inductive invariant
              DaemonRefinement  refinement, RunningIsHeld
                DaemonTasks     NoWakeLost, NothingLeftBehind, OnePollBuild
    BuildLifecycle    abstract specification of a build row
    S3Client          S3Client::put over an object store
      RepoPublish     publish and remove by several callers
        MCRepo
        RepoProofs    PublishedInstallable, SignedDatabase, MirrorServes, refinement
    Repository        abstract specification of what a repository offers
    Keyring           the key's copies, init, keyring-build, self-heal
      MCKeyring
      KeyringProofs   ServedKeysAgree
    Sessions          login, logout, passwd, expiry
      Flags           PATCH flags / variants, the package page, paur flag
        Admin         both together; properties
          MCAdmin
          AdminProofs  RotationRevokes, CommandHonoured
    LogPipeline       pumps, append_log, broadcast, stream_logs
      LogProofs       LiveIsStored, DoneIsFinal, CollisionsBounded, refinement
    BuildLog          abstract specification of a followed log
    SrcInfo           the .SRCINFO parser, against what a .SRCINFO means
      MCSrcInfo
      SrcInfoProofs   ParsesAsMeant, ListsAsMeant, OneVersion

**PaurDb.** A table is a function; a statement is an operator from the table to
the table after it. `packages` is keyed by the unique name with `id = 0` for no
row. `packages.id` is not AUTOINCREMENT and comes back after a deletion
(`NextRowid`); `builds.id` is and does not (`"deleted"` rows). `finish_build`
has no condition on the status, `claim_build_by_id` and `cancel_build` do.
`build_flags`, timestamps and exit codes are left out: no property distinguishes
them. The `LIMIT`s of `list_builds` (1000, 10000) are far above the bounds.

**Api.** Handler `h` is a program counter `hpc[h]` and its locals `req[h]`; one
action per await (a statement, a repository operation, a lock, a full channel).
A request that is rejected before it changed anything is no step.
`enqueue_all_variants` (add, rebuild) inserts one build per active variant and
wakes for the first; `set_package_variants` wakes for each. `drop_handler` is a
client that goes away: axum drops the future at its await, mutex guard included.

**Worker.** `boot` is how far `worker::run` is: `reap`, `install` (the sender
goes into `AppState::wake`), `scan`, `up`. A failing reap ends the process and
is covered by `Crash`. `wpc` is the position in `process_one`; `Return` is every
way out of it, early ones included. `run_in_container` is three actions: spawn
(the container clones the AUR repository), exit, and error. The `select!` is
biased: a fired token wins over an exit not yet observed. Publishing is one step
here, `RepoPublish` has its parts; a failed publish may or may not have changed
the repository. The errors
for an unknown variant tag and an invalid package name cannot occur: both are
checked before a row is written. A killed build is the `docker run` client the
daemon started; what the container runtime does after that is not visible to it.

**Poller.** The packages, the queued and the running builds are read in three
statements, in this order; each package is then decided against those snapshots
and a fresh answer from AUR. The timer is left open: an iteration may start
whenever the last is over.

**Cleanup.** A second process that lists the running builds once and removes
directories one by one.

**Daemon** puts the tasks side by side and adds `Crash` (all of `AppState`, the
channels and the tasks are lost; tables, repository, directories stay) and
`Push` (AUR moves). `woken` is a history variable: the ids this incarnation
undertook to deliver. Nothing reads it but properties.

**BuildLifecycle** is the abstract specification: rows and the one holder.
`ImplementsLifecycle` instantiates it with the status column and the build
`process_one` is on.

**S3Client, RepoPublish.** A file's content is what its bytes are a function of:
for each package the version in it. A package file holds one, a database
several, a signature what it signs, so "the checksum in the database is that of
the file" is an equality. `publish_with` is cut wherever another process can get
in between: copies, staging, container, the read and the write of gpg, each
upload; a signature that does not exist is passed over (`upload_skip`). The
container removes the signature as soon as it starts and `repo-add`
locks the database, as its lock file does. `abandon` is a caller that dies: its
container or gpg runs on as an `orphan`. `put` has a success, a transient, a
permanent and a transport-error answer; the last may come after the object was
stored. `claim`, `good`, `mirrored`, `listed`, `alone`, `settled`, `last` are
history variables. One variant is modelled: the three have their own directory
and database, and share `.stage`, which is why two callers of one variant already
show what sharing can do. The model takes the directory `run_repo_op` names as
reachable in the container: the command line mounts it at `/work/repo` and passes
its path on the host (builder/lib.rs:373, 379), and `build.sh:207-210` ends with
exit 2 where that path does not exist inside, which is the failing outcome
`run_repo_op_exit` always allows.

**Repository** is the abstract specification of both: for each name the version
that installs, or none; how the database is signed; the operation each caller is
on. It says nothing of stages, copies, locks or mirrors. A name is changed only
by operations open on it, a removal only withdraws, the sole operation on a name
since it began takes it to nothing or to its own version and, when it succeeds,
has taken it there; `Open` keeps with each operation the names of which this
holds (`sole`) and whether it met no other operation at all (`alone`).
`ImplementsRepository` maps `offers[n]` to the version for which the file, its
signature and the database's checksum agree (`Offer`), and the operations to the
callers' jobs.

**Keyring.** A key is its position in the keyring, 0 is none. Each command is a
sequence of steps with a `die` between any two; two processes run them at once.
`list_signing_key` returns the oldest key of an email, as gpg prints them.
`keyring` is the published `paur-keyring` package: the exported key inside it,
the fingerprint it trusts and the key that signed it. `build_meta_package`, a
container and a package of two hundred lines of PKGBUILD, is reduced to those.

**Sessions, Flags, Admin.** A password is its version; `over` on a session row is
history: that its login was in flight while the sessions were last deleted. A
column of a package is the set of what is on. A PATCH is extracted (401, 503,
422), written and read again for the answer, in three steps, and fails at either
statement. The page shows a change before the answer, puts it back on an error,
leaves for the login page on a 401, and refreshes in two steps, so an old answer
may overwrite a newer page. `paur flag` reads, then sends the flags, then the
variants. A column whose delete races is not followed: `Api` has that.

**LogPipeline.** One build. `append_log_select` and `append_log_insert` are its
two statements, with the primary key `(build_id, seq)` in between. `process_one`
is reduced to its places where the log sees it (`wpc`). A follower subscribes
under the map's lock or gets the stored log; `recv` skips like tokio's broadcast
receiver. The channel's capacity is 2 here and 1024 in the code. A pump may end
at any time, at the end of its stream or at a line it cannot read. `delete_package`
asks for no state, in the model as in the handler: `builds` and `build_logs`
refer to the package with `ON DELETE CASCADE` (0001_init.sql:19, 36), so a
deletion under the build or after it takes the row and every stored line, and from
then on the foreign key refuses each insert (`Accepts`), while the container, the
pumps and the channel go on. Ids of builds are AUTOINCREMENT, so the log stays
empty for good. `gone`, a history variable, keeps what was deleted; `Ever` is
what the build ever stored, and the properties are about that.

**BuildLog** is its abstract specification: a log that grows until it is closed,
each stream in its order, and may go at any time, once, whole and for good
(`Delete`); followers that hear lines that are or were stored and are told the
closed log, a part of it, or nothing more. Sequence numbers, the channel and the
steps of `process_one` are gone. `ImplementsBuildLog` takes the log as closed when
both pumps are at their end or the build's row is gone.

**SrcInfo.** A line is a key kind and its values. The parser is a state machine
over lines; `Owner`, `MeantScalar` and `MeantList` say what an input means without
it. `#` comment stripping, quotes and array syntax are left out.

## 3. What TLC checks

Everywhere `CHECK_DEADLOCK FALSE`: with no request and no queued build the daemon
idles, and the bounds on operations, ids and restarts add further ends.

| Run | Instance | Properties | What it shows |
|---|---|---|---|
| `queue` | 2 handlers, 3 builds, 1 crash, channels of 1, publish failures, two variants | `NoWakeLost`, `PublishedSucceeded`, `NothingLeftBehind` | rebuilds and cancels of everything, against a worker and a restart |
| `registry` | 2 packages, 2 handlers, add / variants / delete | `TypeOK`, `RunningIsHeld` | packages vanish and come back under builds and handlers |
| `faulty` | all faults but AUR, 1 crash, AUR moves | `IInv`, `ImplementsLifecycle` | the inductive invariant the proofs use, with every early return |
| `polling` | poller, rebuild, delete, auto off, AUR failures, 1 crash | `OnePollBuild` | stale snapshots do not pile up builds |
| `live` | 2 builds, 1 crash, cleanup process, containers that may never end, `HangSpec` | `CancelKills`, `WokenWhenExit` | a cancel that finds the token gets the worker off the build; if containers end, every promised id leaves the queue |
| `repo` | the worker or a `keyring build`, and a second `keyring build` or a removal; 2 operations beside the stock, 3 files, S3 with all answers, every fault | `TypeOK`, `PublishedInstallable`, `SignedDatabase`, `MirrorServes`, `ImplementsRepository` | what a publish reported is what pacman gets, and what those who install see of all this is a `Repository` |
| `keys` | 2 processes, 2 emails, 2 keys, 4 commands / starts / wipes | `TypeOK`, `ServedKeysAgree` | interrupted and concurrent commands leave no foreign key |
| `admin` | 1 browser, 1 passwd process, 1 command, 3 operations, 2 rotations, `FairSpec` | `TypeOK`, `RotationRevokes`, `CommandHonoured`, `PageConverges` | sessions and the two writers of a row |
| `logs` | 2 pumps of up to 2 lines, 1 follower, capacity 2, 2 failed statements, the package deleted at any time, `FairSpec` | `TypeOK`, `DoneIsFinal`, `LiveIsStored`, `CollisionsBounded`, `FollowEnds`, `ImplementsBuildLog` | what a follower is told, and what is left of it when the package goes |
| `srcinfo` | every input of up to 5 of 13 lines, 2 names | `ParsesAsMeant`, `ListsAsMeant`, `OneVersion` | the parser against its meaning |

Why these bounds are enough to see the interesting cases: channels of capacity
one are full after one id, so every path through a full channel and a held mutex
occurs with three builds; one crash gives every point of death and a complete
second boot, on rows the first one left; two handlers give every pair of
requests, and nothing in the code depends on a third one. Two variants make the
enqueue loop run more than once. A second AUR commit is enough to tell the ref
that was built from the ref that is recorded. In `repo` a stock, a publish of two
files and one other operation give every interleaving of two callers on the three
shared things, and two publishers of one package a signature that is gone when
the other comes to upload it (`upload_skip`); one retry shows an answer that is
retried and one that uses the delays up (the code has four; the theorems are
about any number). Two keys and two emails tell the key of a copy from the
setting's. A capacity of two makes a follower that subscribed at the first of the
four lines lag. Five lines are two names, a resumed block and a field on either
side. Handlers and CLI processes are interchangeable, hence the symmetry (not
used in runs with temporal properties under fairness).

Some properties hold only under assumptions a reader should know.
`NothingLeftBehind` and `RunningIsHeld` are checked without failing statements
and without a failing container runtime: `process_one` returns early on those
(worker.rs:250, 271) and then leaves the token, the log channel and a row that
says `running` until the next boot; `FollowEnds` names that case (`leaked`).
`CancelKills` starts from a cancel that finds the token. `SignedDatabase` is
about operations that do not overlap, and so is the database part of
`MirrorServes`. `ServedKeysAgree` ends when the setting is given another key.
`CommandHonoured` is about answers with no other write in between: the whole
column is written and not compared with what was read, so the later of two writes
takes back the earlier, and no property here would catch that. Nor does one catch
the cleanup process deleting the directory of a live build (`BadCleanup.cfg`): the
`live` run has that process beside the daemon, but `CancelKills` is not about it.
`DoneIsFinal`, `LiveIsStored` and `CollisionsBounded` hold across the deletion of
the package because they say what becomes of the lines then: the log a follower
was told is what was deleted, or nothing; a line seen live was stored.

## 4. Where the code does not do what it says

Each of these configurations violates one statement of a comment, on purpose:
the counterexample is the evidence. The first two are runs of the project; the
others are run by hand (`tlc -config BadX.cfg <module>`).

| Configuration | Module | Statement | What happens |
|---|---|---|---|
| `bad_variants` | MCDaemon | `EveryBuildRuns` | only the first of a package's builds is woken for; the others stay queued until a restart. The poller wakes for none of its builds either (poller.rs:90); the same property fails for it |
| `bad_toggle` | MCAdmin | `VariantToggled` | `paur flag --variant` sends a body without `name`, which `AddPackageBody` requires: 422, after the flags were written |
| `BadCancel.cfg` | MCDaemon | `CancelledStays` | `finish_build` overwrites a cancellation, and a success is then published |
| `BadRelease.cfg` | MCDaemon | `CancelledIsReleased` | a cancel between the claim and the registration of the token fires nothing, and a second cancel is refused |
| `BadDelete.cfg` | MCDaemon | `DeletedIsUnlisted` | a build that was running when its package was deleted publishes it again |
| `BadRef.cfg` | MCDaemon | `RecordedRefWasBuilt` | AUR's HEAD is asked after the publish, so a push in between is recorded as built and the poller never sees it |
| `BadCleanup.cfg` | MCDaemon | `LiveDirKept` | a build claimed after the listing loses its directory |
| `BadUnsigned.cfg` | MCRepo | `RestsSigned` | the script removes the signature first, and the host signs again only when the container succeeded: a failed removal leaves the database unsigned (build.sh:216-219 says it will be re-signed) |
| `BadHeal.cfg` | MCKeyring | `HealedMatches` | a file that is there is not compared with the setting, so a public key of an earlier key stays (worker.rs:395-399 says it matches) |
| `BadLine.cfg` | LogPipeline | `EveryLineStored` | of two pumps that read the same maximum one loses its line |
| `BadFollow.cfg` | LogPipeline | `EveryFollowEnds` | after an early return of `process_one` the channel stays in the map and a follower waits for good |
| `BadBlock.cfg` | MCSrcInfo | `FirstBlockIsOwn` | of a split package the block after the first `pkgname` is read as the base's and given to every other package (srcinfo.rs:18-19 calls the base shared) |

Also met while modelling, without a configuration of its own: after a restart the
scanner wakes for the newest build first, so the variants of a package are built
in reverse order (worker.rs:153); a client that disconnects between the update of
the variants and the inserts leaves a variant enabled with no build, and a retry
finds nothing newly enabled (api.rs:425); two publishers that sign at once may
leave the signature of the older database; the signature of the database is not
uploaded although the comment says "the DB and its sig" (repo lib.rs:254); `put`
does not retry transport errors (s3 lib.rs:14-17); a removal is not mirrored;
`init --force` with the email of an existing key generates a key and then goes on
with the oldest; a running daemon signs with the key it started with; the
comments of `set_build_flags` in the CLI's and the web's clients say the daemon
merges, it replaces; two toggles whose answers come in the other order show the
older one until the next refresh; a rotation does not reach a login that has read
the old hash and not yet inserted its row (`RotationRevokesAll`); a `#` in a value
cuts the line there (srcinfo.rs:147).

### Fairness

Boot, the scanner, the forwarder, the worker, the poller and a handler that has
begun are tokio tasks on a multi-threaded runtime: each takes its next step
eventually if it can (`TaskFairness`, weak fairness). Weak fairness is enough
for the wake mutex because tokio's mutex and channels are FIFO and, in the runs,
one handler at a time holds it. Requests, pushes, crashes and faults are never
fair. A killed client process exits (`killed_container_exits`). That a container
ends by itself is an assumption about packages, not about paur, which has no
build timeout: it is kept apart (`ContainersExit`), `CancelKills` does without it
and `WokenWhenExit` states it as its premise. In `LogPipeline` the pumps, the
followers' reads and `process_one` are fair, and the container's exit with them;
lines, errors and crashes are not. In `Admin` the daemon answers the page and the
page refreshes every four seconds as long as it is open (`FlagsFairness`); what
users, commands and `paur passwd` do is not fair.

## 5. What is proved

For every value of the constants the `ASSUME`s allow (names, handlers, requests,
sets of faults, capacities, commands and bounds; TLC evaluates them in each run):

* `Invariance`: `Spec => []IInv`. `TypeOK` alone is not inductive: the step that
  appends `req[h].first` to a channel needs it to be a build id there
  (`HandlerLocals`), `process_one_publish` needs a name (`WorkerLocals`), and
  `PublishedSucceeded` needs that the row is still a success when the worker
  comes to publish. That is `HeldRow`: between the claim and `finish_build` the
  row is running, or was cancelled or deleted under the worker; after a success
  only a deletion touches it, because a terminal row is not cancellable, the
  reaper takes only running rows, and the id is never handed out again
  (`FreshIds`). `ForeignKeys` ties rows to packages through deletions and the
  reuse of package ids.
* `TypeCorrect` and `PublishedSafe` (`[]PublishedSucceeded`) follow. Each other
  component's proof module has a `TypeCorrect` of its own.
* `Refinement`: `Spec => ImplementsLifecycle`. Each action is a step of
  `BuildLifecycle` or leaves the row statuses and the holder alone; a crash is a
  `Release`, and the reaping is a `Reap` because nobody holds a build before the
  wake sender is installed (`WorkerLocals`).
* `RunningHeld`: with no failing statement, no failing runtime and no cleanup
  process (`NoEarlyReturn`), `[]RunningIsHeld`. Its invariant adds that the
  worker's row is settled when it reaches `cleanup` (`Settled`) and that the
  directory of a live container is there (`LiveDirKept`, which without a cleanup
  process does hold): otherwise listing the artifacts would be an early return.
* `WakesKept`: with no failing statement and no dropped request (`NoDrop`; the
  `queue` run is such an instance), `[]NoWakeLost`. A failing scan or claim, or a
  handler dropped while it waits for room, does take an id off the path. The
  invariant adds `Issued`: ids that were promised, or that a handler remembers,
  have been handed out, so by the refinement no insert queues them again. Each
  step along the path then moves an id from one place to the next
  (`PathInFlight`), every other step leaves the path alone (`PathFrame`), and
  what is dropped before the install is found by the scan, which comes after.
* `EntriesGivenBack`: under `NoEarlyReturn`, `[]NothingLeftBehind`. The invariant
  (`EntriesHeld`) places each entry: the token is there at most from its
  registration to `drop_token`, the log channel at most from the spawn of the
  container to the end of `process_one`, and both only under the id of the
  worker's own build. The assumption is needed: with a failing statement the
  early returns do leave both.
* `PollerNeverPilesUp`: `[]OnePollBuild`, under every fault. Between its queries
  the poller has to have seen what it would duplicate (`PollerSees`): after the
  query of the queued builds every queued build of its own, after both every live
  one of a package still to be looked at. Other tasks take builds out of these
  sets or move them on, and only the poller makes builds it asked for. A build is
  found by the package's id, so the argument needs that two rows never share one
  (`UniqueIds`, the primary key), in the table and in the snapshot.
* `PublishesInstall`, `DatabaseSigned` and `MirrorIsServed`, from one invariant
  (`RInv`) of `RepoPublish`. Nothing locks the directory, the stage or the
  upload, so no caller knows what a shared file holds. What can be said is whose
  it is: an operation that was the only one on a name since it began owns the
  name (`Owners`, through `claim` and versions of operations), and what it has
  done for it so far stays done (`Progress`): the file is copied, the signature
  is of that file, the database has its entry once the container has run under
  the database's lock, each acknowledged upload is what is served. Another
  caller can at worst delete the staged copy, and then the container fails. The
  database itself is nobody's; only an operation that met no other knows it
  (`Solo`), and `settled` and `listed` hold only when every active operation is
  such a one (`Quiet`).

* `RepositoryImplemented`: `Spec => ImplementsRepository`, with a mirror or
  without. On top of `RInv` it needs what an operation that a caller has lost or
  not ended leaves in the directory (`Effects`): a caller without an operation
  has no job, a publish whose caller died over its container leaves its own
  copies of the names it owns, and a removal has its entries out of the database
  before that is signed. Another's step leaves this alone (`EffectsOthers`);
  `Whither` says where a caller's own step can lead and what it did to the files,
  and the lemmas after it follow one name through the step. A caller that dies
  while its container runs on keeps its operation open until the container has
  ended, and so does the mapping.
* `KeysAgree` (`[]ServedKeysAgree`, for any number of CLI processes). It is not
  inductive: a command writes a key it read some steps before. `InFlight` says
  that what a command or the healing daemon holds between two steps is the
  setting's key until the setting is changed, and `HeldKeys` that it is a key at
  all: a command that found none has ended. `init_set` is the interesting step:
  the setting goes from none to a key (then nobody holds one, and no copy
  exists, since both would be the setting's), stays, or is `changed`. A lemma
  shows by well-foundedness that the CHOOSE in `list_signing_key` has a value.
* `Revokes` (`[]RotationRevokes`, of `Admin` with its page and commands). The
  invariant follows the logins in flight (`LoginsKnown`): one that began before
  the deletion is in `late`, any other was verified with the present password;
  the handlers of the columns, the page and `paur flag` leave the sessions alone
  (`FlagsLeaveSessions`).
* `Honoured` (`[]CommandHonoured`). The invariant follows a command's PATCH
  (`Sent`): its body is the column the command wants; while `ver` says no other
  write has come after its own, the row has that column, and then so has the
  answer. That the handler replaces the column is what makes this hold.
* `LiveStored` and `DoneFinal` (`[]LiveIsStored`, `[]DoneIsFinal`, for any pumps,
  followers, capacity and failures, and a deletion of the package at any time).
  The first needs that a line is stored before its pump comes to send it,
  whatever the other pumps do (`Stored`), and that a deletion moves it from the
  log to what was deleted, to which nothing is added (`SameEver`). The second
  needs that no pump writes from the end of the drain on (`Drained`), and that a
  channel which closes under a follower was dropped after it, which an early
  return does not do (`Ended`).
* `LossBounded` (`[]CollisionsBounded`). The invariant (`TInv`) counts the pumps
  whose number is stale: a pump that read the maximum before another pump's
  insert. Each stored line makes at most all other pumps stale, each lost line
  uses one stale number up, so lost lines and stale pumps together stay within
  the bound (`Overtaken`). The bound is in the lines ever stored: a deletion empties
  the log, makes no pump stale, and what the foreign key refuses afterwards is not
  lost to a race.
* `BuildLogImplemented`: `Spec => ImplementsBuildLog`. The step of interest is an
  accepted insert: the line goes behind every line its pump has stored, because
  what is stored of a pump has a smaller number than the line it is on
  (`Numbers`), and the log is still open, because this pump is not at its end.
  That a follower is told the whole log only after it is closed is `Drained` and
  `Ended` again. The deletion is `Delete`; after it no insert is accepted, so the
  log stays empty and every further line a follower hears was stored before.
* `ScalarsMeant`, `ListsMeant` and `VersionIsOne` (`[]ParsesAsMeant`,
  `[]ListsAsMeant`, `[]OneVersion`, for inputs of any length). Between two lines
  (`Midway`, `MidLists`) the base and the blocks hold the last values, and the
  lists all values, of the lines read so far, and the current block is the owner
  of the next line. `OneMoreLine`, `OneMoreScalar` and `OneMoreList` say what a
  further line changes in the meaning of an input. A meant list is a
  concatenation (`FlattenSeq`, a recursive function): that one more sequence
  comes at its end (`FlattenAppend`) is proved by a least counterexample
  (`LeastNat`), which takes a set where the induction theorems take an operator.

Only model-checked: liveness (`CancelKills`, `WokenWhenExit`, `PageConverges`,
`FollowEnds`), which is out of this prover's reach. Every other property of a
passing run is stated by a theorem, those of the daemon under the assumptions
given with them. The violations of section 4 are counterexamples.

## 6. Plan

Everything listed above is done. What could be added, in this order:

1. Several variants in `RepoPublish`, which share `.stage` and nothing else: the
   model's two callers of one variant have more in common than callers of two.
2. Publishing as `RepoPublish` has it inside `Daemon`, in place of its one step
   `process_one_publish`, through `Repository`.

## 7. Not modelled

Configuration, paths, names and logging (start-up I/O and string validation); the
web UI's other pages and the CLI's listings, `doctor` and `print-pacman-conf`;
password hashing and S3 request signing (pure computations over bit strings);
`set_package_enabled`, `claim_next_queued` and `prune_expired_sessions`, which
nothing but tests calls; `S3Client::delete`, `clone` and `pull` of the AUR
client, which nothing calls; the arguments of `docker run` and what makepkg does
in the container; more than one worker, which `worker::run` refuses.
