---------------------------- MODULE DaemonState -----------------------------
(***************************************************************************)
(* What the tasks of `paur serve` share: the database, the repository and  *)
(* work directories on disk, and the in-memory AppState, which a crash     *)
(* loses.  The tasks themselves are Api, Worker and Poller; Cleanup is a   *)
(* second process on the same database and disk.                           *)
(***************************************************************************)
EXTENDS PaurDb, Sequences, FiniteSets

CONSTANTS Handlers,     \* HTTP requests that may be in flight at once
          Requests,     \* the requests clients send in a run
          Faults,       \* which environment failures a run admits
          WakeCap,      \* capacity of both wake channels (32 in the code)
          MaxRestarts,  \* bound on crashes of the daemon
          Cleaners,     \* `paur cleanup work` processes (none or some)
          InitPackages  \* the packages table the first boot finds

FaultKind == {"db",          \* a statement fails (SQLITE_BUSY, I/O)
              "container",   \* the runtime cannot spawn or reap the build
              "publish",     \* repo-add, gpg or an empty artifact list
              "aur",         \* `git ls-remote` fails
              "disconnect"}  \* the client goes away, its future is dropped

ASSUME DaemonBounds == WakeCap \in Nat \ {0} /\ MaxRestarts \in Nat
ASSUME FaultsKnown  == Faults \subseteq FaultKind
ASSUME InitPackagesOK == InitPackages \in [Names -> PackageRow] /\ UniqueIds(InitPackages)

VARIABLES
    (* survive a crash *)
    packages, builds,
    next_build,    \* sqlite_sequence: the next builds.id
    repo,          \* [Names \X Variant -> build last published there, or 0]
    work_dirs,     \* build ids that have a directory under work_dir
    upstream,      \* AUR HEAD of every package
    restarts,
    (* AppState and the wake path: lost in a crash *)
    boot,          \* how far worker::run got: reap, install, scan, up
    wake_lock,     \* holder of the mutex around the API's wake sender
    api_q,         \* wake channel, API -> forwarder
    fwd,           \* id the forwarder is passing on, or 0
    scan,          \* ids the startup scanner still has to send
    work_q,        \* channel the worker reads
    woken,         \* history: ids this incarnation undertook to deliver
    cancel_tokens, \* ids with an entry in AppState::cancel_tokens
    fired,         \* ids whose token has been cancelled
    log_channels,  \* ids with an entry in AppState::log_channels
    (* tasks *)
    hpc, req,      \* request handlers
    wpc, job,      \* the worker
    ppc, poll,     \* the poller
    cpc, keep      \* cleanup processes

db_vars    == <<packages, builds, next_build>>
disk_vars  == <<repo, work_dirs>>
env_vars   == <<upstream, restarts>>
wake_vars  == <<boot, wake_lock, api_q, fwd, scan, work_q, woken>>
token_vars == <<cancel_tokens, fired>>
api_vars   == <<hpc, req>>
work_vars  == <<wpc, job>>
poll_vars  == <<ppc, poll>>
clean_vars == <<cpc, keep>>

vars == <<db_vars, disk_vars, env_vars, wake_vars, token_vars, log_channels,
          api_vars, work_vars, poll_vars, clean_vars>>

\* A row of the build being processed, and what run_in_container returned.
Job == [build : 0..MaxBuilds, name : Names \cup {""}, pid : 0..MaxPkgIds,
        variant : Variant, outcome : {"none", "success", "failed", "cancelled"},
        cloned : Ref, head : Ref]

NoJob == [build |-> 0, name |-> "", pid |-> 0, variant |-> "default",
          outcome |-> "none", cloned |-> 0, head |-> 0]

\* A request and the locals of its handler.
Op  == {"", "add", "rebuild", "variants", "auto", "delete", "cancel"}
Req == [op : Op, name : Names \cup {""}, auto : BOOLEAN,
        variants : SUBSET (Variant \cup {"unknown"}), build : 0..MaxBuilds,
        pid : 0..MaxPkgIds, todo : SUBSET Variant, first : 0..MaxBuilds]

NoReq == [op |-> "", name |-> "", auto |-> FALSE, variants |-> {}, build |-> 0,
          pid |-> 0, todo |-> {}, first |-> 0]

ASSUME RequestsOK ==
    \A r \in Requests :
        /\ r \in Req
        /\ r.op # "" /\ r.pid = 0 /\ r.todo = {} /\ r.first = 0
        /\ IF r.op = "cancel" THEN r.build \in BuildIds ELSE r.name \in Names

\* One poll iteration: the snapshots it took, the packages left to look at,
\* and the one whose build is about to be inserted.
Poll   == [rows : [Names -> PackageRow], live : SUBSET (0..MaxPkgIds),
           todo : SUBSET Names, at : Names \cup {""}]
NoPoll == [rows |-> [n \in Names |-> NoPackage], live |-> {}, todo |-> {}, at |-> ""]

InSeq(x, s) == \E i \in 1..Len(s) : s[i] = x

\* wake is Some(api_tx) from the install step on.
WakeInstalled == boot \in {"scan", "up"}

\* The next id, while the bound on ids lasts.
CanEnqueue == next_build \in BuildIds

\* INSERT of one queued row.  The caller says what happens to the id.
Enqueue(i, t, v) ==
    /\ CanEnqueue
    /\ ForeignKeyOK(packages, i)
    /\ builds' = enqueue_build(builds, next_build, i, t, v)
    /\ next_build' = next_build + 1
    /\ UNCHANGED packages
=============================================================================
